----------------------------- MODULE HamtProofs -----------------------------
(***************************************************************************)
(* That dicts are finite maps, whatever the keys and their hashes.  The    *)
(* lemmas say what an operation does to the leaves of a trie of any depth, *)
(* then what lookups see of it, then what it does to the maps of DictSpec. *)
(***************************************************************************)
EXTENDS Hamt, HashTrieProofs

-----------------------------------------------------------------------------
(* The recursive definitions, unfolded                                     *)

LEMMA GetsUnfolds ==
  ASSUME NEW k
  PROVE  Gets(k) = [d \in Depths |-> [n \in Tries[d] |-> GetIn(n, k, d, Gets(k)[d + 1])]]
<1> DEFINE At(d, below) == [n \in Tries[d] |-> GetIn(n, k, d, below)]
           F(f)         == f = [d \in Depths |-> At(d, f[d + 1])]
           Rest(e)      == Levels - e .. Levels
           G(g, e)      == g = [d \in Rest(e) |-> At(d, g[d + 1])]
           S            == {e \in Nat : e <= Levels => \E g : G(g, e)}
<1>1. Levels \in Nat /\ \A b1, b2 : At(Levels, b1) = At(Levels, b2)
  BY HashAssumption, TriesFacts
<1>2. Gets(k) = CHOOSE f : F(f)
  BY DEF Gets
<1> HIDE DEF At
<1>3. 0 \in S
  <2> DEFINE g == [d \in Rest(0) |-> At(Levels, 0)]
  <2>1. \A d \in Rest(0) : d = Levels
    BY <1>1
  <2>2. g = [d \in Rest(0) |-> At(d, g[d + 1])]
    BY <1>1, <2>1
  <2> HIDE DEF g
  <2> QED BY <2>2
<1>4. ASSUME NEW e \in Nat, e \in S PROVE e + 1 \in S
  <2> SUFFICES ASSUME e + 1 <= Levels PROVE \E g : G(g, e + 1)
    OBVIOUS
  <2>1. PICK g : G(g, e)
    BY <1>1, <1>4
  <2> DEFINE h == [d \in Rest(e + 1) |-> At(d, g[d + 1])]
  <2>2. ASSUME NEW d \in Rest(e + 1) PROVE h[d] = At(d, h[d + 1])
    <3>1. CASE d = Levels
      BY <1>1, <3>1
    <3>2. CASE d # Levels
      <4>1. d + 1 \in Rest(e) /\ d + 1 \in Rest(e + 1)
        BY <1>1, <3>2
      <4>2. g[d + 1] = At(d + 1, g[d + 2])
        <5>1. g[d + 1] = At(d + 1, g[d + 1 + 1])
          BY <2>1, <4>1
        <5> QED BY <1>1, <5>1
      <4>3. h[d + 1] = At(d + 1, g[d + 2])
        <5>1. h[d + 1] = At(d + 1, g[d + 1 + 1])
          BY <4>1
        <5> QED BY <1>1, <5>1
      <4>4. h[d] = At(d, g[d + 1])
        OBVIOUS
      <4> QED BY <4>2, <4>3, <4>4
    <3> QED BY <3>1, <3>2
  <2>3. h = [d \in Rest(e + 1) |-> At(d, h[d + 1])]
    <3>1. h = [d \in Rest(e + 1) |-> h[d]]
      OBVIOUS
    <3> HIDE DEF h
    <3> QED BY <2>2, <3>1
  <2> HIDE DEF h
  <2> QED BY <2>3
<1>5. Levels \in S
  <2> HIDE DEF S
  <2> QED BY <1>1, <1>3, <1>4, Induction, Zenon
<1>6. PICK g : G(g, Levels)
  BY <1>1, <1>5
<1>7. Rest(Levels) = Depths
  BY <1>1 DEF Depths
<1>8. F(g)
  BY <1>6, <1>7
<1> HIDE DEF F
<1>9. F(Gets(k))
  BY <1>2, <1>8
<1> QED BY <1>9 DEF F, At

LEMMA SetsUnfolds ==
  ASSUME NEW k, NEW v
  PROVE  Sets(k, v) = [d \in Depths |-> [n \in Tries[d] |-> SetIn(n, k, v, d, Sets(k, v)[d + 1])]]
<1> DEFINE At(d, below) == [n \in Tries[d] |-> SetIn(n, k, v, d, below)]
           F(f)         == f = [d \in Depths |-> At(d, f[d + 1])]
           Rest(e)      == Levels - e .. Levels
           G(g, e)      == g = [d \in Rest(e) |-> At(d, g[d + 1])]
           S            == {e \in Nat : e <= Levels => \E g : G(g, e)}
<1>1. Levels \in Nat /\ \A b1, b2 : At(Levels, b1) = At(Levels, b2)
  BY HashAssumption, TriesFacts
<1>2. Sets(k, v) = CHOOSE f : F(f)
  BY DEF Sets
<1> HIDE DEF At
<1>3. 0 \in S
  <2> DEFINE g == [d \in Rest(0) |-> At(Levels, 0)]
  <2>1. \A d \in Rest(0) : d = Levels
    BY <1>1
  <2>2. g = [d \in Rest(0) |-> At(d, g[d + 1])]
    BY <1>1, <2>1
  <2> HIDE DEF g
  <2> QED BY <2>2
<1>4. ASSUME NEW e \in Nat, e \in S PROVE e + 1 \in S
  <2> SUFFICES ASSUME e + 1 <= Levels PROVE \E g : G(g, e + 1)
    OBVIOUS
  <2>1. PICK g : G(g, e)
    BY <1>1, <1>4
  <2> DEFINE h == [d \in Rest(e + 1) |-> At(d, g[d + 1])]
  <2>2. ASSUME NEW d \in Rest(e + 1) PROVE h[d] = At(d, h[d + 1])
    <3>1. CASE d = Levels
      BY <1>1, <3>1
    <3>2. CASE d # Levels
      <4>1. d + 1 \in Rest(e) /\ d + 1 \in Rest(e + 1)
        BY <1>1, <3>2
      <4>2. g[d + 1] = At(d + 1, g[d + 2])
        <5>1. g[d + 1] = At(d + 1, g[d + 1 + 1])
          BY <2>1, <4>1
        <5> QED BY <1>1, <5>1
      <4>3. h[d + 1] = At(d + 1, g[d + 2])
        <5>1. h[d + 1] = At(d + 1, g[d + 1 + 1])
          BY <4>1
        <5> QED BY <1>1, <5>1
      <4>4. h[d] = At(d, g[d + 1])
        OBVIOUS
      <4> QED BY <4>2, <4>3, <4>4
    <3> QED BY <3>1, <3>2
  <2>3. h = [d \in Rest(e + 1) |-> At(d, h[d + 1])]
    <3>1. h = [d \in Rest(e + 1) |-> h[d]]
      OBVIOUS
    <3> HIDE DEF h
    <3> QED BY <2>2, <3>1
  <2> HIDE DEF h
  <2> QED BY <2>3
<1>5. Levels \in S
  <2> HIDE DEF S
  <2> QED BY <1>1, <1>3, <1>4, Induction, Zenon
<1>6. PICK g : G(g, Levels)
  BY <1>1, <1>5
<1>7. Rest(Levels) = Depths
  BY <1>1 DEF Depths
<1>8. F(g)
  BY <1>6, <1>7
<1> HIDE DEF F
<1>9. F(Sets(k, v))
  BY <1>2, <1>8
<1> QED BY <1>9 DEF F, At

LEMMA DeletesUnfolds ==
  ASSUME NEW k
  PROVE  Deletes(k) = [d \in Depths |-> [n \in Tries[d] |-> DeleteIn(n, k, d, Deletes(k)[d + 1])]]
<1> DEFINE At(d, below) == [n \in Tries[d] |-> DeleteIn(n, k, d, below)]
           F(f)         == f = [d \in Depths |-> At(d, f[d + 1])]
           Rest(e)      == Levels - e .. Levels
           G(g, e)      == g = [d \in Rest(e) |-> At(d, g[d + 1])]
           S            == {e \in Nat : e <= Levels => \E g : G(g, e)}
<1>1. Levels \in Nat /\ \A b1, b2 : At(Levels, b1) = At(Levels, b2)
  BY HashAssumption, TriesFacts
<1>2. Deletes(k) = CHOOSE f : F(f)
  BY DEF Deletes
<1> HIDE DEF At
<1>3. 0 \in S
  <2> DEFINE g == [d \in Rest(0) |-> At(Levels, 0)]
  <2>1. \A d \in Rest(0) : d = Levels
    BY <1>1
  <2>2. g = [d \in Rest(0) |-> At(d, g[d + 1])]
    BY <1>1, <2>1
  <2> HIDE DEF g
  <2> QED BY <2>2
<1>4. ASSUME NEW e \in Nat, e \in S PROVE e + 1 \in S
  <2> SUFFICES ASSUME e + 1 <= Levels PROVE \E g : G(g, e + 1)
    OBVIOUS
  <2>1. PICK g : G(g, e)
    BY <1>1, <1>4
  <2> DEFINE h == [d \in Rest(e + 1) |-> At(d, g[d + 1])]
  <2>2. ASSUME NEW d \in Rest(e + 1) PROVE h[d] = At(d, h[d + 1])
    <3>1. CASE d = Levels
      BY <1>1, <3>1
    <3>2. CASE d # Levels
      <4>1. d + 1 \in Rest(e) /\ d + 1 \in Rest(e + 1)
        BY <1>1, <3>2
      <4>2. g[d + 1] = At(d + 1, g[d + 2])
        <5>1. g[d + 1] = At(d + 1, g[d + 1 + 1])
          BY <2>1, <4>1
        <5> QED BY <1>1, <5>1
      <4>3. h[d + 1] = At(d + 1, g[d + 2])
        <5>1. h[d + 1] = At(d + 1, g[d + 1 + 1])
          BY <4>1
        <5> QED BY <1>1, <5>1
      <4>4. h[d] = At(d, g[d + 1])
        OBVIOUS
      <4> QED BY <4>2, <4>3, <4>4
    <3> QED BY <3>1, <3>2
  <2>3. h = [d \in Rest(e + 1) |-> At(d, h[d + 1])]
    <3>1. h = [d \in Rest(e + 1) |-> h[d]]
      OBVIOUS
    <3> HIDE DEF h
    <3> QED BY <2>2, <3>1
  <2> HIDE DEF h
  <2> QED BY <2>3
<1>5. Levels \in S
  <2> HIDE DEF S
  <2> QED BY <1>1, <1>3, <1>4, Induction, Zenon
<1>6. PICK g : G(g, Levels)
  BY <1>1, <1>5
<1>7. Rest(Levels) = Depths
  BY <1>1 DEF Depths
<1>8. F(g)
  BY <1>6, <1>7
<1> HIDE DEF F
<1>9. F(Deletes(k))
  BY <1>2, <1>8
<1> QED BY <1>9 DEF F, At

LEMMA PopsUnfolds ==
  ASSUME NEW k
  PROVE  Pops(k) = [d \in Depths |-> [n \in Tries[d] |-> PopIn(n, k, d, Pops(k)[d + 1])]]
<1> DEFINE At(d, below) == [n \in Tries[d] |-> PopIn(n, k, d, below)]
           F(f)         == f = [d \in Depths |-> At(d, f[d + 1])]
           Rest(e)      == Levels - e .. Levels
           G(g, e)      == g = [d \in Rest(e) |-> At(d, g[d + 1])]
           S            == {e \in Nat : e <= Levels => \E g : G(g, e)}
<1>1. Levels \in Nat /\ \A b1, b2 : At(Levels, b1) = At(Levels, b2)
  BY HashAssumption, TriesFacts
<1>2. Pops(k) = CHOOSE f : F(f)
  BY DEF Pops
<1> HIDE DEF At
<1>3. 0 \in S
  <2> DEFINE g == [d \in Rest(0) |-> At(Levels, 0)]
  <2>1. \A d \in Rest(0) : d = Levels
    BY <1>1
  <2>2. g = [d \in Rest(0) |-> At(d, g[d + 1])]
    BY <1>1, <2>1
  <2> HIDE DEF g
  <2> QED BY <2>2
<1>4. ASSUME NEW e \in Nat, e \in S PROVE e + 1 \in S
  <2> SUFFICES ASSUME e + 1 <= Levels PROVE \E g : G(g, e + 1)
    OBVIOUS
  <2>1. PICK g : G(g, e)
    BY <1>1, <1>4
  <2> DEFINE h == [d \in Rest(e + 1) |-> At(d, g[d + 1])]
  <2>2. ASSUME NEW d \in Rest(e + 1) PROVE h[d] = At(d, h[d + 1])
    <3>1. CASE d = Levels
      BY <1>1, <3>1
    <3>2. CASE d # Levels
      <4>1. d + 1 \in Rest(e) /\ d + 1 \in Rest(e + 1)
        BY <1>1, <3>2
      <4>2. g[d + 1] = At(d + 1, g[d + 2])
        <5>1. g[d + 1] = At(d + 1, g[d + 1 + 1])
          BY <2>1, <4>1
        <5> QED BY <1>1, <5>1
      <4>3. h[d + 1] = At(d + 1, g[d + 2])
        <5>1. h[d + 1] = At(d + 1, g[d + 1 + 1])
          BY <4>1
        <5> QED BY <1>1, <5>1
      <4>4. h[d] = At(d, g[d + 1])
        OBVIOUS
      <4> QED BY <4>2, <4>3, <4>4
    <3> QED BY <3>1, <3>2
  <2>3. h = [d \in Rest(e + 1) |-> At(d, h[d + 1])]
    <3>1. h = [d \in Rest(e + 1) |-> h[d]]
      OBVIOUS
    <3> HIDE DEF h
    <3> QED BY <2>2, <3>1
  <2> HIDE DEF h
  <2> QED BY <2>3
<1>5. Levels \in S
  <2> HIDE DEF S
  <2> QED BY <1>1, <1>3, <1>4, Induction, Zenon
<1>6. PICK g : G(g, Levels)
  BY <1>1, <1>5
<1>7. Rest(Levels) = Depths
  BY <1>1 DEF Depths
<1>8. F(g)
  BY <1>6, <1>7
<1> HIDE DEF F
<1>9. F(Pops(k))
  BY <1>2, <1>8
<1> QED BY <1>9 DEF F, At

LEMMA MergeUnfolds ==
  ASSUME NEW dest, NEW src, Len(Leaves(src)) \in Nat
  PROVE  \E f : /\ HamtMerge(dest, src) = f[Len(Leaves(src))]
                /\ \A i \in 0 .. Len(Leaves(src)) : f[i] = IF i = 0 THEN dest ELSE HamtSet(f[i - 1], Leaves(src)[i].key, Leaves(src)[i].val)
<1> DEFINE At(i, x) == IF i = 0 THEN dest ELSE HamtSet(x, Leaves(src)[i].key, Leaves(src)[i].val)
           F(f)     == f = [i \in 0 .. Len(Leaves(src)) |-> At(i, f[i - 1])]
           G(g, e)  == g = [i \in 0 .. 0 + e |-> At(i, g[i - 1])]
           S        == {e \in Nat : \E g : G(g, e)}
<1>1. Len(Leaves(src)) \in Nat /\ 0 + (Len(Leaves(src))) = Len(Leaves(src)) /\ \A x, y : At(0, x) = At(0, y)
  OBVIOUS
<1>2. HamtMerge(dest, src) = (CHOOSE f : F(f))[Len(Leaves(src))]
  BY DEF HamtMerge
<1>3. \A i, x : At(i, x) = IF i = 0 THEN dest ELSE HamtSet(x, Leaves(src)[i].key, Leaves(src)[i].val)
  OBVIOUS
<1> HIDE DEF At
<1>4. 0 \in S
  <2> DEFINE g == [i \in 0 .. 0 + 0 |-> At(0, 0)]
  <2>1. \A i \in 0 .. 0 + 0 : i = 0
    OBVIOUS
  <2>2. g = [i \in 0 .. 0 + 0 |-> At(i, g[i - 1])]
    BY <1>1, <2>1
  <2> HIDE DEF g
  <2> QED BY <2>2
<1>5. ASSUME NEW e \in Nat, e \in S PROVE e + 1 \in S
  <2>1. PICK g : G(g, e)
    BY <1>5
  <2> DEFINE h == [i \in 0 .. 0 + (e + 1) |-> At(i, g[i - 1])]
  <2>2. ASSUME NEW i \in 0 .. 0 + (e + 1) PROVE h[i] = At(i, h[i - 1])
    <3>1. CASE i = 0
      BY <1>1, <3>1
    <3>2. CASE i # 0
      <4>1. i - 1 \in 0 .. 0 + e /\ i - 1 \in 0 .. 0 + (e + 1)
        BY <3>2
      <4>2. g[i - 1] = At(i - 1, g[i - 1 - 1])
        BY <2>1, <4>1
      <4>3. h[i - 1] = At(i - 1, g[i - 1 - 1])
        BY <4>1
      <4>4. h[i] = At(i, g[i - 1])
        OBVIOUS
      <4> QED BY <4>2, <4>3, <4>4
    <3> QED BY <3>1, <3>2
  <2>3. h = [i \in 0 .. 0 + (e + 1) |-> At(i, h[i - 1])]
    <3>1. h = [i \in 0 .. 0 + (e + 1) |-> h[i]]
      OBVIOUS
    <3> HIDE DEF h
    <3> QED BY <2>2, <3>1
  <2> HIDE DEF h
  <2> QED BY <2>3
<1>6. Len(Leaves(src)) \in S
  <2> HIDE DEF S
  <2> QED BY <1>1, <1>4, <1>5, Induction, Zenon
<1>7. PICK g : F(g)
  BY <1>1, <1>6
<1> HIDE DEF F
<1>8. F(CHOOSE f : F(f))
  BY <1>7
<1>9. PICK f : F(f) /\ HamtMerge(dest, src) = f[Len(Leaves(src))]
  BY <1>2, <1>8
<1>10. \A i \in 0 .. Len(Leaves(src)) : f[i] = At(i, f[i - 1])
  BY <1>9 DEF F
<1> QED BY <1>3, <1>9, <1>10

LEMMA CopyUnfolds ==
  ASSUME NEW keys, NEW src, Len(Leaves(keys)) \in Nat
  PROVE  \E f : /\ CopyByKeys(keys, src) = f[Len(Leaves(keys))]
                /\ \A i \in 0 .. Len(Leaves(keys)) : f[i] = IF i = 0 THEN Empty ELSE CopyOneKey(f[i - 1], Leaves(keys)[i].key, src)
<1> DEFINE At(i, x) == IF i = 0 THEN Empty ELSE CopyOneKey(x, Leaves(keys)[i].key, src)
           F(f)     == f = [i \in 0 .. Len(Leaves(keys)) |-> At(i, f[i - 1])]
           G(g, e)  == g = [i \in 0 .. 0 + e |-> At(i, g[i - 1])]
           S        == {e \in Nat : \E g : G(g, e)}
<1>1. Len(Leaves(keys)) \in Nat /\ 0 + (Len(Leaves(keys))) = Len(Leaves(keys)) /\ \A x, y : At(0, x) = At(0, y)
  OBVIOUS
<1>2. CopyByKeys(keys, src) = (CHOOSE f : F(f))[Len(Leaves(keys))]
  BY DEF CopyByKeys
<1>3. \A i, x : At(i, x) = IF i = 0 THEN Empty ELSE CopyOneKey(x, Leaves(keys)[i].key, src)
  OBVIOUS
<1> HIDE DEF At
<1>4. 0 \in S
  <2> DEFINE g == [i \in 0 .. 0 + 0 |-> At(0, 0)]
  <2>1. \A i \in 0 .. 0 + 0 : i = 0
    OBVIOUS
  <2>2. g = [i \in 0 .. 0 + 0 |-> At(i, g[i - 1])]
    BY <1>1, <2>1
  <2> HIDE DEF g
  <2> QED BY <2>2
<1>5. ASSUME NEW e \in Nat, e \in S PROVE e + 1 \in S
  <2>1. PICK g : G(g, e)
    BY <1>5
  <2> DEFINE h == [i \in 0 .. 0 + (e + 1) |-> At(i, g[i - 1])]
  <2>2. ASSUME NEW i \in 0 .. 0 + (e + 1) PROVE h[i] = At(i, h[i - 1])
    <3>1. CASE i = 0
      BY <1>1, <3>1
    <3>2. CASE i # 0
      <4>1. i - 1 \in 0 .. 0 + e /\ i - 1 \in 0 .. 0 + (e + 1)
        BY <3>2
      <4>2. g[i - 1] = At(i - 1, g[i - 1 - 1])
        BY <2>1, <4>1
      <4>3. h[i - 1] = At(i - 1, g[i - 1 - 1])
        BY <4>1
      <4>4. h[i] = At(i, g[i - 1])
        OBVIOUS
      <4> QED BY <4>2, <4>3, <4>4
    <3> QED BY <3>1, <3>2
  <2>3. h = [i \in 0 .. 0 + (e + 1) |-> At(i, h[i - 1])]
    <3>1. h = [i \in 0 .. 0 + (e + 1) |-> h[i]]
      OBVIOUS
    <3> HIDE DEF h
    <3> QED BY <2>2, <3>1
  <2> HIDE DEF h
  <2> QED BY <2>3
<1>6. Len(Leaves(keys)) \in S
  <2> HIDE DEF S
  <2> QED BY <1>1, <1>4, <1>5, Induction, Zenon
<1>7. PICK g : F(g)
  BY <1>1, <1>6
<1> HIDE DEF F
<1>8. F(CHOOSE f : F(f))
  BY <1>7
<1>9. PICK f : F(f) /\ CopyByKeys(keys, src) = f[Len(Leaves(keys))]
  BY <1>2, <1>8
<1>10. \A i \in 0 .. Len(Leaves(keys)) : f[i] = At(i, f[i - 1])
  BY <1>9 DEF F
<1> QED BY <1>3, <1>9, <1>10

-----------------------------------------------------------------------------
(* Leaves with values                                                      *)

AllVals == UNION {Vals[k] : k \in Keys}

LEMMA LeafFacts ==
  /\ \A k \in Keys, v \in AllVals : /\ Leaf(k, v) \in Leafs /\ Leaf(k, v).tag = "leaf"
                                    /\ Leaf(k, v).key = k /\ Leaf(k, v).val = v
  /\ \A l \in Leafs : l.key \in Keys /\ l.val \in AllVals /\ l.val # Missing
BY ValuesAssumption DEF Leaf, AllVals
\* The leaves whose keys differ from k.
Others(S, k) == {l \in S : ~DeepEq(l.key, k)}

-----------------------------------------------------------------------------
(* Looking a key up                                                        *)

\* What a lookup that gives v says of leaves S: it is the value of the one with the key.
Finds(v, k, S) ==
  /\ \A l \in S : DeepEq(l.key, k) => v = l.val
  /\ Others(S, k) = S => v = Missing

GetRight(d) ==
  \A n, hs : \A k \in Keys :
    Good(n, d, hs) /\ Path(hs, d) /\ Hash[k] \in hs => Finds(Gets(k)[d][n], k, Holds(n, d))

LEMMA CollisionFinds ==
  ASSUME NEW d \in Inner, NEW hs \in SUBSET Hashes, NEW c \in Collisions, Fits(c, d, hs), NEW k,
         NEW j, j = FindKey(c.leaves, k)
  PROVE  Finds(IF j = 0 THEN Missing ELSE c.leaves[j].val, k, KidHolds(c, d))
<1> DEFINE ls == c.leaves
           S  == KidHolds(c, d)
<1>1. ls \in Seq(Leafs) /\ S = Range(ls) /\ Once(ls)
  BY CollisionIs
<1>2. \A l : l \in S <=> \E i \in 1 .. Len(ls) : l = ls[i]
  BY <1>1, RangeFacts
<1>3. \A l : l \in Others(S, k) <=> l \in S /\ ~DeepEq(l.key, k)
  BY DEF Others
<1> HIDE DEF S
<1>4. CASE j = 0
  <2>1. \A i \in 1 .. Len(ls) : ~DeepEq(ls[i].key, k)
    BY <1>1, <1>4, FindKeyFacts
  <2> QED BY <1>2, <1>4, <2>1 DEF Finds, S
<1>5. CASE j # 0
  <2>1. j \in 1 .. Len(ls) /\ DeepEq(ls[j].key, k)
    BY <1>1, <1>5, FindKeyFacts
  <2>2. \A i \in 1 .. Len(ls) : DeepEq(ls[i].key, k) => i = j
    BY <1>1, FindKeyOnly
  <2>3. ls[j] \in S /\ ls[j] \notin Others(S, k)
    BY <1>2, <1>3, <2>1
  <2> QED BY <1>2, <1>5, <2>2, <2>3 DEF Finds, S
<1> QED BY <1>4, <1>5

LEMMA GetStep ==
  ASSUME NEW d \in Inner, d + 1 \in Inner => GetRight(d + 1),
         NEW n, NEW hs, NEW k \in Keys, Good(n, d, hs), Path(hs, d), Hash[k] \in hs
  PROVE  Finds(Gets(k)[d][n], k, Holds(n, d))
<1> DEFINE f  == Fragment(Hash[k], d)
           gs == Below(hs, d, f)
           c  == n.children[Index(n.bits, f)]
           v  == Gets(k)[d][n]
           S  == Holds(n, d)
<1>1. hs \in SUBSET Hashes /\ f \in Slots /\ gs \in SUBSET Hashes /\ Path(gs, d + 1) /\ Hash[k] \in gs
  BY SlotFacts
<1>2. v = GetIn(n, k, d, Gets(k)[d + 1])
  <2>1. d \in Depths /\ n \in Tries[d]
    BY InnerFacts DEF Good
  <2>2. Gets(k)[d] = [x \in Tries[d] |-> GetIn(x, k, d, Gets(k)[d + 1])]
    BY <2>1, GetsUnfolds
  <2> QED BY <2>1, <2>2
<1>3. \A l \in S : DeepEq(l.key, k) => f \in n.bits /\ l \in KidHolds(c, d)
  <2>1. \A l \in S : /\ Fragment(Hash[l.key], d) \in n.bits
                     /\ l \in KidHolds(Child(n, Fragment(Hash[l.key], d)), d)
    BY <1>1, HoldsFacts
  <2> QED BY <2>1 DEF DeepEq, Child
<1>4. \A l : l \in Others(S, k) <=> l \in S /\ ~DeepEq(l.key, k)
  BY DEF Others
<1> HIDE DEF v, S
<1>5. CASE f \notin n.bits
  <2>1. v = Missing
    BY <1>2, <1>5 DEF GetIn
  <2>2. Finds(v, k, S)
    BY <1>3, <1>5, <2>1 DEF Finds
  <2> QED BY <2>2 DEF v, S
<1>6. CASE f \in n.bits
  <2> DEFINE T == KidHolds(c, d)
  <2>1. c \in Kids(d) /\ Fits(c, d, gs)
    BY <1>1, <1>6, KidFacts DEF Child
  <2>2. \A l \in T : l \in S
    <3>1. \A l : l \in Holds(n, d) <=> \E g \in n.bits : l \in KidHolds(Child(n, g), d)
      BY <1>1, LeavesFacts, LeavesJoined
    <3> QED BY <1>6, <3>1 DEF Child, S
  <2>3. \A l : l \in Others(T, k) <=> l \in T /\ ~DeepEq(l.key, k)
    BY DEF Others
  <2>4. Finds(v, k, T)
    <3>1. CASE c.tag = "node" /\ c \in Tries[d + 1] /\ d + 1 \in Inner
      <4>1. v = Gets(k)[d + 1][c]
        BY <1>2, <1>6, <3>1 DEF GetIn
      <4>2. Good(c, d + 1, gs)
        BY <2>1, <3>1 DEF Fits, Good
      <4>3. T = Holds(c, d + 1)
        BY <1>1, <2>1, <3>1, KidHoldsFacts
      <4> HIDE DEF c, gs, T
      <4> QED BY <1>1, <3>1, <4>1, <4>2, <4>3 DEF GetRight
    <3>2. CASE c.tag = "collision" /\ c \in Collisions
      <4> DEFINE j == FindKey(c.leaves, k)
      <4>1. v = IF j = 0 THEN Missing ELSE c.leaves[j].val
        BY <1>2, <1>6, <3>2 DEF GetIn
      <4> HIDE DEF c, gs
      <4> QED BY <1>1, <2>1, <3>2, <4>1, CollisionFinds
    <3>3. CASE c.tag = "leaf" /\ c \in Leafs
      <4>1. v = IF DeepEq(c.key, k) THEN c.val ELSE Missing
        BY <1>2, <1>6, <3>3 DEF GetIn
      <4>2. T = {c}
        BY <1>1, <2>1, <3>3, KidHoldsFacts
      <4> HIDE DEF c, T
      <4> QED BY <2>3, <4>1, <4>2 DEF Finds
    <3> HIDE DEF c
    <3> QED BY <2>1, <3>1, <3>2, <3>3, KidKinds
  <2> HIDE DEF c, T
  <2>5. Finds(v, k, S)
    <3>1. ASSUME NEW l \in S, DeepEq(l.key, k) PROVE v = l.val
      BY <1>3, <2>4, <3>1 DEF Finds, T
    <3>2. ASSUME Others(S, k) = S PROVE v = Missing
      <4>1. Others(T, k) = T
        BY <1>4, <2>2, <2>3, <3>2
      <4> QED BY <2>4, <4>1 DEF Finds
    <3> QED BY <3>1, <3>2 DEF Finds
  <2> QED BY <2>5 DEF v, S
<1> QED BY <1>5, <1>6

LEMMA GetFacts ==
  \A d \in Inner : GetRight(d)
<1> DEFINE S == {d \in Inner : GetRight(d)}
<1>1. ASSUME NEW d \in Inner, d + 1 \in Inner => d + 1 \in S PROVE d \in S
  BY <1>1, GetStep DEF GetRight
<1>2. \A d \in Inner : d \in S
  <2> HIDE DEF S
  <2> QED BY <1>1, Upward, Zenon
<1> QED BY <1>2

-----------------------------------------------------------------------------
(* Setting a key                                                           *)

\* What setting a key makes of the child in its slot.
SetKid(c, k, v, d) ==
  CASE c.tag = "node" -> Sets(k, v)[d + 1][c]
    [] c.tag = "collision" ->
         LET j == FindKey(c.leaves, k)
         IN  Collision(c.hash, IF j = 0 THEN Append(c.leaves, Leaf(k, v))
                                        ELSE ReplaceAt(c.leaves, j, Leaf(k, v)))
    [] c.tag = "leaf" /\ DeepEq(c.key, k) -> Leaf(k, v)
    [] c.tag = "leaf" /\ ~DeepEq(c.key, k) /\ d + 1 >= Levels -> Collision(Hash[k], <<c, Leaf(k, v)>>)
    [] OTHER -> Sets(k, v)[d + 1][Alone(c, d + 1)]

\* Setting a key in a trie of depth d for hashes hs: the trie stays well formed, and the new
\* leaf takes the place of the key's.
SetsTrie(m, n, k, v, d, hs) ==
  Good(m, d, hs) /\ Holds(m, d) = Others(Holds(n, d), k) \cup {Leaf(k, v)}

SetRight(d) ==
  \A n, hs : \A k \in Keys : \A v \in AllVals :
    Good(n, d, hs) /\ Path(hs, d) /\ Hash[k] \in hs => SetsTrie(Sets(k, v)[d][n], n, k, v, d, hs)

\* The same of a child.
SetsKid(x, c, k, v, d, hs) ==
  /\ x \in Kids(d) /\ Fits(x, d, hs)
  /\ KidHolds(x, d) = Others(KidHolds(c, d), k) \cup {Leaf(k, v)}

\* A leaf of a collision replaced by one with the same key.
LEMMA CollisionReplaced ==
  ASSUME NEW d \in Inner, NEW hs \in SUBSET Hashes, NEW c \in Collisions, Fits(c, d, hs),
         NEW l \in Leafs, NEW j \in 1 .. Len(c.leaves), DeepEq(c.leaves[j].key, l.key),
         NEW x, x = Collision(c.hash, ReplaceAt(c.leaves, j, l))
  PROVE  /\ x \in Kids(d) /\ Fits(x, d, hs)
         /\ KidHolds(x, d) = Others(KidHolds(c, d), l.key) \cup {l}
<1> DEFINE ls == c.leaves
           ms == ReplaceAt(ls, j, l)
           S  == KidHolds(c, d)
<1>1. /\ d + 1 = Levels /\ Len(ls) > 1 /\ c.hash \in hs /\ ls \in Seq(Leafs) /\ Once(ls)
      /\ \A i \in 1 .. Len(ls) : Hash[ls[i].key] = c.hash
      /\ S = Range(ls)
  BY CollisionIs
<1>2. j \in 1 .. Len(ls) /\ DeepEq(ls[j].key, l.key) /\ x = Collision(c.hash, ms)
  OBVIOUS
<1>3. \A y : y \in S <=> \E i \in 1 .. Len(ls) : y = ls[i]
  BY <1>1, RangeFacts
<1> HIDE DEF ls
<1>4. ms \in Seq(Leafs) /\ Len(ms) = Len(ls) /\ \A i \in 1 .. Len(ls) : ms[i] = IF i = j THEN l ELSE ls[i]
  BY <1>1, <1>2, ReplaceFacts
<1> HIDE DEF ms, S
<1>5. \A i \in 1 .. Len(ms) : ms[i].key = ls[i].key
  BY <1>2, <1>4 DEF DeepEq
<1>6. Once(ms) /\ \A i \in 1 .. Len(ms) : Hash[ms[i].key] = c.hash
  BY <1>1, <1>4, <1>5 DEF Once
<1>7. Len(ms) > 1
  BY <1>1, <1>4
<1>8. Collides(x, d, hs, ms)
  BY <1>1, <1>2, <1>4, <1>6, <1>7, CollisionOf
<1>9. \A y : y \in Range(ms) <=> \E i \in 1 .. Len(ms) : y = ms[i]
  BY <1>4, RangeFacts
<1>10. \A i \in 1 .. Len(ls) : DeepEq(ls[i].key, l.key) <=> i = j
  BY <1>1, <1>2 DEF Once, DeepEq
<1>11. \A y : y \in Others(S, l.key) <=> \E i \in 1 .. Len(ls) : i # j /\ y = ls[i]
  BY <1>3, <1>10 DEF Others
<1>12. \A y : y \in Range(ms) <=> y \in Others(S, l.key) \/ y = l
  BY <1>2, <1>4, <1>9, <1>11
<1>13. Range(ms) = Others(S, l.key) \cup {l}
  BY <1>12
<1> QED BY <1>8, <1>13 DEF Collides, S

LEMMA SetKidFacts ==
  ASSUME NEW d \in Inner, d + 1 \in Inner => SetRight(d + 1),
         NEW hs, Path(hs, d + 1), NEW c \in Kids(d), Fits(c, d, hs),
         NEW k \in Keys, NEW v \in AllVals, Hash[k] \in hs
  PROVE  SetsKid(SetKid(c, k, v, d), c, k, v, d, hs)
<1> DEFINE T == KidHolds(c, d)
<1>1. hs \in SUBSET Hashes
  BY DEF Path
<1>2. Leaf(k, v) \in Leafs /\ Leaf(k, v).key = k
  BY LeafFacts
<1>3. CASE c.tag = "node" /\ c \in Tries[d + 1] /\ d + 1 \in Inner
  <2> DEFINE x == Sets(k, v)[d + 1][c]
  <2>1. SetKid(c, k, v, d) = x
    BY <1>3 DEF SetKid
  <2>2. Good(c, d + 1, hs)
    BY <1>3 DEF Fits, Good
  <2>3. Good(x, d + 1, hs) /\ Holds(x, d + 1) = Others(Holds(c, d + 1), k) \cup {Leaf(k, v)}
    <3>1. SetsTrie(x, c, k, v, d + 1, hs)
      BY <1>3, <2>2 DEF SetRight
    <3> QED BY <3>1 DEF SetsTrie
  <2> HIDE DEF x
  <2>4. x.tag = "node" /\ x \in Kids(d) /\ Fits(x, d, hs)
    BY <1>3, <2>3, SubNode DEF Good, Fits
  <2>5. KidHolds(x, d) = Holds(x, d + 1) /\ KidHolds(c, d) = Holds(c, d + 1)
    BY <1>1, <1>3, <2>4, KidHoldsFacts
  <2> QED BY <2>1, <2>3, <2>4, <2>5 DEF SetsKid
<1>4. CASE c.tag = "collision" /\ c \in Collisions
  <2> DEFINE ls == c.leaves
             j  == FindKey(ls, k)
             l  == Leaf(k, v)
             x  == SetKid(c, k, v, d)
  <2>1. ls \in Seq(Leafs) /\ KidHolds(c, d) = Range(ls)
    BY <1>1, <1>4, CollisionIs
  <2>2. x = Collision(c.hash, IF j = 0 THEN Append(ls, l) ELSE ReplaceAt(ls, j, l))
    BY <1>4 DEF SetKid
  <2> HIDE DEF x, l
  <2>3. l \in Leafs /\ l.key = k
    BY <1>2 DEF l
  <2>4. CASE j = 0
    <3>1. x \in Kids(d) /\ Fits(x, d, hs) /\ KidHolds(x, d) = T \cup {l}
      BY <1>4, <2>2, <2>3, <2>4, CollisionMore
    <3>2. \A i \in 1 .. Len(ls) : ~DeepEq(ls[i].key, k)
      BY <2>1, <2>4, FindKeyFacts
    <3>3. \A y : y \in T <=> \E i \in 1 .. Len(ls) : y = ls[i]
      BY <2>1, RangeFacts
    <3>4. Others(T, k) = T
      BY <3>2, <3>3 DEF Others
    <3> QED BY <3>1, <3>4 DEF SetsKid, x, l
  <2>5. CASE j # 0
    <3>1. j \in 1 .. Len(ls) /\ DeepEq(ls[j].key, l.key)
      BY <2>1, <2>3, <2>5, FindKeyFacts
    <3>2. x = Collision(c.hash, ReplaceAt(ls, j, l))
      BY <2>2, <2>5
    <3> HIDE DEF j
    <3>3. x \in Kids(d) /\ Fits(x, d, hs) /\ KidHolds(x, d) = Others(KidHolds(c, d), l.key) \cup {l}
      BY <1>1, <1>4, <2>3, <3>1, <3>2, CollisionReplaced
    <3> QED BY <2>3, <3>3 DEF SetsKid, x, l
  <2> QED BY <2>4, <2>5 DEF x
<1>5. CASE c.tag = "leaf" /\ c \in Leafs
  <2>1. Hash[c.key] \in hs /\ T = {c}
    BY <1>1, <1>5, KidHoldsFacts DEF Fits
  <2> HIDE DEF T
  <2>2. CASE DeepEq(c.key, k)
    <3> DEFINE l == Leaf(k, v)
    <3>1. SetKid(c, k, v, d) = l
      BY <1>5, <2>2 DEF SetKid
    <3>2. l \in Kids(d) /\ Fits(l, d, hs) /\ KidHolds(l, d) = {l}
      BY <1>1, <1>2, LeafHolds
    <3>3. Others(T, k) = {}
      BY <2>1, <2>2 DEF Others
    <3> HIDE DEF l
    <3>4. KidHolds(l, d) = Others(T, k) \cup {l}
      BY <3>2, <3>3
    <3> QED BY <3>1, <3>2, <3>4 DEF SetsKid, T, l
  <2>3. ~DeepEq(c.key, k) => Others(T, k) = {c}
    BY <2>1 DEF Others
  <2>4. CASE ~DeepEq(c.key, k) /\ d + 1 = Levels
    <3> DEFINE x == Collision(Hash[k], <<c, Leaf(k, v)>>)
    <3>1. SetKid(c, k, v, d) = x
      <4>1. d + 1 >= Levels
        BY <2>4, InnerFacts
      <4> QED BY <1>5, <2>4, <4>1 DEF SetKid
    <3>2. x \in Kids(d) /\ Fits(x, d, hs) /\ KidHolds(x, d) = {c, Leaf(k, v)}
      BY <1>2, <1>5, <2>1, <2>4, CollisionMade
    <3> HIDE DEF x
    <3> QED BY <2>3, <2>4, <3>1, <3>2 DEF SetsKid, T
  <2>5. CASE ~DeepEq(c.key, k) /\ d + 1 # Levels
    <3> DEFINE a == Alone(c, d + 1)
               x == Sets(k, v)[d + 1][a]
    <3>1. d + 1 \in Inner /\ ~(d + 1 >= Levels)
      <4>1. d \in Nat /\ d + 1 \in Inner /\ Levels \in Nat
        BY <2>5, InnerFacts
      <4> QED BY <4>1 DEF Inner
    <3>2. SetKid(c, k, v, d) = x
      BY <1>5, <2>5, <3>1 DEF SetKid
    <3>3. Good(a, d + 1, hs) /\ Holds(a, d + 1) = {c}
      BY <1>1, <1>5, <2>1, <3>1, AloneGood, AloneHolds
    <3> HIDE DEF a
    <3>4. Good(x, d + 1, hs) /\ Holds(x, d + 1) = Others(T, k) \cup {Leaf(k, v)}
      <4>1. SetsTrie(x, a, k, v, d + 1, hs)
        BY <3>1, <3>3 DEF SetRight
      <4>2. T = {c}
        BY <2>1
      <4> QED BY <3>3, <4>1, <4>2 DEF SetsTrie
    <3> HIDE DEF x
    <3>5. x.tag = "node" /\ x \in Kids(d) /\ Fits(x, d, hs)
      BY <3>1, <3>4, SubNode DEF Good, Fits
    <3>6. KidHolds(x, d) = Holds(x, d + 1)
      BY <1>1, <3>5, KidHoldsFacts
    <3> QED BY <3>2, <3>4, <3>5, <3>6 DEF SetsKid, T
  <2> QED BY <2>2, <2>4, <2>5
<1> QED BY <1>3, <1>4, <1>5, KidKinds

LEMMA SetStep ==
  ASSUME NEW d \in Inner, d + 1 \in Inner => SetRight(d + 1),
         NEW n, NEW hs, NEW k \in Keys, NEW v \in AllVals,
         Good(n, d, hs), Path(hs, d), Hash[k] \in hs
  PROVE  SetsTrie(Sets(k, v)[d][n], n, k, v, d, hs)
<1> DEFINE m  == Sets(k, v)[d][n]
           f  == Fragment(Hash[k], d)
           gs == Below(hs, d, f)
           i  == Index(n.bits, f)
           c  == n.children[i]
           x  == IF f \in n.bits THEN SetKid(c, k, v, d) ELSE Leaf(k, v)
           l  == Leaf(k, v)
<1>1. hs \in SUBSET Hashes /\ f \in Slots /\ gs \in SUBSET Hashes /\ Path(gs, d + 1) /\ Hash[k] \in gs
  BY SlotFacts
<1>2. m = SetIn(n, k, v, d, Sets(k, v)[d + 1])
  <2>1. d \in Depths /\ n \in Tries[d]
    BY InnerFacts DEF Good
  <2>2. Sets(k, v)[d] = [y \in Tries[d] |-> SetIn(y, k, v, d, Sets(k, v)[d + 1])]
    BY <2>1, SetsUnfolds
  <2> QED BY <2>1, <2>2
<1>3. \/ f \notin n.bits /\ m = Node(n.bits \cup {f}, InsertAt(n.children, Index(n.bits, f), x))
      \/ f \in n.bits /\ m = SetChild(n, Index(n.bits, f), x)
  BY <1>2 DEF SetIn, SetKid
<1>4. l \in Leafs /\ l.key = k
  BY LeafFacts
<1>5. \A y : y \in Holds(n, d) <=> /\ Fragment(Hash[y.key], d) \in n.bits
                                   /\ y \in KidHolds(Child(n, Fragment(Hash[y.key], d)), d)
  BY <1>1, HoldsFacts
<1> HIDE DEF m, l
\* Below the slot, the new leaf and what was there under other keys.
<1>6. /\ x \in Kids(d) /\ Fits(x, d, gs)
      /\ f \notin n.bits => KidHolds(x, d) = {l}
      /\ f \in n.bits => KidHolds(x, d) = Others(KidHolds(Child(n, f), d), k) \cup {l}
  <2>1. CASE f \notin n.bits
    <3>1. x = l
      BY <2>1 DEF l
    <3> QED BY <1>1, <1>4, <2>1, <3>1, LeafHolds
  <2>2. CASE f \in n.bits
    <3>1. c = Child(n, f) /\ c \in Kids(d) /\ Fits(c, d, gs) /\ x = SetKid(c, k, v, d)
      BY <1>1, <2>2, KidFacts DEF Child
    <3> HIDE DEF c, x, gs
    <3>2. SetsKid(x, c, k, v, d, gs)
      BY <1>1, <3>1, SetKidFacts
    <3> QED BY <2>2, <3>1, <3>2 DEF SetsKid, l
  <2> QED BY <2>1, <2>2
<1>7. f = Fragment(Hash[l.key], d) /\ \A y : DeepEq(y.key, k) => Fragment(Hash[y.key], d) = f
  BY <1>4 DEF DeepEq
<1> HIDE DEF x, f, gs
<1>8. Good(m, d, hs) /\ Swapped(m, n, f, d, KidHolds(x, d))
  BY <1>1, <1>3, <1>6, SlotPut DEF gs
<1>9. \A y : y \in Holds(m, d) <=> y \in Others(Holds(n, d), k) \/ y = l
  BY <1>5, <1>6, <1>7, <1>8 DEF Swapped, Others
<1>10. Holds(m, d) = Others(Holds(n, d), k) \cup {l}
  BY <1>9
<1> QED BY <1>8, <1>10 DEF m, l, SetsTrie

LEMMA SetFacts ==
  \A d \in Inner : SetRight(d)
<1> DEFINE S == {d \in Inner : SetRight(d)}
<1>1. ASSUME NEW d \in Inner, d + 1 \in Inner => d + 1 \in S PROVE d \in S
  BY <1>1, SetStep DEF SetRight
<1>2. \A d \in Inner : d \in S
  <2> HIDE DEF S
  <2> QED BY <1>1, Upward, Zenon
<1> QED BY <1>2

-----------------------------------------------------------------------------
(* Removing a key                                                          *)

\* Removing a key from a trie of depth d for hashes hs: the trie stays well formed, and the
\* leaves under other keys are left.
Removed(m, n, k, d, hs) ==
  Good(m, d, hs) /\ Holds(m, d) = Others(Holds(n, d), k)

DeleteRight(d) ==
  \A n, hs : \A k \in Keys :
    Good(n, d, hs) /\ Path(hs, d) /\ Hash[k] \in hs => Removed(Deletes(k)[d][n], n, k, d, hs)

\* The ways a key is not below a child.
Lacks(c, k) ==
  \/ c.tag = "leaf" /\ ~DeepEq(c.key, k)
  \/ c.tag = "collision" /\ FindKey(c.leaves, k) = 0

\* What deleting a key makes of a child that does not go.
DeleteKid(c, k, d) ==
  CASE c.tag = "node" -> Deletes(k)[d + 1][c]
    [] c.tag = "collision" -> DropLeaf(c, FindKey(c.leaves, k))

\* The cases of a deletion, and of a pop.
LEMMA DeleteCases ==
  ASSUME NEW d \in Inner, NEW n \in Tries[d], NEW k, NEW f, f = Fragment(Hash[k], d)
  PROVE  /\ f \notin n.bits => Deletes(k)[d][n] = n
         /\ f \in n.bits /\ Lacks(Child(n, f), k) => Deletes(k)[d][n] = n
         /\ f \in n.bits /\ Child(n, f).tag = "leaf" /\ DeepEq(Child(n, f).key, k) =>
              Deletes(k)[d][n] = DropSlot(n, f, Index(n.bits, f))
         /\ f \in n.bits /\ (\/ Child(n, f).tag = "node"
                             \/ Child(n, f).tag = "collision" /\ ~Lacks(Child(n, f), k)) =>
              Deletes(k)[d][n] = SetChild(n, Index(n.bits, f), DeleteKid(Child(n, f), k, d))
<1>1. Deletes(k)[d] = [x \in Tries[d] |-> DeleteIn(x, k, d, Deletes(k)[d + 1])]
  BY InnerFacts, DeletesUnfolds
<1>2. Deletes(k)[d][n] = DeleteIn(n, k, d, Deletes(k)[d + 1])
  BY <1>1
<1> QED BY <1>2 DEF DeleteIn, DeleteKid, Lacks, Child

LEMMA PopCases ==
  ASSUME NEW d \in Inner, NEW n \in Tries[d], NEW k, NEW f, f = Fragment(Hash[k], d)
  PROVE  /\ f \notin n.bits => Pops(k)[d][n] = [val |-> Missing, rest |-> n]
         /\ f \in n.bits /\ Lacks(Child(n, f), k) => Pops(k)[d][n] = [val |-> Missing, rest |-> n]
         /\ f \in n.bits /\ Child(n, f).tag = "leaf" /\ DeepEq(Child(n, f).key, k) =>
              Pops(k)[d][n] = [val  |-> Child(n, f).val,
                               rest |-> DropSlot(n, f, Index(n.bits, f))]
         /\ f \in n.bits /\ Child(n, f).tag = "node" =>
              Pops(k)[d][n] = [Pops(k)[d + 1][Child(n, f)] EXCEPT
                                 !.rest = SetChild(n, Index(n.bits, f), @)]
         /\ f \in n.bits /\ Child(n, f).tag = "collision" /\ ~Lacks(Child(n, f), k) =>
              Pops(k)[d][n] =
                [val  |-> Child(n, f).leaves[FindKey(Child(n, f).leaves, k)].val,
                 rest |-> SetChild(n, Index(n.bits, f),
                            DropLeaf(Child(n, f), FindKey(Child(n, f).leaves, k)))]
<1>1. Pops(k)[d] = [x \in Tries[d] |-> PopIn(x, k, d, Pops(k)[d + 1])]
  BY InnerFacts, PopsUnfolds
<1>2. Pops(k)[d][n] = PopIn(n, k, d, Pops(k)[d + 1])
  BY <1>1
<1> QED BY <1>2 DEF PopIn, Lacks, Child

\* A collision without the leaf of a key.
LEMMA CollisionWithout ==
  ASSUME NEW d \in Inner, NEW hs \in SUBSET Hashes, NEW c \in Collisions, Fits(c, d, hs), NEW k,
         NEW j, j = FindKey(c.leaves, k)
  PROVE  /\ j = 0 => Others(KidHolds(c, d), k) = KidHolds(c, d)
         /\ j # 0 => /\ DropLeaf(c, j) \in Kids(d) /\ Fits(DropLeaf(c, j), d, hs)
                     /\ KidHolds(DropLeaf(c, j), d) = Others(KidHolds(c, d), k)
<1> DEFINE ls == c.leaves
           x  == DropLeaf(c, j)
           S  == KidHolds(c, d)
<1>1. ls \in Seq(Leafs) /\ S = Range(ls) /\ Once(ls)
  BY CollisionIs
<1>2. \A y : y \in S <=> \E i \in 1 .. Len(ls) : y = ls[i]
  BY <1>1, RangeFacts
<1> HIDE DEF S
<1>3. \A y : y \in Others(S, k) <=> y \in S /\ ~DeepEq(y.key, k)
  BY DEF Others
<1>4. CASE j = 0
  <2>1. \A i \in 1 .. Len(ls) : ~DeepEq(ls[i].key, k)
    BY <1>1, <1>4, FindKeyFacts
  <2> QED BY <1>2, <1>3, <1>4, <2>1 DEF S
<1>5. CASE j # 0
  <2>1. j \in 1 .. Len(ls) /\ DeepEq(ls[j].key, k)
    BY <1>1, <1>5, FindKeyFacts
  <2>2. \A i \in 1 .. Len(ls) : DeepEq(ls[i].key, k) => i = j
    BY <1>1, FindKeyOnly
  <2>3. x \in Kids(d) /\ Fits(x, d, hs) /\ KidHolds(x, d) = AllBut(ls, j)
    <3>1. j \in 1 .. Len(c.leaves) /\ x = DropLeaf(c, j)
      BY <2>1
    <3> HIDE DEF x
    <3> QED BY <3>1, CollisionLess
  <2> HIDE DEF x, ls
  <2>4. \A y : y \in AllBut(ls, j) <=> y \in Others(S, k)
    BY <1>2, <1>3, <2>1, <2>2 DEF AllBut
  <2>5. KidHolds(x, d) = Others(S, k)
    BY <2>3, <2>4
  <2> QED BY <1>5, <2>3, <2>5 DEF x, S
<1> QED BY <1>4, <1>5

LEMMA DeleteStep ==
  ASSUME NEW d \in Inner, d + 1 \in Inner => DeleteRight(d + 1),
         NEW n, NEW hs, NEW k \in Keys, Good(n, d, hs), Path(hs, d), Hash[k] \in hs
  PROVE  Removed(Deletes(k)[d][n], n, k, d, hs)
<1> DEFINE m  == Deletes(k)[d][n]
           f  == Fragment(Hash[k], d)
           gs == Below(hs, d, f)
           i  == Index(n.bits, f)
           c  == Child(n, f)
           S  == KidHolds(c, d)
<1>1. /\ hs \in SUBSET Hashes /\ f \in Slots /\ gs \in SUBSET Hashes /\ Path(gs, d + 1) /\ Hash[k] \in gs
      /\ n \in Tries[d]
  BY SlotFacts DEF Good
<1>2. /\ f \notin n.bits => m = n
      /\ f \in n.bits /\ Lacks(c, k) => m = n
      /\ f \in n.bits /\ c.tag = "leaf" /\ DeepEq(c.key, k) => m = DropSlot(n, f, i)
      /\ f \in n.bits /\ (c.tag = "node" \/ (c.tag = "collision" /\ ~Lacks(c, k))) =>
           m = SetChild(n, i, DeleteKid(c, k, d))
  BY <1>1, DeleteCases
<1>3. \A l : l \in Holds(n, d) <=> /\ Fragment(Hash[l.key], d) \in n.bits
                                   /\ l \in KidHolds(Child(n, Fragment(Hash[l.key], d)), d)
  BY <1>1, HoldsFacts
<1>4. \A l : DeepEq(l.key, k) => Fragment(Hash[l.key], d) = f
  BY DEF DeepEq
<1>5. \A l : l \in Others(Holds(n, d), k) <=> l \in Holds(n, d) /\ ~DeepEq(l.key, k)
  BY DEF Others
<1>6. \A l : l \in Others(S, k) <=> l \in S /\ ~DeepEq(l.key, k)
  BY DEF Others
<1>7. f \in n.bits => c \in Kids(d) /\ Fits(c, d, gs)
  BY <1>1, KidFacts
<1>8. f \in n.bits => \A l : Fragment(Hash[l.key], d) = f => (l \in Holds(n, d) <=> l \in S)
  BY <1>3
\* Nothing changes where nothing is found, and a changed child takes its leaves along.
<1>9. ASSUME m = n, f \notin n.bits \/ (f \in n.bits /\ Others(S, k) = S)
      PROVE  Removed(m, n, k, d, hs)
  <2> HIDE DEF m, f, S
  <2>1. Others(Holds(n, d), k) = Holds(n, d)
    <3>1. CASE f \notin n.bits
      BY <1>3, <1>4, <1>5, <3>1
    <3>2. CASE f \in n.bits /\ Others(S, k) = S
      BY <1>4, <1>5, <1>6, <1>8, <3>2
    <3> QED BY <1>9, <3>1, <3>2
  <2> QED BY <1>9, <2>1 DEF Removed
<1>10. ASSUME f \in n.bits, NEW T, Good(m, d, hs), Swapped(m, n, f, d, T), T = Others(S, k)
       PROVE  Removed(m, n, k, d, hs)
  <2> HIDE DEF m, f, S
  <2>1. \A l : l \in Holds(m, d) <=> l \in Others(Holds(n, d), k)
    BY <1>4, <1>5, <1>6, <1>8, <1>10 DEF Swapped
  <2>2. Holds(m, d) = Others(Holds(n, d), k)
    BY <2>1
  <2> QED BY <1>10, <2>2 DEF Removed
<1> HIDE DEF m, S, c
<1>11. ASSUME f \in n.bits, NEW x \in Kids(d), Fits(x, d, gs), KidHolds(x, d) = Others(S, k),
              m = SetChild(n, i, x)
       PROVE  Removed(m, n, k, d, hs)
  <2>1. Good(m, d, hs) /\ Swapped(m, n, f, d, KidHolds(x, d))
    <3> HIDE DEF f
    <3> QED BY <1>1, <1>11, SlotPut DEF gs
  <2> QED BY <1>10, <1>11, <2>1
<1>12. CASE f \notin n.bits
  BY <1>2, <1>9, <1>12 DEF m
<1>13. CASE f \in n.bits
  <2>1. CASE c.tag = "node" /\ c \in Tries[d + 1] /\ d + 1 \in Inner
    <3> DEFINE x == Deletes(k)[d + 1][c]
    <3>1. m = SetChild(n, i, x)
      BY <1>2, <1>13, <2>1 DEF DeleteKid
    <3>2. Good(c, d + 1, gs)
      BY <1>7, <1>13, <2>1 DEF Fits, Good
    <3> HIDE DEF gs
    <3>3. Removed(x, c, k, d + 1, gs)
      BY <1>1, <2>1, <3>2 DEF DeleteRight
    <3> HIDE DEF x
    <3>4. Good(x, d + 1, gs) /\ Holds(x, d + 1) = Others(Holds(c, d + 1), k)
      BY <3>3 DEF Removed
    <3>5. x.tag = "node" /\ x \in Kids(d) /\ Fits(x, d, gs)
      BY <2>1, <3>4, SubNode DEF Good, Fits
    <3>6. KidHolds(x, d) = Holds(x, d + 1) /\ S = Holds(c, d + 1)
      BY <1>1, <1>7, <1>13, <2>1, <3>5, KidHoldsFacts DEF S
    <3>7. Removed(m, n, k, d, hs)
      BY <1>11, <1>13, <3>1, <3>4, <3>5, <3>6
    <3> QED BY <3>7 DEF m
  <2>2. CASE c.tag = "collision" /\ c \in Collisions
    <3> DEFINE j == FindKey(c.leaves, k)
               x == DropLeaf(c, j)
    <3>1. /\ j = 0 => Others(S, k) = S
          /\ j # 0 => x \in Kids(d) /\ Fits(x, d, gs) /\ KidHolds(x, d) = Others(S, k)
      <4> HIDE DEF gs
      <4> QED BY <1>1, <1>7, <1>13, <2>2, CollisionWithout DEF S
    <3>2. j = 0 => m = n
      BY <1>2, <1>13, <2>2 DEF Lacks
    <3>3. j # 0 => m = SetChild(n, i, x)
      BY <1>2, <1>13, <2>2 DEF Lacks, DeleteKid
    <3> HIDE DEF j, x, gs
    <3>4. CASE j = 0
      BY <1>9, <1>13, <3>1, <3>2, <3>4 DEF m
    <3>5. CASE j # 0
      <4>1. Removed(m, n, k, d, hs)
        BY <1>11, <1>13, <3>1, <3>3, <3>5
      <4> QED BY <4>1 DEF m
    <3> QED BY <3>4, <3>5
  <2>3. CASE c.tag = "leaf" /\ c \in Leafs
    <3>1. S = {c}
      <4> HIDE DEF gs
      <4> QED BY <1>1, <1>7, <1>13, <2>3, KidHoldsFacts DEF S
    <3>2. CASE DeepEq(c.key, k)
      <4>1. m = DropSlot(n, f, i)
        BY <1>2, <1>13, <2>3, <3>2
      <4>2. Good(m, d, hs) /\ Swapped(m, n, f, d, {})
        <5> HIDE DEF f
        <5> QED BY <1>1, <1>13, <4>1, SlotCleared
      <4>3. {} = Others(S, k)
        BY <1>6, <3>1, <3>2
      <4>4. Removed(m, n, k, d, hs)
        BY <1>10, <1>13, <4>2, <4>3
      <4> QED BY <4>4 DEF m
    <3>3. CASE ~DeepEq(c.key, k)
      <4>1. m = n
        BY <1>2, <1>13, <2>3, <3>3 DEF Lacks
      <4>2. Others(S, k) = S
        BY <1>6, <3>1, <3>3
      <4> QED BY <1>9, <1>13, <4>1, <4>2 DEF m
    <3> QED BY <3>2, <3>3
  <2> QED BY <1>7, <1>13, <2>1, <2>2, <2>3, KidKinds
<1> QED BY <1>12, <1>13

LEMMA DeleteFacts ==
  \A d \in Inner : DeleteRight(d)
<1> DEFINE S == {d \in Inner : DeleteRight(d)}
<1>1. ASSUME NEW d \in Inner, d + 1 \in Inner => d + 1 \in S PROVE d \in S
  BY <1>1, DeleteStep DEF DeleteRight
<1>2. \A d \in Inner : d \in S
  <2> HIDE DEF S
  <2> QED BY <1>1, Upward, Zenon
<1> QED BY <1>2

\* A pop gives what a lookup finds, and leaves what a deletion leaves.
PopRight(d) ==
  \A n, hs, k : Good(n, d, hs) /\ hs \in SUBSET Hashes =>
    Pops(k)[d][n] = [val |-> Gets(k)[d][n], rest |-> Deletes(k)[d][n]]

\* What a lookup finds below a child.
FoundIn(c, k, d) ==
  CASE c.tag = "leaf" -> IF DeepEq(c.key, k) THEN c.val ELSE Missing
    [] c.tag = "collision" ->
         LET j == FindKey(c.leaves, k) IN IF j = 0 THEN Missing ELSE c.leaves[j].val
    [] c.tag = "node" -> Gets(k)[d + 1][c]

LEMMA GetCases ==
  ASSUME NEW d \in Inner, NEW n \in Tries[d], NEW k, NEW f, f = Fragment(Hash[k], d)
  PROVE  Gets(k)[d][n] = IF f \in n.bits THEN FoundIn(Child(n, f), k, d) ELSE Missing
<1>1. Gets(k)[d] = [x \in Tries[d] |-> GetIn(x, k, d, Gets(k)[d + 1])]
  BY InnerFacts, GetsUnfolds
<1>2. Gets(k)[d][n] = GetIn(n, k, d, Gets(k)[d + 1])
  BY <1>1
<1> QED BY <1>2 DEF GetIn, FoundIn, Child

LEMMA PopStep ==
  ASSUME NEW d \in Inner, d + 1 \in Inner => PopRight(d + 1)
  PROVE  PopRight(d)
<1> SUFFICES ASSUME NEW n, NEW hs \in SUBSET Hashes, NEW k, Good(n, d, hs)
             PROVE  Pops(k)[d][n] = [val |-> Gets(k)[d][n], rest |-> Deletes(k)[d][n]]
  BY DEF PopRight
<1> DEFINE f == Fragment(Hash[k], d)
           c == Child(n, f)
           i == Index(n.bits, f)
           p == Pops(k)[d][n]
           m == Deletes(k)[d][n]
<1>1. n \in Tries[d]
  BY DEF Good
<1>2. Gets(k)[d][n] = IF f \in n.bits THEN FoundIn(c, k, d) ELSE Missing
  BY <1>1, GetCases
<1>3. /\ f \notin n.bits => m = n
      /\ f \in n.bits /\ Lacks(c, k) => m = n
      /\ f \in n.bits /\ c.tag = "leaf" /\ DeepEq(c.key, k) => m = DropSlot(n, f, i)
      /\ f \in n.bits /\ (c.tag = "node" \/ (c.tag = "collision" /\ ~Lacks(c, k))) =>
           m = SetChild(n, i, DeleteKid(c, k, d))
  BY <1>1, DeleteCases
<1>4. /\ f \notin n.bits => p = [val |-> Missing, rest |-> n]
      /\ f \in n.bits /\ Lacks(c, k) => p = [val |-> Missing, rest |-> n]
      /\ f \in n.bits /\ c.tag = "leaf" /\ DeepEq(c.key, k) =>
           p = [val |-> c.val, rest |-> DropSlot(n, f, i)]
      /\ f \in n.bits /\ c.tag = "node" =>
           p = [Pops(k)[d + 1][c] EXCEPT !.rest = SetChild(n, i, @)]
      /\ f \in n.bits /\ c.tag = "collision" /\ ~Lacks(c, k) =>
           p = [val  |-> c.leaves[FindKey(c.leaves, k)].val,
                rest |-> SetChild(n, i, DropLeaf(c, FindKey(c.leaves, k)))]
  BY <1>1, PopCases
<1>5. f \in n.bits => c \in Kids(d) /\ Fits(c, d, Below(hs, d, f)) /\ Below(hs, d, f) \in SUBSET Hashes
  BY KidFacts
<1>6. f \in n.bits => c.tag \in {"leaf", "collision", "node"}
  BY <1>5, KidKinds
<1> HIDE DEF f, c, i, p, m
<1>7. CASE f \notin n.bits
  BY <1>2, <1>3, <1>4, <1>7 DEF p, m
<1>8. CASE f \in n.bits /\ Lacks(c, k)
  <2>1. FoundIn(c, k, d) = Missing
    BY <1>8 DEF FoundIn, Lacks
  <2> QED BY <1>2, <1>3, <1>4, <1>8, <2>1 DEF p, m
<1>9. CASE f \in n.bits /\ c.tag = "leaf" /\ DeepEq(c.key, k)
  <2>1. FoundIn(c, k, d) = c.val
    BY <1>9 DEF FoundIn
  <2> QED BY <1>2, <1>3, <1>4, <1>9, <2>1 DEF p, m
<1>10. CASE f \in n.bits /\ c.tag = "collision" /\ ~Lacks(c, k)
  <2>1. FoundIn(c, k, d) = c.leaves[FindKey(c.leaves, k)].val
    BY <1>10 DEF FoundIn, Lacks
  <2>2. DeleteKid(c, k, d) = DropLeaf(c, FindKey(c.leaves, k))
    BY <1>10 DEF DeleteKid
  <2> QED BY <1>2, <1>3, <1>4, <1>10, <2>1, <2>2 DEF p, m
<1>11. CASE f \in n.bits /\ c.tag = "node"
  <2>1. FoundIn(c, k, d) = Gets(k)[d + 1][c] /\ DeleteKid(c, k, d) = Deletes(k)[d + 1][c]
    BY <1>11 DEF FoundIn, DeleteKid
  <2>2. d + 1 \in Inner /\ Good(c, d + 1, Below(hs, d, f))
    <3>1. c \in Tries[d + 1] /\ d + 1 \in Inner
      BY <1>5, <1>11, KidKinds
    <3> QED BY <1>5, <1>11, <3>1 DEF Fits, Good
  <2>3. Pops(k)[d + 1][c] = [val |-> Gets(k)[d + 1][c], rest |-> Deletes(k)[d + 1][c]]
    BY <1>5, <1>11, <2>2 DEF PopRight
  <2>4. p = [val |-> Gets(k)[d + 1][c], rest |-> SetChild(n, i, Deletes(k)[d + 1][c])]
    BY <1>4, <1>11, <2>3
  <2>5. Gets(k)[d][n] = Gets(k)[d + 1][c]
    BY <1>2, <1>11, <2>1
  <2>6. m = SetChild(n, i, Deletes(k)[d + 1][c])
    <3>1. m = SetChild(n, i, DeleteKid(c, k, d))
      BY <1>3, <1>11
    <3> QED BY <2>1, <3>1
  <2>7. p = [val |-> Gets(k)[d][n], rest |-> m]
    BY <2>4, <2>5, <2>6
  <2> QED BY <2>7 DEF p, m
<1> QED BY <1>6, <1>7, <1>8, <1>9, <1>10, <1>11 DEF Lacks

LEMMA PopFacts ==
  \A d \in Inner : PopRight(d)
<1> DEFINE S == {d \in Inner : PopRight(d)}
<1>1. ASSUME NEW d \in Inner, d + 1 \in Inner => d + 1 \in S PROVE d \in S
  BY <1>1, PopStep
<1>2. \A d \in Inner : d \in S
  <2> HIDE DEF S
  <2> QED BY <1>1, Upward, Zenon
<1> QED BY <1>2

-----------------------------------------------------------------------------
(* Whole dicts                                                             *)

IsTrie(n) == Good(n, 0, Hashes)

\* The map that lookups see.
MapOf(n) == [k \in {key \in Keys : Get(n, key) # Missing} |-> Get(n, k)]

LEMMA TrieFacts ==
  /\ 0 \in Inner /\ Path(Hashes, 0) /\ Hashes \in SUBSET Hashes /\ \A k \in Keys : Hash[k] \in Hashes
  /\ \A n : IsTrie(n) => n \in Tries[0] /\ n # Trap
  /\ \A n, k : Get(n, k) = Gets(k)[0][n]
BY InnerFacts, PathFacts, ValuesAssumption DEF IsTrie, Good, Hashes, Get

\* A lookup gives the value of the leaf with the key.
LEMMA LookupFacts ==
  ASSUME NEW n, IsTrie(n), NEW k \in Keys
  PROVE  /\ \A l \in Holds(n, 0) : DeepEq(l.key, k) => Get(n, k) = l.val
         /\ (\A l \in Holds(n, 0) : ~DeepEq(l.key, k)) => Get(n, k) = Missing
<1>1. Finds(Get(n, k), k, Holds(n, 0))
  BY TrieFacts, GetFacts DEF GetRight, IsTrie
<1>2. (\A l \in Holds(n, 0) : ~DeepEq(l.key, k)) => Others(Holds(n, 0), k) = Holds(n, 0)
  BY DEF Others
<1> QED BY <1>1, <1>2 DEF Finds

LEMMA EmptyFacts ==
  IsTrie(Empty) /\ \A k \in Keys : Get(Empty, k) = Missing
<1>1. IsTrie(Empty)
  BY EmptyGood DEF IsTrie
<1> QED BY <1>1, EmptyHolds, LookupFacts

LEMMA PutFacts ==
  ASSUME NEW n, IsTrie(n), NEW k \in Keys, NEW v \in AllVals, HamtSet(n, k, v) # Trap
  PROVE  /\ IsTrie(HamtSet(n, k, v))
         /\ \A key \in Keys : Get(HamtSet(n, k, v), key) = IF DeepEq(key, k) THEN v ELSE Get(n, key)
<1> DEFINE m == HamtSet(n, k, v)
           l == Leaf(k, v)
<1>1. m = Sets(k, v)[0][n]
  BY DEF HamtSet
<1>2. SetsTrie(Sets(k, v)[0][n], n, k, v, 0, Hashes)
  BY SetFacts, TrieFacts DEF SetRight, IsTrie
<1>3. l.key = k /\ l.val = v
  BY LeafFacts
<1> HIDE DEF m, l
<1>4. IsTrie(m)
  BY <1>1, <1>2 DEF SetsTrie, IsTrie
<1>5. \A y : y \in Holds(m, 0) <=> y = l \/ (y \in Holds(n, 0) /\ ~DeepEq(y.key, k))
  BY <1>1, <1>2 DEF SetsTrie, Others, l
<1>6. ASSUME NEW key \in Keys PROVE Get(m, key) = IF DeepEq(key, k) THEN v ELSE Get(n, key)
  <2>1. CASE DeepEq(key, k)
    <3>1. l \in Holds(m, 0) /\ DeepEq(l.key, key)
      BY <1>3, <1>5, <2>1 DEF DeepEq
    <3> QED BY <1>3, <1>4, <2>1, <3>1, LookupFacts
  <2>2. CASE ~DeepEq(key, k)
    <3>1. \A y : DeepEq(y.key, key) => y # l /\ ~DeepEq(y.key, k)
      BY <1>3, <2>2 DEF DeepEq
    <3>2. \A y : DeepEq(y.key, key) => (y \in Holds(m, 0) <=> y \in Holds(n, 0))
      BY <1>5, <3>1
    <3>3. CASE \E y \in Holds(n, 0) : DeepEq(y.key, key)
      <4>1. PICK y \in Holds(n, 0) : DeepEq(y.key, key)
        BY <3>3
      <4>2. y \in Holds(m, 0)
        BY <3>2, <4>1
      <4>3. Get(n, key) = y.val /\ Get(m, key) = y.val
        BY <1>4, <4>1, <4>2, LookupFacts
      <4> QED BY <2>2, <4>3
    <3>4. CASE \A y \in Holds(n, 0) : ~DeepEq(y.key, key)
      <4>1. \A y \in Holds(m, 0) : ~DeepEq(y.key, key)
        BY <3>2, <3>4
      <4>2. Get(n, key) = Missing /\ Get(m, key) = Missing
        BY <1>4, <3>4, <4>1, LookupFacts
      <4> QED BY <2>2, <4>2
    <3> QED BY <3>3, <3>4
  <2> QED BY <2>1, <2>2
<1> QED BY <1>4, <1>6 DEF m

LEMMA RestFacts ==
  ASSUME NEW n, IsTrie(n), NEW k \in Keys
  PROVE  /\ IsTrie(HamtDelete(n, k))
         /\ \A key \in Keys : Get(HamtDelete(n, k), key) = IF DeepEq(key, k) THEN Missing ELSE Get(n, key)
         /\ HamtPop(n, k) = [val |-> Get(n, k), rest |-> HamtDelete(n, k)]
<1> DEFINE m == HamtDelete(n, k)
<1>1. m = Deletes(k)[0][n]
  BY DEF HamtDelete
<1>2. Removed(Deletes(k)[0][n], n, k, 0, Hashes)
  BY DeleteFacts, TrieFacts DEF DeleteRight, IsTrie
<1>3. Pops(k)[0][n] = [val |-> Gets(k)[0][n], rest |-> Deletes(k)[0][n]]
  BY PopFacts, TrieFacts DEF PopRight, IsTrie
<1> HIDE DEF m
<1>4. HamtPop(n, k) = [val |-> Get(n, k), rest |-> m]
  BY <1>1, <1>3, TrieFacts DEF HamtPop
<1>5. IsTrie(m)
  BY <1>1, <1>2 DEF Removed, IsTrie
<1>6. \A y : y \in Holds(m, 0) <=> y \in Holds(n, 0) /\ ~DeepEq(y.key, k)
  BY <1>1, <1>2 DEF Removed, Others
<1>7. ASSUME NEW key \in Keys PROVE Get(m, key) = IF DeepEq(key, k) THEN Missing ELSE Get(n, key)
  <2>1. CASE DeepEq(key, k)
    <3>1. \A y \in Holds(m, 0) : ~DeepEq(y.key, key)
      BY <1>6, <2>1 DEF DeepEq
    <3> QED BY <1>5, <2>1, <3>1, LookupFacts
  <2>2. CASE ~DeepEq(key, k)
    <3>1. \A y : DeepEq(y.key, key) => ~DeepEq(y.key, k)
      BY <2>2 DEF DeepEq
    <3>2. \A y : DeepEq(y.key, key) => (y \in Holds(m, 0) <=> y \in Holds(n, 0))
      BY <1>6, <3>1
    <3>3. CASE \E y \in Holds(n, 0) : DeepEq(y.key, key)
      <4>1. PICK y \in Holds(n, 0) : DeepEq(y.key, key)
        BY <3>3
      <4>2. y \in Holds(m, 0)
        BY <3>2, <4>1
      <4>3. Get(n, key) = y.val /\ Get(m, key) = y.val
        BY <1>5, <4>1, <4>2, LookupFacts
      <4> QED BY <2>2, <4>3
    <3>4. CASE \A y \in Holds(n, 0) : ~DeepEq(y.key, key)
      <4>1. \A y \in Holds(m, 0) : ~DeepEq(y.key, key)
        BY <3>2, <3>4
      <4>2. Get(n, key) = Missing /\ Get(m, key) = Missing
        BY <1>5, <3>4, <4>1, LookupFacts
      <4> QED BY <2>2, <4>2
    <3> QED BY <3>3, <3>4
  <2> QED BY <2>1, <2>2
<1> QED BY <1>4, <1>5, <1>7 DEF m

LEMMA WalkFacts ==
  ASSUME NEW n, IsTrie(n)
  PROVE  /\ Leaves(n) \in Seq(Leafs) /\ Len(Leaves(n)) \in Nat /\ Once(Leaves(n))
         /\ \A i \in 1 .. Len(Leaves(n)) :
              /\ Leaves(n)[i] \in Leafs /\ Leaves(n)[i].key \in Keys
              /\ Leaves(n)[i].val \in AllVals /\ Leaves(n)[i].val # Missing
              /\ \A k \in Keys : DeepEq(Leaves(n)[i].key, k) => Get(n, k) = Leaves(n)[i].val
         /\ \A k \in Keys : Get(n, k) # Missing =>
              \E i \in 1 .. Len(Leaves(n)) : DeepEq(Leaves(n)[i].key, k)
<1> DEFINE ls == Leaves(n)
<1>1. ls \in Seq(Leafs) /\ Len(ls) \in Nat /\ Once(ls)
  <2>1. Walked(ls, Hashes)
    BY TrieFacts, LeavesFacts DEF LeavesRight, Leaves, IsTrie
  <2> QED BY <2>1 DEF Walked
<1>2. Holds(n, 0) = Range(ls)
  BY DEF Holds, Leaves
<1> HIDE DEF ls
<1>3. \A l : l \in Holds(n, 0) <=> \E i \in 1 .. Len(ls) : l = ls[i]
  BY <1>1, <1>2, RangeFacts
<1>4. \A i \in 1 .. Len(ls) : ls[i] \in Leafs /\ ls[i].key \in Keys /\ ls[i].val \in AllVals
                              /\ ls[i].val # Missing
  BY <1>1, LeafFacts
<1>5. ASSUME NEW i \in 1 .. Len(ls), NEW k \in Keys, DeepEq(ls[i].key, k) PROVE Get(n, k) = ls[i].val
  <2>1. ls[i] \in Holds(n, 0)
    BY <1>3
  <2> QED BY <1>5, <2>1, LookupFacts
<1>6. ASSUME NEW k \in Keys, Get(n, k) # Missing PROVE \E i \in 1 .. Len(ls) : DeepEq(ls[i].key, k)
  <2>1. PICK l \in Holds(n, 0) : DeepEq(l.key, k)
    BY <1>6, LookupFacts
  <2> QED BY <1>3, <2>1
<1> QED BY <1>1, <1>4, <1>5, <1>6 DEF ls

\* With no NaN, the entries that walks see are those that lookups see, and size counts them.
LEMMA EntriesFacts ==
  ASSUME Nans = {}, NEW n, IsTrie(n)
  PROVE  /\ Entries(n) = MapOf(n)
         /\ IsFiniteSet(DOMAIN MapOf(n)) /\ HamtSize(n) = Cardinality(DOMAIN MapOf(n))
<1> DEFINE ls == Leaves(n)
           D  == {key \in Keys : Get(n, key) # Missing}
<1>1. /\ ls \in Seq(Leafs) /\ Len(ls) \in Nat
      /\ \A i \in 1 .. Len(ls) : /\ ls[i].key \in Keys /\ ls[i].val # Missing
                                 /\ Get(n, ls[i].key) = ls[i].val
      /\ \A i, j \in 1 .. Len(ls) : ls[i].key = ls[j].key => i = j
      /\ \A k \in Keys : Get(n, k) # Missing => \E i \in 1 .. Len(ls) : ls[i].key = k
  BY WalkFacts DEF Once, DeepEq
<1>2. /\ Entries(n) = [k \in {l.key : l \in Range(ls)} |-> (CHOOSE l \in Range(ls) : l.key = k).val]
      /\ HamtSize(n) = Len(ls)
  BY DEF Entries, HamtSize
<1> HIDE DEF ls
<1>3. \A l : l \in Range(ls) <=> \E i \in 1 .. Len(ls) : l = ls[i]
  BY <1>1, RangeFacts
<1>4. {l.key : l \in Range(ls)} = D
  BY <1>1, <1>3
<1>5. ASSUME NEW k \in D PROVE (CHOOSE l \in Range(ls) : l.key = k).val = Get(n, k)
  <2>1. \E l \in Range(ls) : l.key = k
    BY <1>1, <1>3
  <2> DEFINE l == CHOOSE x \in Range(ls) : x.key = k
  <2>2. l \in Range(ls) /\ l.key = k
    BY <2>1
  <2> HIDE DEF l
  <2>3. PICK i \in 1 .. Len(ls) : l = ls[i]
    BY <1>3, <2>2
  <2>4. l.val = Get(n, k)
    BY <1>1, <2>2, <2>3
  <2> QED BY <2>4 DEF l
<1>6. Entries(n) = MapOf(n)
  BY <1>2, <1>4, <1>5 DEF MapOf
<1>7. IsFiniteSet(D) /\ Len(ls) = Cardinality(D)
  <2> DEFINE F == [i \in 1 .. Len(ls) |-> ls[i].key]
             T == 1 .. Len(ls)
  <2>1. \A i \in T : ls[i].key \in D
    BY <1>1
  <2>2. F \in [T -> D]
    BY <2>1
  <2>3. \A k \in D : \E i \in T : F[i] = k
    BY <1>1
  <2>4. \A i, j \in T : F[i] = F[j] => i = j
    BY <1>1
  <2>5. IsFiniteSet(T) /\ Cardinality(T) = Len(ls)
    <3>1. Len(ls) \in Nat
      BY <1>1
    <3>2. \A len \in Nat : IsFiniteSet(1 .. len) /\ Cardinality(1 .. len) = len
      BY FS_Interval
    <3> QED BY <3>1, <3>2
  <2> HIDE DEF F, T, D
  <2>6. F \in Bijection(T, D)
    BY <2>2, <2>3, <2>4 DEF Bijection, Injection, Surjection, IsInjective
  <2>7. ExistsBijection(T, D)
    BY <2>6 DEF ExistsBijection
  <2> QED BY <2>5, <2>7, FS_Bijection
<1>8. DOMAIN MapOf(n) = D
  BY DEF MapOf
<1> QED BY <1>2, <1>6, <1>7, <1>8

\* Equality compares maps.
LEMMA EqualFacts ==
  ASSUME Nans = {}, NEW a, IsTrie(a), NEW b, IsTrie(b)
  PROVE  RecDeepEq(a, b) <=> MapOf(a) = MapOf(b)
<1> DEFINE ls == Leaves(a)
           DA == {key \in Keys : Get(a, key) # Missing}
           DB == {key \in Keys : Get(b, key) # Missing}
<1>1. /\ DOMAIN ls = 1 .. Len(ls)
      /\ \A i \in 1 .. Len(ls) : /\ ls[i].key \in Keys /\ ls[i].val # Missing
                                 /\ Get(a, ls[i].key) = ls[i].val
      /\ \A k \in Keys : Get(a, k) # Missing => \E i \in 1 .. Len(ls) : ls[i].key = k
  BY WalkFacts DEF DeepEq
<1>2. MapOf(a) = [k \in DA |-> Get(a, k)] /\ MapOf(b) = [k \in DB |-> Get(b, k)]
  BY DEF MapOf
<1>3. DOMAIN MapOf(a) = DA /\ DOMAIN MapOf(b) = DB
  BY <1>2
<1>4. /\ IsFiniteSet(DA) /\ HamtSize(a) = Cardinality(DA)
      /\ IsFiniteSet(DB) /\ HamtSize(b) = Cardinality(DB)
  BY <1>3, EntriesFacts
<1>5. RecDeepEq(a, b) <=> /\ Cardinality(DA) = Cardinality(DB)
                          /\ \A i \in 1 .. Len(ls) : Get(b, ls[i].key) = ls[i].val
  BY <1>1, <1>4 DEF RecDeepEq
<1> HIDE DEF ls
<1>6. ASSUME MapOf(a) = MapOf(b) PROVE RecDeepEq(a, b)
  <2>1. DA = DB
    BY <1>3, <1>6
  <2>2. \A k \in DA : Get(a, k) = Get(b, k)
    BY <1>2, <1>6, <2>1
  <2>3. \A i \in 1 .. Len(ls) : ls[i].key \in DA
    BY <1>1
  <2> HIDE DEF DA, DB
  <2> QED BY <1>1, <1>5, <2>1, <2>2, <2>3
<1>7. ASSUME RecDeepEq(a, b) PROVE MapOf(a) = MapOf(b)
  <2>1. \A k \in DA : Get(b, k) = Get(a, k)
    BY <1>1, <1>5, <1>7
  <2>2. DA \in SUBSET DB
    BY <2>1
  <2>3. Cardinality(DA) = Cardinality(DB)
    BY <1>5, <1>7
  <2>4. DA = DB
    <3> HIDE DEF DA, DB
    <3> QED BY <1>4, <2>2, <2>3, FS_Subset
  <2> HIDE DEF DA, DB
  <2> QED BY <1>2, <2>1, <2>4
<1> QED BY <1>6, <1>7

\* Merging: the entries of src, and those of dest that src has no key for.
LEMMA MergeFacts ==
  ASSUME NEW dest, IsTrie(dest), NEW src, IsTrie(src), HamtMerge(dest, src) # Trap
  PROVE  /\ IsTrie(HamtMerge(dest, src))
         /\ \A key \in Keys : Get(HamtMerge(dest, src), key) =
              IF Get(src, key) # Missing THEN Get(src, key) ELSE Get(dest, key)
<1> DEFINE ls == Leaves(src)
<1>1. /\ Len(ls) \in Nat
      /\ \A i \in 1 .. Len(ls) : /\ ls[i].key \in Keys /\ ls[i].val \in AllVals /\ ls[i].val # Missing
                                 /\ \A k \in Keys : DeepEq(ls[i].key, k) => Get(src, k) = ls[i].val
      /\ \A k \in Keys : Get(src, k) # Missing => \E i \in 1 .. Len(ls) : DeepEq(ls[i].key, k)
  BY WalkFacts
<1>2. PICK f : /\ HamtMerge(dest, src) = f[Len(ls)]
               /\ \A i \in 0 .. Len(ls) : f[i] = IF i = 0 THEN dest
                                                 ELSE HamtSet(f[i - 1], ls[i].key, ls[i].val)
  BY <1>1, MergeUnfolds
<1> HIDE DEF ls
<1> DEFINE Seen(i, key) == \E j \in 1 .. i : DeepEq(ls[j].key, key)
           P(i) == f[i] # Trap =>
                     /\ IsTrie(f[i])
                     /\ \A key \in Keys : Get(f[i], key) =
                          IF Seen(i, key) THEN Get(src, key) ELSE Get(dest, key)
           S == {i \in Nat : i <= Len(ls) => P(i)}
<1>3. 0 \in S
  <2>1. f[0] = dest /\ \A key : ~Seen(0, key)
    BY <1>1, <1>2
  <2> QED BY <2>1
<1>4. ASSUME NEW i \in Nat, i \in S PROVE i + 1 \in S
  <2> SUFFICES ASSUME i + 1 <= Len(ls), f[i + 1] # Trap
               PROVE  /\ IsTrie(f[i + 1])
                      /\ \A key \in Keys : Get(f[i + 1], key) =
                           IF Seen(i + 1, key) THEN Get(src, key) ELSE Get(dest, key)
    OBVIOUS
  <2> DEFINE k == ls[i + 1].key
             v == ls[i + 1].val
  <2>1. i + 1 \in 1 .. Len(ls) /\ i + 1 \in 0 .. Len(ls) /\ i + 1 # 0 /\ (i + 1) - 1 = i /\ i <= Len(ls)
    BY <1>1
  <2>2. f[i + 1] = HamtSet(f[i], k, v)
    BY <1>2, <2>1
  <2>3. f[i] # Trap
    BY <2>2 DEF HamtSet
  <2>4. IsTrie(f[i]) /\ \A key \in Keys : Get(f[i], key) = IF Seen(i, key) THEN Get(src, key) ELSE Get(dest, key)
    BY <1>4, <2>1, <2>3
  <2>5. k \in Keys /\ v \in AllVals /\ \A key \in Keys : DeepEq(k, key) => Get(src, key) = v
    BY <1>1, <2>1
  <2>6. \A key : Seen(i + 1, key) <=> Seen(i, key) \/ DeepEq(k, key)
    <3>1. \A j \in 1 .. i + 1 : j \in 1 .. i \/ j = i + 1
      OBVIOUS
    <3>2. i + 1 \in 1 .. i + 1 /\ \A j \in 1 .. i : j \in 1 .. i + 1
      OBVIOUS
    <3> QED BY <3>1, <3>2
  <2> HIDE DEF k, v, Seen
  <2>7. /\ IsTrie(f[i + 1])
        /\ \A key \in Keys : Get(f[i + 1], key) = IF DeepEq(k, key) THEN v ELSE Get(f[i], key)
    BY <2>2, <2>3, <2>4, <2>5, PutFacts DEF DeepEq
  <2> QED BY <2>4, <2>5, <2>6, <2>7
<1>5. Len(ls) \in S
  <2> HIDE DEF S
  <2> QED BY <1>1, <1>3, <1>4, Induction, Zenon
<1>6. P(Len(ls))
  BY <1>1, <1>5
<1>7. \A key \in Keys : Seen(Len(ls), key) <=> Get(src, key) # Missing
  BY <1>1
<1> HIDE DEF Seen
<1> QED BY <1>2, <1>6, <1>7

\* Projecting: the entries of src with a key of keys.
LEMMA ProjectFacts ==
  ASSUME NEW keys, IsTrie(keys), NEW src, IsTrie(src), CopyByKeys(keys, src) # Trap
  PROVE  /\ IsTrie(CopyByKeys(keys, src))
         /\ \A key \in Keys : Get(CopyByKeys(keys, src), key) =
              IF Get(keys, key) # Missing THEN Get(src, key) ELSE Missing
<1> DEFINE ls == Leaves(keys)
<1>1. /\ Len(ls) \in Nat
      /\ \A i \in 1 .. Len(ls) : /\ ls[i].key \in Keys /\ ls[i].val # Missing
                                 /\ \A k \in Keys : DeepEq(ls[i].key, k) => Get(keys, k) = ls[i].val
      /\ \A k \in Keys : Get(keys, k) # Missing => \E i \in 1 .. Len(ls) : DeepEq(ls[i].key, k)
  BY WalkFacts
<1>2. PICK f : /\ CopyByKeys(keys, src) = f[Len(ls)]
               /\ \A i \in 0 .. Len(ls) : f[i] = IF i = 0 THEN Empty
                                                 ELSE CopyOneKey(f[i - 1], ls[i].key, src)
  BY <1>1, CopyUnfolds
<1>3. \A k \in Keys : Get(src, k) # Missing => Get(src, k) \in AllVals
  BY WalkFacts
<1> HIDE DEF ls
<1> DEFINE Seen(i, key) == \E j \in 1 .. i : DeepEq(ls[j].key, key)
           P(i) == f[i] # Trap =>
                     /\ IsTrie(f[i])
                     /\ \A key \in Keys : Get(f[i], key) =
                          IF Seen(i, key) THEN Get(src, key) ELSE Missing
           S == {i \in Nat : i <= Len(ls) => P(i)}
<1>4. 0 \in S
  <2>1. f[0] = Empty /\ \A key : ~Seen(0, key)
    BY <1>1, <1>2
  <2> HIDE DEF Seen
  <2> QED BY <2>1, EmptyFacts
<1>5. ASSUME NEW i \in Nat, i \in S PROVE i + 1 \in S
  <2> SUFFICES ASSUME i + 1 <= Len(ls), f[i + 1] # Trap
               PROVE  /\ IsTrie(f[i + 1])
                      /\ \A key \in Keys : Get(f[i + 1], key) =
                           IF Seen(i + 1, key) THEN Get(src, key) ELSE Missing
    OBVIOUS
  <2> DEFINE k == ls[i + 1].key
  <2>1. i + 1 \in 1 .. Len(ls) /\ i + 1 \in 0 .. Len(ls) /\ i + 1 # 0 /\ (i + 1) - 1 = i /\ i <= Len(ls)
    BY <1>1
  <2>2. f[i + 1] = CopyOneKey(f[i], k, src)
    BY <1>2, <2>1
  <2>3. /\ f[i] # Trap
        /\ \/ Get(src, k) = Missing /\ f[i + 1] = f[i]
           \/ Get(src, k) # Missing /\ f[i + 1] = HamtSet(f[i], k, Get(src, k))
    BY <2>2 DEF CopyOneKey
  <2>4. IsTrie(f[i]) /\ \A key \in Keys : Get(f[i], key) = IF Seen(i, key) THEN Get(src, key) ELSE Missing
    BY <1>5, <2>1, <2>3
  <2>5. k \in Keys
    BY <1>1, <2>1
  <2>6. \A key : Seen(i + 1, key) <=> Seen(i, key) \/ DeepEq(k, key)
    <3>1. \A j \in 1 .. i + 1 : j \in 1 .. i \/ j = i + 1
      OBVIOUS
    <3>2. i + 1 \in 1 .. i + 1 /\ \A j \in 1 .. i : j \in 1 .. i + 1
      OBVIOUS
    <3> QED BY <3>1, <3>2
  <2> HIDE DEF k, Seen
  <2>7. CASE Get(src, k) = Missing /\ f[i + 1] = f[i]
    BY <2>4, <2>6, <2>7 DEF DeepEq
  <2>8. CASE Get(src, k) # Missing /\ f[i + 1] = HamtSet(f[i], k, Get(src, k))
    <3>1. Get(src, k) \in AllVals
      BY <1>3, <2>5, <2>8
    <3>2. /\ IsTrie(f[i + 1])
          /\ \A key \in Keys : Get(f[i + 1], key) = IF DeepEq(k, key) THEN Get(src, k) ELSE Get(f[i], key)
      BY <2>4, <2>5, <2>8, <3>1, PutFacts DEF DeepEq
    <3> QED BY <2>4, <2>5, <2>6, <3>2 DEF DeepEq
  <2> QED BY <2>3, <2>7, <2>8
<1>6. Len(ls) \in S
  <2> HIDE DEF S
  <2> QED BY <1>1, <1>4, <1>5, Induction, Zenon
<1>7. P(Len(ls))
  BY <1>1, <1>6
<1>8. \A key \in Keys : Seen(Len(ls), key) <=> Get(keys, key) # Missing
  BY <1>1
<1> HIDE DEF Seen
<1> QED BY <1>2, <1>7, <1>8

-----------------------------------------------------------------------------
(* What the operations do to maps                                          *)

LEMMA MapIs ==
  ASSUME NEW n, NEW m, NEW D \in SUBSET Keys, m = [k \in D |-> m[k]],
         \A k \in Keys : Get(n, k) = IF k \in D THEN m[k] ELSE Missing,
         \A k \in D : m[k] # Missing
  PROVE  MapOf(n) = m
<1>1. {key \in Keys : Get(n, key) # Missing} = D
  OBVIOUS
<1>2. MapOf(n) = [k \in D |-> Get(n, k)]
  BY <1>1 DEF MapOf
<1>3. \A k \in D : Get(n, k) = m[k]
  OBVIOUS
<1> QED BY <1>2, <1>3

LEMMA MapFacts ==
  ASSUME NEW n
  PROVE  /\ DOMAIN MapOf(n) \in SUBSET Keys /\ MapOf(n) = [k \in DOMAIN MapOf(n) |-> MapOf(n)[k]]
         /\ \A k \in Keys : k \in DOMAIN MapOf(n) <=> Get(n, k) # Missing
         /\ \A k \in DOMAIN MapOf(n) : MapOf(n)[k] = Get(n, k)
BY DEF MapOf

LEMMA MapOfEmpty ==
  MapOf(Empty) = Maps!EmptyMap
<1> DEFINE m == Maps!EmptyMap
<1>1. m = [k \in {} |-> m[k]]
  BY DEF Maps!EmptyMap
<1> HIDE DEF m
<1>2. MapOf(Empty) = m
  BY <1>1, EmptyFacts, MapIs
<1> QED BY <1>2 DEF m

LEMMA MapOfPut ==
  ASSUME Nans = {}, NEW n, IsTrie(n), NEW k \in Keys, NEW v \in Vals[k], HamtSet(n, k, v) # Trap
  PROVE  MapOf(HamtSet(n, k, v)) = Maps!With(MapOf(n), k, v)
<1> DEFINE m == MapOf(n)
           r == Maps!With(m, k, v)
           D == DOMAIN m \cup {k}
<1>1. /\ DOMAIN m \in SUBSET Keys
      /\ \A key \in Keys : key \in DOMAIN m <=> Get(n, key) # Missing
      /\ \A key \in DOMAIN m : m[key] = Get(n, key)
  BY MapFacts
<1>2. v \in AllVals /\ v # Missing
  BY ValuesAssumption DEF AllVals
<1> HIDE DEF m
<1>3. r = [key \in D |-> IF key = k THEN v ELSE m[key]]
  BY DEF Maps!With
<1>4. \A key \in D : r[key] = IF key = k THEN v ELSE m[key]
  BY <1>3
<1>5. r = [key \in D |-> r[key]] /\ D \in SUBSET Keys
  BY <1>1, <1>3
<1> DEFINE q == HamtSet(n, k, v)
<1>6. \A key \in Keys : Get(q, key) = IF key = k THEN v ELSE Get(n, key)
  BY <1>2, PutFacts DEF DeepEq
<1> HIDE DEF r, D, q
<1>7. /\ \A key \in Keys : Get(q, key) = IF key \in D THEN r[key] ELSE Missing
      /\ \A key \in D : r[key] # Missing
  BY <1>1, <1>2, <1>4, <1>6 DEF D
<1>8. MapOf(q) = r
  BY <1>5, <1>7, MapIs
<1> QED BY <1>8 DEF q, r, m

LEMMA MapOfRest ==
  ASSUME Nans = {}, NEW n, IsTrie(n), NEW k \in Keys
  PROVE  MapOf(HamtDelete(n, k)) = Restrict(MapOf(n), DOMAIN MapOf(n) \ {k})
<1> DEFINE m == MapOf(n)
           D == DOMAIN m \ {k}
           r == Restrict(m, D)
           q == HamtDelete(n, k)
<1>1. /\ DOMAIN m \in SUBSET Keys
      /\ \A key \in Keys : key \in DOMAIN m <=> Get(n, key) # Missing
      /\ \A key \in DOMAIN m : m[key] = Get(n, key)
  BY MapFacts
<1>2. \A key \in Keys : Get(q, key) = IF key = k THEN Missing ELSE Get(n, key)
  BY RestFacts DEF DeepEq
<1> HIDE DEF m, q
<1>3. r = [key \in D |-> m[key]]
  BY DEF Restrict
<1>4. \A key \in D : r[key] = m[key]
  BY <1>3
<1>5. r = [key \in D |-> r[key]] /\ D \in SUBSET Keys
  BY <1>1, <1>3
<1> HIDE DEF r, D
<1>6. /\ \A key \in Keys : Get(q, key) = IF key \in D THEN r[key] ELSE Missing
      /\ \A key \in D : r[key] # Missing
  BY <1>1, <1>2, <1>4 DEF D
<1>7. MapOf(q) = r
  BY <1>5, <1>6, MapIs
<1> QED BY <1>7 DEF q, r, D, m

LEMMA MapOfMerge ==
  ASSUME NEW dest, IsTrie(dest), NEW src, IsTrie(src), HamtMerge(dest, src) # Trap
  PROVE  MapOf(HamtMerge(dest, src)) = Maps!Over(MapOf(src), MapOf(dest))
<1> DEFINE m == MapOf(dest)
           s == MapOf(src)
           D == DOMAIN s \cup DOMAIN m
           r == Maps!Over(s, m)
           q == HamtMerge(dest, src)
<1>1. /\ DOMAIN m \in SUBSET Keys
      /\ \A key \in Keys : key \in DOMAIN m <=> Get(dest, key) # Missing
      /\ \A key \in DOMAIN m : m[key] = Get(dest, key)
  BY MapFacts
<1>2. /\ DOMAIN s \in SUBSET Keys
      /\ \A key \in Keys : key \in DOMAIN s <=> Get(src, key) # Missing
      /\ \A key \in DOMAIN s : s[key] = Get(src, key)
  BY MapFacts
<1>3. \A key \in Keys : Get(q, key) = IF Get(src, key) # Missing THEN Get(src, key) ELSE Get(dest, key)
  BY MergeFacts
<1> HIDE DEF m, s, q
<1>4. r = [key \in D |-> IF key \in DOMAIN s THEN s[key] ELSE m[key]]
  BY DEF Maps!Over
<1>5. \A key \in D : r[key] = IF key \in DOMAIN s THEN s[key] ELSE m[key]
  BY <1>4
<1>6. r = [key \in D |-> r[key]] /\ D \in SUBSET Keys
  BY <1>1, <1>2, <1>4
<1> HIDE DEF r, D
<1>7. /\ \A key \in Keys : Get(q, key) = IF key \in D THEN r[key] ELSE Missing
      /\ \A key \in D : r[key] # Missing
  BY <1>1, <1>2, <1>3, <1>5 DEF D
<1>8. MapOf(q) = r
  BY <1>6, <1>7, MapIs
<1> QED BY <1>8 DEF q, r, s, m

LEMMA MapOfProject ==
  ASSUME NEW keys, IsTrie(keys), NEW src, IsTrie(src), CopyByKeys(keys, src) # Trap
  PROVE  MapOf(CopyByKeys(keys, src)) =
           Restrict(MapOf(src), DOMAIN MapOf(src) \cap DOMAIN MapOf(keys))
<1> DEFINE m == MapOf(src)
           s == MapOf(keys)
           D == DOMAIN m \cap DOMAIN s
           r == Restrict(m, D)
           q == CopyByKeys(keys, src)
<1>1. /\ DOMAIN m \in SUBSET Keys
      /\ \A key \in Keys : key \in DOMAIN m <=> Get(src, key) # Missing
      /\ \A key \in DOMAIN m : m[key] = Get(src, key)
  BY MapFacts
<1>2. \A key \in Keys : key \in DOMAIN s <=> Get(keys, key) # Missing
  BY MapFacts
<1>3. \A key \in Keys : Get(q, key) = IF Get(keys, key) # Missing THEN Get(src, key) ELSE Missing
  BY ProjectFacts
<1> HIDE DEF m, s, q
<1>4. r = [key \in D |-> m[key]]
  BY DEF Restrict
<1>5. \A key \in D : r[key] = m[key]
  BY <1>4
<1>6. r = [key \in D |-> r[key]] /\ D \in SUBSET Keys
  BY <1>1, <1>4
<1> HIDE DEF r, D
<1>7. /\ \A key \in Keys : Get(q, key) = IF key \in D THEN r[key] ELSE Missing
      /\ \A key \in D : r[key] # Missing
  BY <1>1, <1>2, <1>3, <1>5 DEF D
<1>8. MapOf(q) = r
  BY <1>6, <1>7, MapIs
<1> QED BY <1>8 DEF q, r, D, s, m

LEMMA MapOverItself ==
  ASSUME NEW n
  PROVE  Maps!Over(MapOf(n), MapOf(n)) = MapOf(n)
<1> DEFINE m == MapOf(n)
<1>1. m = [k \in DOMAIN m |-> m[k]]
  BY MapFacts
<1> HIDE DEF m
<1>2. Maps!Over(m, m) = m
  BY <1>1 DEF Maps!Over
<1> QED BY <1>2 DEF m

-----------------------------------------------------------------------------
(* Theorems                                                                *)

LEMMA WellFormedMeans ==
  WellFormed <=> dicts \in [Names -> Tries[0]] /\ \A x \in Names : IsTrie(dicts[x])
BY DEF WellFormed, IsTrie, Good

\* The outcomes of the operations are tries.
LEMMA AssignTrie ==
  ASSUME WellFormed, NEW x \in Names, NEW n, n # Trap => IsTrie(n), Assign(x, n)
  PROVE  WellFormed'
<1>1. dicts \in [Names -> Tries[0]] /\ \A y \in Names : IsTrie(dicts[y])
  BY WellFormedMeans
<1>2. CASE n = Trap
  <2>1. dicts' = dicts
    BY <1>2 DEF Assign
  <2> QED BY <2>1 DEF WellFormed
<1>3. CASE n # Trap
  <2>1. dicts' = [dicts EXCEPT ![x] = n] /\ IsTrie(n) /\ n \in Tries[0]
    BY <1>3, TrieFacts DEF Assign
  <2>2. dicts' \in [Names -> Tries[0]]
    BY <1>1, <2>1
  <2>3. \A y \in Names : IsTrie(dicts'[y])
    BY <1>1, <2>1
  <2> QED BY <2>2, <2>3 DEF WellFormed, IsTrie, Good
<1> QED BY <1>2, <1>3

LEMMA OutcomeTries ==
  ASSUME WellFormed, NEW x \in Names, NEW y \in Names, NEW k \in Keys
  PROVE  /\ IsTrie(Empty) /\ IsTrie(dicts[x]) /\ IsTrie(dicts[y])
         /\ \A v \in Vals[k] : HamtSet(dicts[x], k, v) # Trap => IsTrie(HamtSet(dicts[x], k, v))
         /\ IsTrie(HamtPop(dicts[x], k).rest)
         /\ HamtMerge(dicts[x], dicts[y]) # Trap => IsTrie(HamtMerge(dicts[x], dicts[y]))
         /\ CopyByKeys(dicts[y], dicts[x]) # Trap => IsTrie(CopyByKeys(dicts[y], dicts[x]))
<1>1. IsTrie(dicts[x]) /\ IsTrie(dicts[y])
  BY WellFormedMeans
<1>2. \A v \in Vals[k] : v \in AllVals
  BY DEF AllVals
<1>3. HamtPop(dicts[x], k).rest = HamtDelete(dicts[x], k) /\ IsTrie(HamtDelete(dicts[x], k))
  BY <1>1, RestFacts
<1> QED BY <1>1, <1>2, <1>3, EmptyFacts, PutFacts, MergeFacts, ProjectFacts

LEMMA WellFormedInit ==
  Init => WellFormed
<1> SUFFICES ASSUME Init PROVE WellFormed
  OBVIOUS
<1>1. IsTrie(Empty) /\ Empty \in Tries[0]
  BY EmptyFacts, TrieFacts
<1> QED BY <1>1, WellFormedMeans DEF Init

LEMMA WellFormedStep ==
  WellFormed /\ [Next]_vars => WellFormed'
<1> SUFFICES ASSUME WellFormed, [Next]_vars PROVE WellFormed'
  OBVIOUS
<1>1. CASE UNCHANGED vars
  BY <1>1 DEF vars, WellFormed
<1>2. ASSUME NEW x \in Names, New(x) PROVE WellFormed'
  BY <1>2, AssignTrie, EmptyFacts DEF New
<1>3. ASSUME NEW x \in Names, NEW k \in Keys, NEW v \in Vals[k], Put(x, k, v) PROVE WellFormed'
  BY <1>3, AssignTrie, OutcomeTries DEF Put
<1>4. ASSUME NEW x \in Names, NEW k \in Keys, Pop(x, k) PROVE WellFormed'
  <2> DEFINE n == IF Clashes(dicts[x], k) THEN Trap ELSE HamtPop(dicts[x], k).rest
  <2>1. Assign(x, n)
    BY <1>4 DEF Pop
  <2>2. n # Trap => IsTrie(n)
    BY <1>4, OutcomeTries
  <2> HIDE DEF n
  <2> QED BY <2>1, <2>2, AssignTrie
<1>5. ASSUME NEW x \in Names, NEW y \in Names, Merge(x, y) PROVE WellFormed'
  <2>1. HamtMerge(dicts[x], dicts[y]) # Trap => IsTrie(HamtMerge(dicts[x], dicts[y]))
    BY WellFormedMeans, MergeFacts
  <2> QED BY <1>5, <2>1, AssignTrie DEF Merge
<1>6. ASSUME NEW x \in Names, NEW y \in Names, Project(x, y) PROVE WellFormed'
  <2>1. CopyByKeys(dicts[y], dicts[x]) # Trap => IsTrie(CopyByKeys(dicts[y], dicts[x]))
    BY WellFormedMeans, ProjectFacts
  <2> QED BY <1>6, <2>1, AssignTrie DEF Project
<1> QED BY <1>1, <1>2, <1>3, <1>4, <1>5, <1>6 DEF Next

\* Every trie a program can build is well formed, whatever the keys, their hashes, the
\* fan-out of the nodes and the depth of the trie.
THEOREM TriesAreWellFormed == Spec => []WellFormed
BY WellFormedInit, WellFormedStep, PTL DEF Spec

\* Lookups and walks see the same map, and size counts its keys.
THEOREM LookupsSeeEntries ==
  ASSUME Nans = {}
  PROVE  Spec => []LookupsAgree
<1>1. WellFormed => LookupsAgree
  <2> SUFFICES ASSUME WellFormed, NEW x \in Names
               PROVE  /\ \A k \in Keys : Get(dicts[x], k) =
                           IF k \in DOMAIN Entries(dicts[x]) THEN Entries(dicts[x])[k] ELSE Missing
                      /\ HamtSize(dicts[x]) = Cardinality(DOMAIN Entries(dicts[x]))
    BY DEF LookupsAgree
  <2>1. Entries(dicts[x]) = MapOf(dicts[x]) /\ HamtSize(dicts[x]) = Cardinality(DOMAIN MapOf(dicts[x]))
    BY WellFormedMeans, EntriesFacts
  <2>2. /\ \A k \in Keys : k \in DOMAIN MapOf(dicts[x]) <=> Get(dicts[x], k) # Missing
        /\ \A k \in DOMAIN MapOf(dicts[x]) : MapOf(dicts[x])[k] = Get(dicts[x], k)
    BY MapFacts
  <2> QED BY <2>1, <2>2
<1> QED BY <1>1, TriesAreWellFormed, PTL

\* The two traversals that remove a key do the same.
THEOREM PopsAreDeletes == Spec => []DeleteIsPop
<1>1. WellFormed => DeleteIsPop
  <2> SUFFICES ASSUME WellFormed, NEW x \in Names, NEW k \in Keys
               PROVE  /\ HamtDelete(dicts[x], k) = HamtPop(dicts[x], k).rest
                      /\ Get(dicts[x], k) = HamtPop(dicts[x], k).val
    BY DEF DeleteIsPop
  <2>1. HamtPop(dicts[x], k) = [val |-> Get(dicts[x], k), rest |-> HamtDelete(dicts[x], k)]
    BY WellFormedMeans, RestFacts
  <2> QED BY <2>1
<1> QED BY <1>1, TriesAreWellFormed, PTL

\* Dicts are equal when their entries are, however they were built.
THEOREM EqualityIsOfEntries ==
  ASSUME Nans = {}
  PROVE  Spec => []EqualityIgnoresShape
<1>1. WellFormed => EqualityIgnoresShape
  <2> SUFFICES ASSUME WellFormed, NEW x \in Names, NEW y \in Names
               PROVE  RecDeepEq(dicts[x], dicts[y]) <=> Entries(dicts[x]) = Entries(dicts[y])
    BY DEF EqualityIgnoresShape
  <2>1. Entries(dicts[x]) = MapOf(dicts[x]) /\ Entries(dicts[y]) = MapOf(dicts[y])
    BY WellFormedMeans, EntriesFacts
  <2>2. RecDeepEq(dicts[x], dicts[y]) <=> MapOf(dicts[x]) = MapOf(dicts[y])
    BY WellFormedMeans, EqualFacts
  <2> QED BY <2>1, <2>2
<1> QED BY <1>1, TriesAreWellFormed, PTL

-----------------------------------------------------------------------------
(* Refinement of DictSpec                                                  *)

Held == [x \in Names |-> Entries(dicts[x])]

LEMMA HeldFacts ==
  ASSUME Nans = {}, WellFormed
  PROVE  \A x \in Names : Held[x] = MapOf(dicts[x])
BY WellFormedMeans, EntriesFacts DEF Held

\* An assignment makes one variable hold another map, or traps and changes none.
LEMMA HeldAfter ==
  ASSUME Nans = {}, WellFormed, WellFormed', NEW x \in Names, NEW n, Assign(x, n)
  PROVE  /\ \A y \in Names \ {x} : Held'[y] = Held[y]
         /\ n # Trap => Held'[x] = MapOf(n)
         /\ n = Trap => Held'[x] = Held[x]
<1>1. dicts \in [Names -> Tries[0]]
  BY DEF WellFormed
<1>2. \A y \in Names : Held'[y] = Entries(dicts'[y]) /\ Held[y] = Entries(dicts[y])
  BY DEF Held
<1>3. \A y \in Names : IsTrie(dicts'[y])
  BY DEF WellFormed, IsTrie, Good
<1>4. \A y \in Names : Entries(dicts'[y]) = MapOf(dicts'[y])
  BY <1>3, EntriesFacts
<1>5. dicts' = IF n = Trap THEN dicts ELSE [dicts EXCEPT ![x] = n]
  BY DEF Assign
<1>6. CASE n = Trap
  BY <1>2, <1>5, <1>6
<1>7. CASE n # Trap
  <2>1. dicts'[x] = n /\ \A y \in Names \ {x} : dicts'[y] = dicts[y]
    BY <1>1, <1>5, <1>7
  <2> QED BY <1>2, <1>4, <1>7, <2>1
<1> QED BY <1>6, <1>7

LEMMA RefinedInit ==
  ASSUME Nans = {}
  PROVE  Init /\ WellFormed => Maps!Init
<1> SUFFICES ASSUME Init, WellFormed PROVE Maps!Init
  OBVIOUS
<1>1. \A x \in Names : Entries(dicts[x]) = Maps!EmptyMap
  <2> SUFFICES ASSUME NEW x \in Names PROVE Entries(dicts[x]) = Maps!EmptyMap
    OBVIOUS
  <2>1. dicts[x] = Empty
    BY DEF Init
  <2> QED BY <2>1, EmptyFacts, EntriesFacts, MapOfEmpty
<1> QED BY <1>1 DEF Init, Maps!Init

\* A step that gives Missing and makes of one variable's map what an operation may.
LEMMA MadeStep ==
  ASSUME NEW x \in Names, NEW y \in Names, answer' = Missing,
         \A z \in Names \ {x} : Held'[z] = Held[z], Held'[x] \in Maps!Made(Held[x], Held[y])
  PROVE  Maps!Next
BY DEF Maps!Next, Held

\* A trapped operation leaves all as it is.
LEMMA TrapStep ==
  ASSUME Nans = {}, WellFormed, NEW x \in Names, answer' = Missing,
         \A z \in Names \ {x} : Held'[z] = Held[z], Held'[x] = Held[x]
  PROVE  Maps!Next
<1>1. Maps!Over(Held[x], Held[x]) = Held[x]
  BY HeldFacts, MapOverItself
<1>2. Held'[x] \in Maps!Made(Held[x], Held[x])
  BY <1>1 DEF Maps!Made
<1> QED BY <1>2, MadeStep

LEMMA RefinedStep ==
  ASSUME Nans = {}
  PROVE  WellFormed /\ WellFormed' /\ [Next]_vars => [Maps!Next]_(Maps!vars)
<1> SUFFICES ASSUME WellFormed, WellFormed', [Next]_vars PROVE [Maps!Next]_(Maps!vars)
  OBVIOUS
<1>1. CASE UNCHANGED vars
  BY <1>1 DEF vars, Maps!vars
<1>2. ASSUME NEW x \in Names, New(x) PROVE Maps!Next
  <2>1. Assign(x, Empty) /\ answer' = Missing
    BY <1>2 DEF New
  <2>2. Empty # Trap
    BY EmptyFacts, TrieFacts
  <2>3. (\A y \in Names \ {x} : Held'[y] = Held[y]) /\ Held'[x] = Maps!EmptyMap
    BY <2>1, <2>2, HeldAfter, MapOfEmpty
  <2>4. Held'[x] \in Maps!Made(Held[x], Held[x])
    BY <2>3 DEF Maps!Made
  <2> QED BY <2>1, <2>3, <2>4, MadeStep
<1>3. ASSUME NEW x \in Names, NEW k \in Keys, NEW v \in Vals[k], Put(x, k, v) PROVE Maps!Next
  <2> DEFINE n == HamtSet(dicts[x], k, v)
  <2>1. Assign(x, n) /\ answer' = Missing
    BY <1>3 DEF Put
  <2>2. IsTrie(dicts[x]) /\ Held[x] = MapOf(dicts[x])
    BY WellFormedMeans, HeldFacts
  <2>3. n # Trap => MapOf(n) = Maps!With(Held[x], k, v)
    BY <2>2, MapOfPut
  <2> HIDE DEF n
  <2>4. /\ \A y \in Names \ {x} : Held'[y] = Held[y]
        /\ n # Trap => Held'[x] = MapOf(n)
        /\ n = Trap => Held'[x] = Held[x]
    BY <2>1, HeldAfter
  <2>5. CASE n = Trap
    BY <2>1, <2>4, <2>5, TrapStep
  <2>6. CASE n # Trap
    <3>1. Held'[x] = Maps!With(Held[x], k, v)
      BY <2>3, <2>4, <2>6
    <3>2. Held'[x] \in Maps!Made(Held[x], Held[x])
      BY <3>1 DEF Maps!Made
    <3> QED BY <2>1, <2>4, <3>2, MadeStep
  <2> QED BY <2>5, <2>6
<1>4. ASSUME NEW x \in Names, NEW k \in Keys, Pop(x, k) PROVE Maps!Next
  <2>1. IsTrie(dicts[x]) /\ Held[x] = MapOf(dicts[x])
    BY WellFormedMeans, HeldFacts
  <2>2. CASE Clashes(dicts[x], k)
    <3>1. Assign(x, Trap) /\ answer' = Missing
      BY <1>4, <2>2 DEF Pop
    <3>2. (\A y \in Names \ {x} : Held'[y] = Held[y]) /\ Held'[x] = Held[x]
      BY <3>1, HeldAfter
    <3> QED BY <3>1, <3>2, TrapStep
  <2>3. CASE ~Clashes(dicts[x], k)
    <3> DEFINE n == HamtDelete(dicts[x], k)
               m == Held[x]
    <3>1. HamtPop(dicts[x], k) = [val |-> Get(dicts[x], k), rest |-> n] /\ IsTrie(n)
      BY <2>1, RestFacts
    <3>2. Assign(x, n) /\ answer' = Get(dicts[x], k) /\ n # Trap
      BY <1>4, <2>3, <3>1, TrieFacts DEF Pop
    <3>3. MapOf(n) = Restrict(m, DOMAIN m \ {k})
      BY <2>1, MapOfRest
    <3> HIDE DEF n
    <3>4. (\A y \in Names \ {x} : Held'[y] = Held[y]) /\ Held'[x] = Restrict(m, DOMAIN m \ {k})
      BY <3>2, <3>3, HeldAfter
    <3>5. Get(dicts[x], k) = Maps!Lookup(m, k)
      BY <2>1, MapFacts DEF Maps!Lookup
    <3>6. Held'[x] = Maps!Restrict(m, DOMAIN m \ {k})
      BY <3>4 DEF Restrict, Maps!Restrict
    <3> QED BY <3>2, <3>4, <3>5, <3>6 DEF Maps!Next, Held
  <2> QED BY <2>2, <2>3
<1>5. ASSUME NEW x \in Names, NEW y \in Names, Merge(x, y) PROVE Maps!Next
  <2> DEFINE n == HamtMerge(dicts[x], dicts[y])
  <2>1. Assign(x, n) /\ answer' = Missing
    BY <1>5 DEF Merge
  <2>2. IsTrie(dicts[x]) /\ Held[x] = MapOf(dicts[x]) /\ IsTrie(dicts[y]) /\ Held[y] = MapOf(dicts[y])
    BY WellFormedMeans, HeldFacts
  <2>3. n # Trap => MapOf(n) = Maps!Over(Held[y], Held[x])
    BY <2>2, MapOfMerge
  <2> HIDE DEF n
  <2>4. /\ \A z \in Names \ {x} : Held'[z] = Held[z]
        /\ n # Trap => Held'[x] = MapOf(n)
        /\ n = Trap => Held'[x] = Held[x]
    BY <2>1, HeldAfter
  <2>5. CASE n = Trap
    BY <2>1, <2>4, <2>5, TrapStep
  <2>6. CASE n # Trap
    <3>1. Held'[x] \in Maps!Made(Held[x], Held[y])
      BY <2>3, <2>4, <2>6 DEF Maps!Made
    <3> QED BY <2>1, <2>4, <3>1, MadeStep
  <2> QED BY <2>5, <2>6
<1>6. ASSUME NEW x \in Names, NEW y \in Names, Project(x, y) PROVE Maps!Next
  <2> DEFINE n == CopyByKeys(dicts[y], dicts[x])
  <2>1. Assign(x, n) /\ answer' = Missing
    BY <1>6 DEF Project
  <2>2. IsTrie(dicts[x]) /\ Held[x] = MapOf(dicts[x]) /\ IsTrie(dicts[y]) /\ Held[y] = MapOf(dicts[y])
    BY WellFormedMeans, HeldFacts
  <2>3. n # Trap => MapOf(n) = Restrict(Held[x], DOMAIN Held[x] \cap DOMAIN Held[y])
    BY <2>2, MapOfProject
  <2> HIDE DEF n
  <2>4. /\ \A z \in Names \ {x} : Held'[z] = Held[z]
        /\ n # Trap => Held'[x] = MapOf(n)
        /\ n = Trap => Held'[x] = Held[x]
    BY <2>1, HeldAfter
  <2>5. CASE n = Trap
    BY <2>1, <2>4, <2>5, TrapStep
  <2>6. CASE n # Trap
    <3>1. Held'[x] = Maps!Restrict(Held[x], DOMAIN Held[x] \cap DOMAIN Held[y])
      BY <2>3, <2>4, <2>6 DEF Restrict, Maps!Restrict
    <3>2. Held'[x] \in Maps!Made(Held[x], Held[y])
      BY <3>1 DEF Maps!Made
    <3> QED BY <2>1, <2>4, <3>2, MadeStep
  <2> QED BY <2>5, <2>6
<1> QED BY <1>1, <1>2, <1>3, <1>4, <1>5, <1>6 DEF Next

\* A dict is a finite map: a program that works on hash tries is one that works on maps.
THEOREM DictsAreMaps ==
  ASSUME Nans = {}
  PROVE  Spec => ImplementsDict
<1>1. Init => Maps!Init
  BY WellFormedInit, RefinedInit
<1>2. WellFormed /\ WellFormed' /\ [Next]_vars => [Maps!Next]_(Maps!vars)
  BY RefinedStep
<1> QED BY <1>1, <1>2, TriesAreWellFormed, PTL DEF Spec, ImplementsDict, Maps!Spec
=============================================================================
