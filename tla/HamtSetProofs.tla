---------------------------- MODULE HamtSetProofs ----------------------------
(***************************************************************************)
(* That the set operators keep tries well formed, and that the sets of a   *)
(* program are the finite sets of SetSpec.                                 *)
(***************************************************************************)
EXTENDS HamtSet, HashTrieProofs

-----------------------------------------------------------------------------
(* The recursive definitions, unfolded                                     *)

LEMMA LooksUnfolds ==
  ASSUME NEW k
  PROVE  Looks(k) = [d \in Depths |-> [n \in Tries[d] |-> HasIn(n, k, d, Looks(k)[d + 1])]]
<1> DEFINE At(d, below) == [n \in Tries[d] |-> HasIn(n, k, d, below)]
           F(f)         == f = [d \in Depths |-> At(d, f[d + 1])]
           Rest(e)      == Levels - e .. Levels
           G(g, e)      == g = [d \in Rest(e) |-> At(d, g[d + 1])]
           S            == {e \in Nat : e <= Levels => \E g : G(g, e)}
<1>1. Levels \in Nat /\ \A b1, b2 : At(Levels, b1) = At(Levels, b2)
  BY HashAssumption, TriesFacts
<1>2. Looks(k) = CHOOSE f : F(f)
  BY DEF Looks
<1> HIDE DEF At
<1>3. 0 \in S
  <2> DEFINE g == [d \in Rest(0) |-> At(Levels, 0)]
  <2>1. \A d \in Rest(0) : d = Levels
    BY <1>1
  <2>2. g = [d \in Rest(0) |-> At(d, g[d + 1])]
    BY <1>1, <2>1
  <2> HIDE DEF g
  <2> QED BY <2>2
<1>4. ASSUME NEW e \in Nat, e \in S PROVE e + 1 \in S
  <2> SUFFICES ASSUME e + 1 <= Levels PROVE \E g : G(g, e + 1)
    OBVIOUS
  <2>1. PICK g : G(g, e)
    BY <1>1, <1>4
  <2> DEFINE h == [d \in Rest(e + 1) |-> At(d, g[d + 1])]
  <2>2. ASSUME NEW d \in Rest(e + 1) PROVE h[d] = At(d, h[d + 1])
    <3>1. CASE d = Levels
      BY <1>1, <3>1
    <3>2. CASE d # Levels
      <4>1. d + 1 \in Rest(e) /\ d + 1 \in Rest(e + 1)
        BY <1>1, <3>2
      <4>2. g[d + 1] = At(d + 1, g[d + 2])
        <5>1. g[d + 1] = At(d + 1, g[d + 1 + 1])
          BY <2>1, <4>1
        <5> QED BY <1>1, <5>1
      <4>3. h[d + 1] = At(d + 1, g[d + 2])
        <5>1. h[d + 1] = At(d + 1, g[d + 1 + 1])
          BY <4>1
        <5> QED BY <1>1, <5>1
      <4>4. h[d] = At(d, g[d + 1])
        OBVIOUS
      <4> QED BY <4>2, <4>3, <4>4
    <3> QED BY <3>1, <3>2
  <2>3. h = [d \in Rest(e + 1) |-> At(d, h[d + 1])]
    <3>1. h = [d \in Rest(e + 1) |-> h[d]]
      OBVIOUS
    <3> HIDE DEF h
    <3> QED BY <2>2, <3>1
  <2> HIDE DEF h
  <2> QED BY <2>3
<1>5. Levels \in S
  <2> HIDE DEF S
  <2> QED BY <1>1, <1>3, <1>4, Induction, Zenon
<1>6. PICK g : G(g, Levels)
  BY <1>1, <1>5
<1>7. Rest(Levels) = Depths
  BY <1>1 DEF Depths
<1>8. F(g)
  BY <1>6, <1>7
<1> HIDE DEF F
<1>9. F(Looks(k))
  BY <1>2, <1>8
<1> QED BY <1>9 DEF F, At

LEMMA AddsUnfolds ==
  ASSUME NEW k
  PROVE  Adds(k) = [d \in Depths |-> [n \in Tries[d] |-> AddIn(n, k, d, Adds(k)[d + 1])]]
<1> DEFINE At(d, below) == [n \in Tries[d] |-> AddIn(n, k, d, below)]
           F(f)         == f = [d \in Depths |-> At(d, f[d + 1])]
           Rest(e)      == Levels - e .. Levels
           G(g, e)      == g = [d \in Rest(e) |-> At(d, g[d + 1])]
           S            == {e \in Nat : e <= Levels => \E g : G(g, e)}
<1>1. Levels \in Nat /\ \A b1, b2 : At(Levels, b1) = At(Levels, b2)
  BY HashAssumption, TriesFacts
<1>2. Adds(k) = CHOOSE f : F(f)
  BY DEF Adds
<1> HIDE DEF At
<1>3. 0 \in S
  <2> DEFINE g == [d \in Rest(0) |-> At(Levels, 0)]
  <2>1. \A d \in Rest(0) : d = Levels
    BY <1>1
  <2>2. g = [d \in Rest(0) |-> At(d, g[d + 1])]
    BY <1>1, <2>1
  <2> HIDE DEF g
  <2> QED BY <2>2
<1>4. ASSUME NEW e \in Nat, e \in S PROVE e + 1 \in S
  <2> SUFFICES ASSUME e + 1 <= Levels PROVE \E g : G(g, e + 1)
    OBVIOUS
  <2>1. PICK g : G(g, e)
    BY <1>1, <1>4
  <2> DEFINE h == [d \in Rest(e + 1) |-> At(d, g[d + 1])]
  <2>2. ASSUME NEW d \in Rest(e + 1) PROVE h[d] = At(d, h[d + 1])
    <3>1. CASE d = Levels
      BY <1>1, <3>1
    <3>2. CASE d # Levels
      <4>1. d + 1 \in Rest(e) /\ d + 1 \in Rest(e + 1)
        BY <1>1, <3>2
      <4>2. g[d + 1] = At(d + 1, g[d + 2])
        <5>1. g[d + 1] = At(d + 1, g[d + 1 + 1])
          BY <2>1, <4>1
        <5> QED BY <1>1, <5>1
      <4>3. h[d + 1] = At(d + 1, g[d + 2])
        <5>1. h[d + 1] = At(d + 1, g[d + 1 + 1])
          BY <4>1
        <5> QED BY <1>1, <5>1
      <4>4. h[d] = At(d, g[d + 1])
        OBVIOUS
      <4> QED BY <4>2, <4>3, <4>4
    <3> QED BY <3>1, <3>2
  <2>3. h = [d \in Rest(e + 1) |-> At(d, h[d + 1])]
    <3>1. h = [d \in Rest(e + 1) |-> h[d]]
      OBVIOUS
    <3> HIDE DEF h
    <3> QED BY <2>2, <3>1
  <2> HIDE DEF h
  <2> QED BY <2>3
<1>5. Levels \in S
  <2> HIDE DEF S
  <2> QED BY <1>1, <1>3, <1>4, Induction, Zenon
<1>6. PICK g : G(g, Levels)
  BY <1>1, <1>5
<1>7. Rest(Levels) = Depths
  BY <1>1 DEF Depths
<1>8. F(g)
  BY <1>6, <1>7
<1> HIDE DEF F
<1>9. F(Adds(k))
  BY <1>2, <1>8
<1> QED BY <1>9 DEF F, At

LEMMA RemovesUnfolds ==
  ASSUME NEW k
  PROVE  Removes(k) = [d \in Depths |-> [n \in Tries[d] |-> RemoveIn(n, k, d, Removes(k)[d + 1])]]
<1> DEFINE At(d, below) == [n \in Tries[d] |-> RemoveIn(n, k, d, below)]
           F(f)         == f = [d \in Depths |-> At(d, f[d + 1])]
           Rest(e)      == Levels - e .. Levels
           G(g, e)      == g = [d \in Rest(e) |-> At(d, g[d + 1])]
           S            == {e \in Nat : e <= Levels => \E g : G(g, e)}
<1>1. Levels \in Nat /\ \A b1, b2 : At(Levels, b1) = At(Levels, b2)
  BY HashAssumption, TriesFacts
<1>2. Removes(k) = CHOOSE f : F(f)
  BY DEF Removes
<1> HIDE DEF At
<1>3. 0 \in S
  <2> DEFINE g == [d \in Rest(0) |-> At(Levels, 0)]
  <2>1. \A d \in Rest(0) : d = Levels
    BY <1>1
  <2>2. g = [d \in Rest(0) |-> At(d, g[d + 1])]
    BY <1>1, <2>1
  <2> HIDE DEF g
  <2> QED BY <2>2
<1>4. ASSUME NEW e \in Nat, e \in S PROVE e + 1 \in S
  <2> SUFFICES ASSUME e + 1 <= Levels PROVE \E g : G(g, e + 1)
    OBVIOUS
  <2>1. PICK g : G(g, e)
    BY <1>1, <1>4
  <2> DEFINE h == [d \in Rest(e + 1) |-> At(d, g[d + 1])]
  <2>2. ASSUME NEW d \in Rest(e + 1) PROVE h[d] = At(d, h[d + 1])
    <3>1. CASE d = Levels
      BY <1>1, <3>1
    <3>2. CASE d # Levels
      <4>1. d + 1 \in Rest(e) /\ d + 1 \in Rest(e + 1)
        BY <1>1, <3>2
      <4>2. g[d + 1] = At(d + 1, g[d + 2])
        <5>1. g[d + 1] = At(d + 1, g[d + 1 + 1])
          BY <2>1, <4>1
        <5> QED BY <1>1, <5>1
      <4>3. h[d + 1] = At(d + 1, g[d + 2])
        <5>1. h[d + 1] = At(d + 1, g[d + 1 + 1])
          BY <4>1
        <5> QED BY <1>1, <5>1
      <4>4. h[d] = At(d, g[d + 1])
        OBVIOUS
      <4> QED BY <4>2, <4>3, <4>4
    <3> QED BY <3>1, <3>2
  <2>3. h = [d \in Rest(e + 1) |-> At(d, h[d + 1])]
    <3>1. h = [d \in Rest(e + 1) |-> h[d]]
      OBVIOUS
    <3> HIDE DEF h
    <3> QED BY <2>2, <3>1
  <2> HIDE DEF h
  <2> QED BY <2>3
<1>5. Levels \in S
  <2> HIDE DEF S
  <2> QED BY <1>1, <1>3, <1>4, Induction, Zenon
<1>6. PICK g : G(g, Levels)
  BY <1>1, <1>5
<1>7. Rest(Levels) = Depths
  BY <1>1 DEF Depths
<1>8. F(g)
  BY <1>6, <1>7
<1> HIDE DEF F
<1>9. F(Removes(k))
  BY <1>2, <1>8
<1> QED BY <1>9 DEF F, At

LEMMA FirstKeysUnfolds ==
  FirstKeys = [d \in Depths |-> [n \in Tries[d] |-> FirstKeyIn(n, FirstKeys[d + 1])]]
<1> DEFINE At(d, below) == [n \in Tries[d] |-> FirstKeyIn(n, below)]
           F(f)         == f = [d \in Depths |-> At(d, f[d + 1])]
           Rest(e)      == Levels - e .. Levels
           G(g, e)      == g = [d \in Rest(e) |-> At(d, g[d + 1])]
           S            == {e \in Nat : e <= Levels => \E g : G(g, e)}
<1>1. Levels \in Nat /\ \A b1, b2 : At(Levels, b1) = At(Levels, b2)
  BY HashAssumption, TriesFacts
<1>2. FirstKeys = CHOOSE f : F(f)
  BY DEF FirstKeys
<1> HIDE DEF At
<1>3. 0 \in S
  <2> DEFINE g == [d \in Rest(0) |-> At(Levels, 0)]
  <2>1. \A d \in Rest(0) : d = Levels
    BY <1>1
  <2>2. g = [d \in Rest(0) |-> At(d, g[d + 1])]
    BY <1>1, <2>1
  <2> HIDE DEF g
  <2> QED BY <2>2
<1>4. ASSUME NEW e \in Nat, e \in S PROVE e + 1 \in S
  <2> SUFFICES ASSUME e + 1 <= Levels PROVE \E g : G(g, e + 1)
    OBVIOUS
  <2>1. PICK g : G(g, e)
    BY <1>1, <1>4
  <2> DEFINE h == [d \in Rest(e + 1) |-> At(d, g[d + 1])]
  <2>2. ASSUME NEW d \in Rest(e + 1) PROVE h[d] = At(d, h[d + 1])
    <3>1. CASE d = Levels
      BY <1>1, <3>1
    <3>2. CASE d # Levels
      <4>1. d + 1 \in Rest(e) /\ d + 1 \in Rest(e + 1)
        BY <1>1, <3>2
      <4>2. g[d + 1] = At(d + 1, g[d + 2])
        <5>1. g[d + 1] = At(d + 1, g[d + 1 + 1])
          BY <2>1, <4>1
        <5> QED BY <1>1, <5>1
      <4>3. h[d + 1] = At(d + 1, g[d + 2])
        <5>1. h[d + 1] = At(d + 1, g[d + 1 + 1])
          BY <4>1
        <5> QED BY <1>1, <5>1
      <4>4. h[d] = At(d, g[d + 1])
        OBVIOUS
      <4> QED BY <4>2, <4>3, <4>4
    <3> QED BY <3>1, <3>2
  <2>3. h = [d \in Rest(e + 1) |-> At(d, h[d + 1])]
    <3>1. h = [d \in Rest(e + 1) |-> h[d]]
      OBVIOUS
    <3> HIDE DEF h
    <3> QED BY <2>2, <3>1
  <2> HIDE DEF h
  <2> QED BY <2>3
<1>5. Levels \in S
  <2> HIDE DEF S
  <2> QED BY <1>1, <1>3, <1>4, Induction, Zenon
<1>6. PICK g : G(g, Levels)
  BY <1>1, <1>5
<1>7. Rest(Levels) = Depths
  BY <1>1 DEF Depths
<1>8. F(g)
  BY <1>6, <1>7
<1> HIDE DEF F
<1>9. F(FirstKeys)
  BY <1>2, <1>8
<1> QED BY <1>9 DEF F, At

LEMMA GatherUnfolds ==
  ASSUME NEW dest, NEW src, NEW picked, Len(Leaves(src)) \in Nat
  PROVE  \E f : /\ Gather(dest, src, picked) = f[Len(Leaves(src))]
                /\ \A i \in 0 .. Len(Leaves(src)) : f[i] = CASE i = 0 -> dest
                    [] i # 0 /\ Leaves(src)[i].key \in picked -> Add(f[i - 1], Leaves(src)[i].key)
                    [] OTHER -> f[i - 1]
<1> DEFINE At(i, x) == CASE i = 0 -> dest
                    [] i # 0 /\ Leaves(src)[i].key \in picked -> Add(x, Leaves(src)[i].key)
                    [] OTHER -> x
           F(f)     == f = [i \in 0 .. Len(Leaves(src)) |-> At(i, f[i - 1])]
           G(g, e)  == g = [i \in 0 .. 0 + e |-> At(i, g[i - 1])]
           S        == {e \in Nat : \E g : G(g, e)}
<1>1. Len(Leaves(src)) \in Nat /\ 0 + (Len(Leaves(src))) = Len(Leaves(src)) /\ \A x, y : At(0, x) = At(0, y)
  OBVIOUS
<1>2. Gather(dest, src, picked) = (CHOOSE f : F(f))[Len(Leaves(src))]
  BY DEF Gather
<1>3. \A i, x : At(i, x) = CASE i = 0 -> dest
                    [] i # 0 /\ Leaves(src)[i].key \in picked -> Add(x, Leaves(src)[i].key)
                    [] OTHER -> x
  OBVIOUS
<1> HIDE DEF At
<1>4. 0 \in S
  <2> DEFINE g == [i \in 0 .. 0 + 0 |-> At(0, 0)]
  <2>1. \A i \in 0 .. 0 + 0 : i = 0
    OBVIOUS
  <2>2. g = [i \in 0 .. 0 + 0 |-> At(i, g[i - 1])]
    BY <1>1, <2>1
  <2> HIDE DEF g
  <2> QED BY <2>2
<1>5. ASSUME NEW e \in Nat, e \in S PROVE e + 1 \in S
  <2>1. PICK g : G(g, e)
    BY <1>5
  <2> DEFINE h == [i \in 0 .. 0 + (e + 1) |-> At(i, g[i - 1])]
  <2>2. ASSUME NEW i \in 0 .. 0 + (e + 1) PROVE h[i] = At(i, h[i - 1])
    <3>1. CASE i = 0
      BY <1>1, <3>1
    <3>2. CASE i # 0
      <4>1. i - 1 \in 0 .. 0 + e /\ i - 1 \in 0 .. 0 + (e + 1)
        BY <3>2
      <4>2. g[i - 1] = At(i - 1, g[i - 1 - 1])
        BY <2>1, <4>1
      <4>3. h[i - 1] = At(i - 1, g[i - 1 - 1])
        BY <4>1
      <4>4. h[i] = At(i, g[i - 1])
        OBVIOUS
      <4> QED BY <4>2, <4>3, <4>4
    <3> QED BY <3>1, <3>2
  <2>3. h = [i \in 0 .. 0 + (e + 1) |-> At(i, h[i - 1])]
    <3>1. h = [i \in 0 .. 0 + (e + 1) |-> h[i]]
      OBVIOUS
    <3> HIDE DEF h
    <3> QED BY <2>2, <3>1
  <2> HIDE DEF h
  <2> QED BY <2>3
<1>6. Len(Leaves(src)) \in S
  <2> HIDE DEF S
  <2> QED BY <1>1, <1>4, <1>5, Induction, Zenon
<1>7. PICK g : F(g)
  BY <1>1, <1>6
<1> HIDE DEF F
<1>8. F(CHOOSE f : F(f))
  BY <1>7
<1>9. PICK f : F(f) /\ Gather(dest, src, picked) = f[Len(Leaves(src))]
  BY <1>2, <1>8
<1>10. \A i \in 0 .. Len(Leaves(src)) : f[i] = At(i, f[i - 1])
  BY <1>9 DEF F
<1> QED BY <1>3, <1>9, <1>10

-----------------------------------------------------------------------------
(* Leaves that are keys                                                    *)

LEMMA LeafIs ==
  /\ \A k \in Keys : Leaf(k) \in Leafs /\ Leaf(k).key = k /\ Leaf(k).tag = "leaf"
  /\ \A l \in Leafs : l.key \in Keys /\ l = Leaf(l.key)
BY SetAssumption DEF Leaf

-----------------------------------------------------------------------------
(* Adding a key                                                            *)

\* What Add makes of the child in the key's slot.
AddKid(c, k, d) ==
  CASE c.tag = "node" -> Adds(k)[d + 1][c]
    [] c.tag = "collision" ->
         IF FindKey(c.leaves, k) # 0 THEN c ELSE Collision(c.hash, Append(c.leaves, Leaf(k)))
    [] c.tag = "leaf" /\ DeepEq(c.key, k) -> c
    [] c.tag = "leaf" /\ ~DeepEq(c.key, k) /\ d + 1 >= Levels -> Collision(Hash[k], <<c, Leaf(k)>>)
    [] OTHER -> Adds(k)[d + 1][Alone(c, d + 1)]

\* Adding a key to a trie of depth d for hashes hs: the trie stays well formed, and its leaf
\* joins those that are there.
AddRight(d) ==
  \A n, hs : \A k \in Keys :
    Good(n, d, hs) /\ Path(hs, d) /\ Hash[k] \in hs =>
      /\ Good(Adds(k)[d][n], d, hs)
      /\ Holds(Adds(k)[d][n], d) = Holds(n, d) \cup {Leaf(k)}

\* The same of a child.
AddedKid(x, c, k, d, hs) ==
  /\ x \in Kids(d) /\ Fits(x, d, hs)
  /\ KidHolds(x, d) = KidHolds(c, d) \cup {Leaf(k)}

LEMMA AddKidFacts ==
  ASSUME NEW d \in Inner, d + 1 \in Inner => AddRight(d + 1),
         NEW hs, Path(hs, d + 1), NEW c \in Kids(d), Fits(c, d, hs),
         NEW k \in Keys, Hash[k] \in hs
  PROVE  AddedKid(AddKid(c, k, d), c, k, d, hs)
<1>1. hs \in SUBSET Hashes
  BY DEF Path
<1>2. Leaf(k) \in Leafs /\ Leaf(k).key = k
  BY LeafIs
<1>3. CASE c.tag = "node" /\ c \in Tries[d + 1] /\ d + 1 \in Inner
  <2> DEFINE x == Adds(k)[d + 1][c]
  <2>1. AddKid(c, k, d) = x
    BY <1>3 DEF AddKid
  <2>2. Good(c, d + 1, hs)
    BY <1>3 DEF Fits, Good
  <2>3. Good(x, d + 1, hs) /\ Holds(x, d + 1) = Holds(c, d + 1) \cup {Leaf(k)}
    BY <1>3, <2>2 DEF AddRight
  <2> HIDE DEF x
  <2>4. x.tag = "node" /\ x \in Kids(d) /\ Fits(x, d, hs)
    BY <1>3, <2>3, SubNode DEF Good, Fits
  <2>5. KidHolds(x, d) = Holds(x, d + 1) /\ KidHolds(c, d) = Holds(c, d + 1)
    BY <1>1, <1>3, <2>4, KidHoldsFacts
  <2> QED BY <2>1, <2>3, <2>4, <2>5 DEF AddedKid
<1>4. CASE c.tag = "collision" /\ c \in Collisions
  <2> DEFINE ls == c.leaves
  <2>1. ls \in Seq(Leafs) /\ KidHolds(c, d) = Range(ls)
    BY <1>1, <1>4, CollisionIs
  <2>2. CASE FindKey(ls, k) # 0
    <3>1. AddKid(c, k, d) = c
      BY <1>4, <2>2 DEF AddKid
    <3>2. FindKey(ls, k) \in 1 .. Len(ls) /\ DeepEq(ls[FindKey(ls, k)].key, k)
      BY <2>1, <2>2, FindKeyFacts
    <3>3. ls[FindKey(ls, k)] \in Leafs /\ ls[FindKey(ls, k)].key = k
      BY <2>1, <3>2 DEF DeepEq
    <3>4. ls[FindKey(ls, k)] = Leaf(k)
      BY <3>3, LeafIs
    <3>5. Leaf(k) \in Range(ls)
      BY <2>1, <3>2, <3>4, RangeFacts
    <3> QED BY <2>1, <3>1, <3>5 DEF AddedKid
  <2>3. CASE FindKey(ls, k) = 0
    <3> DEFINE x == Collision(c.hash, Append(c.leaves, Leaf(k)))
    <3>1. AddKid(c, k, d) = x
      BY <1>4, <2>3 DEF AddKid
    <3>2. x \in Kids(d) /\ Fits(x, d, hs) /\ KidHolds(x, d) = KidHolds(c, d) \cup {Leaf(k)}
      BY <1>2, <1>4, <2>3, CollisionMore
    <3> QED BY <3>1, <3>2 DEF AddedKid
  <2> QED BY <2>2, <2>3
<1>5. CASE c.tag = "leaf" /\ c \in Leafs
  <2>1. Hash[c.key] \in hs /\ KidHolds(c, d) = {c}
    BY <1>1, <1>5, KidHoldsFacts DEF Fits
  <2>2. CASE DeepEq(c.key, k)
    <3>1. c = Leaf(k)
      BY <1>5, <2>2, LeafIs DEF DeepEq
    <3>2. AddKid(c, k, d) = c
      BY <1>5, <2>2 DEF AddKid
    <3> QED BY <2>1, <3>1, <3>2 DEF AddedKid
  <2>3. CASE ~DeepEq(c.key, k) /\ d + 1 = Levels
    <3> DEFINE x == Collision(Hash[k], <<c, Leaf(k)>>)
    <3>1. AddKid(c, k, d) = x
      <4>1. d + 1 >= Levels
        BY <2>3, InnerFacts
      <4> QED BY <1>5, <2>3, <4>1 DEF AddKid
    <3>2. x \in Kids(d) /\ Fits(x, d, hs) /\ KidHolds(x, d) = {c, Leaf(k)}
      BY <1>2, <1>5, <2>1, <2>3, CollisionMade
    <3> QED BY <2>1, <3>1, <3>2 DEF AddedKid
  <2>4. CASE ~DeepEq(c.key, k) /\ d + 1 # Levels
    <3> DEFINE a == Alone(c, d + 1)
               x == Adds(k)[d + 1][a]
    <3>1. d + 1 \in Inner /\ ~(d + 1 >= Levels)
      <4>1. d \in Nat /\ d + 1 \in Inner /\ Levels \in Nat
        BY <2>4, InnerFacts
      <4> QED BY <4>1 DEF Inner
    <3>2. AddKid(c, k, d) = x
      BY <1>5, <2>4, <3>1 DEF AddKid
    <3>3. Good(a, d + 1, hs) /\ Holds(a, d + 1) = {c}
      BY <1>1, <1>5, <2>1, <3>1, AloneGood, AloneHolds
    <3> HIDE DEF a
    <3>4. Good(x, d + 1, hs) /\ Holds(x, d + 1) = {c} \cup {Leaf(k)}
      BY <3>1, <3>3 DEF AddRight
    <3> HIDE DEF x
    <3>5. x.tag = "node" /\ x \in Kids(d) /\ Fits(x, d, hs)
      BY <3>1, <3>4, SubNode DEF Good, Fits
    <3>6. KidHolds(x, d) = Holds(x, d + 1)
      BY <1>1, <3>5, KidHoldsFacts
    <3> QED BY <2>1, <3>2, <3>4, <3>5, <3>6 DEF AddedKid
  <2> QED BY <2>2, <2>3, <2>4
<1> QED BY <1>3, <1>4, <1>5, KidKinds

LEMMA AddStep ==
  ASSUME NEW d \in Inner, d + 1 \in Inner => AddRight(d + 1),
         NEW n, NEW hs, NEW k \in Keys, Good(n, d, hs), Path(hs, d), Hash[k] \in hs
  PROVE  /\ Good(Adds(k)[d][n], d, hs)
         /\ Holds(Adds(k)[d][n], d) = Holds(n, d) \cup {Leaf(k)}
<1> DEFINE m  == Adds(k)[d][n]
           f  == Fragment(Hash[k], d)
           gs == Below(hs, d, f)
           i  == Index(n.bits, f)
           c  == n.children[i]
<1>1. hs \in SUBSET Hashes /\ f \in Slots /\ gs \in SUBSET Hashes /\ Path(gs, d + 1) /\ Hash[k] \in gs
  BY SlotFacts
<1>2. m = AddIn(n, k, d, Adds(k)[d + 1])
  <2>1. d \in Depths /\ n \in Tries[d]
    BY InnerFacts DEF Good
  <2>2. Adds(k)[d] = [x \in Tries[d] |-> AddIn(x, k, d, Adds(k)[d + 1])]
    BY <2>1, AddsUnfolds
  <2> QED BY <2>1, <2>2
<1>3. /\ f \notin n.bits => m = Node(n.bits \cup {f}, InsertAt(n.children, i, Leaf(k)))
      /\ f \in n.bits => (AddKid(c, k, d) = c /\ m = n) \/ m = SetChild(n, i, AddKid(c, k, d))
  BY <1>2 DEF AddIn, AddKid
<1>4. Leaf(k) \in Leafs /\ Leaf(k).key = k
  BY LeafIs
<1>5. \A l : l \in Holds(n, d) <=> /\ Fragment(Hash[l.key], d) \in n.bits
                                   /\ l \in KidHolds(Child(n, Fragment(Hash[l.key], d)), d)
  BY <1>1, HoldsFacts
<1> HIDE DEF m
<1>6. CASE f \notin n.bits
  <2> DEFINE x == Leaf(k)
  <2>1. x \in Kids(d) /\ Fits(x, d, gs) /\ KidHolds(x, d) = {x} /\ f = Fragment(Hash[x.key], d)
    BY <1>1, <1>4, LeafHolds
  <2>2. m = Node(n.bits \cup {f}, InsertAt(n.children, Index(n.bits, f), x))
    BY <1>3, <1>6
  <2> HIDE DEF x, f, gs
  <2>3. Good(m, d, hs) /\ Swapped(m, n, f, d, KidHolds(x, d))
    BY <1>1, <1>6, <2>1, <2>2, SlotPut DEF gs
  <2>4. \A l : l \in Holds(m, d) <=> l \in Holds(n, d) \/ l = x
    BY <1>5, <1>6, <2>1, <2>3 DEF Swapped
  <2> QED BY <2>3, <2>4 DEF m, x
<1>7. CASE f \in n.bits
  <2>1. c = Child(n, f) /\ c \in Kids(d) /\ Fits(c, d, gs)
    BY <1>1, <1>7, KidFacts DEF Child
  <2> DEFINE x == AddKid(c, k, d)
  <2> HIDE DEF c
  <2>2. AddedKid(x, c, k, d, gs)
    BY <1>1, <2>1, AddKidFacts
  <2>3. f = Fragment(Hash[Leaf(k).key], d)
    BY <1>4
  <2>4. CASE x = c /\ m = n
    <3>1. Leaf(k) \in KidHolds(c, d)
      BY <2>2, <2>4 DEF AddedKid
    <3>2. Leaf(k) \in Holds(n, d)
      BY <1>5, <1>7, <2>1, <2>3, <3>1
    <3> QED BY <2>4, <3>2 DEF m
  <2>5. CASE m = SetChild(n, i, x)
    <3> HIDE DEF x, f, gs
    <3>1. Good(m, d, hs) /\ Swapped(m, n, f, d, KidHolds(x, d))
      BY <1>1, <1>7, <2>2, <2>5, SlotPut DEF AddedKid, gs
    <3>2. \A l : l \in KidHolds(x, d) <=> l \in KidHolds(c, d) \/ l = Leaf(k)
      BY <2>2 DEF AddedKid
    <3>3. \A l : l \in Holds(m, d) <=> l \in Holds(n, d) \/ l = Leaf(k)
      BY <1>5, <1>7, <2>1, <2>3, <3>1, <3>2 DEF Swapped
    <3> QED BY <3>1, <3>3 DEF m
  <2> QED BY <1>3, <1>7, <2>4, <2>5 DEF c
<1> QED BY <1>6, <1>7

LEMMA AddFacts ==
  \A d \in Inner : AddRight(d)
<1> DEFINE S == {d \in Inner : AddRight(d)}
<1>1. ASSUME NEW d \in Inner, d + 1 \in Inner => d + 1 \in S PROVE d \in S
  BY <1>1, AddStep DEF AddRight
<1>2. \A d \in Inner : d \in S
  <2> HIDE DEF S
  <2> QED BY <1>1, Upward, Zenon
<1> QED BY <1>2

-----------------------------------------------------------------------------
(* Removing a key                                                          *)

\* What is left of some leaves: all but the key's, which stays only if it is a NaN's.
Less(new, old, k) ==
  /\ new \subseteq old /\ old \ {Leaf(k)} \subseteq new
  /\ k \notin Nans => Leaf(k) \notin new

RemoveRight(d) ==
  \A n, hs : \A k \in Keys :
    Good(n, d, hs) /\ Path(hs, d) /\ Hash[k] \in hs =>
      Good(Removes(k)[d][n], d, hs) /\ Less(Holds(Removes(k)[d][n], d), Holds(n, d), k)

LEMMA DropLeafFacts ==
  ASSUME NEW d \in Inner, NEW hs \in SUBSET Hashes, NEW c \in Collisions, Fits(c, d, hs),
         NEW k \in Keys, NEW j, j = FindKey(c.leaves, k)
  PROVE  /\ j = 0 => Less(KidHolds(c, d), KidHolds(c, d), k)
         /\ j # 0 => /\ DropLeaf(c, j) \in Kids(d) /\ Fits(DropLeaf(c, j), d, hs)
                     /\ Less(KidHolds(DropLeaf(c, j), d), KidHolds(c, d), k)
<1> DEFINE ls == c.leaves
           x  == DropLeaf(c, j)
<1>1. ls \in Seq(Leafs) /\ KidHolds(c, d) = Range(ls) /\ Once(ls)
  BY CollisionIs
<1>2. \A l : l \in KidHolds(c, d) <=> \E i \in 1 .. Len(ls) : l = ls[i]
  BY <1>1, RangeFacts
<1>3. Leaf(k).key = k /\ \A i \in 1 .. Len(ls) : ls[i] \in Leafs /\ ls[i] = Leaf(ls[i].key)
  BY <1>1, LeafIs
<1>4. CASE j = 0
  <2>1. \A i \in 1 .. Len(ls) : ~DeepEq(ls[i].key, k)
    BY <1>1, <1>4, FindKeyFacts
  <2>2. k \notin Nans => \A i \in 1 .. Len(ls) : ls[i] # Leaf(k)
    BY <1>3, <2>1 DEF DeepEq
  <2> QED BY <1>2, <1>4, <2>2 DEF Less
<1>5. CASE j # 0
  <2>1. j \in 1 .. Len(ls) /\ DeepEq(ls[j].key, k)
    BY <1>1, <1>5, FindKeyFacts
  <2>2. x \in Kids(d) /\ Fits(x, d, hs) /\ KidHolds(x, d) = AllBut(ls, j)
    <3>1. j \in 1 .. Len(c.leaves) /\ x = DropLeaf(c, j)
      BY <2>1
    <3> HIDE DEF x
    <3> QED BY <3>1, CollisionLess
  <2> HIDE DEF x
  <2>3. ls[j] = Leaf(k)
    BY <1>3, <2>1 DEF DeepEq
  <2>4. \A i \in 1 .. Len(ls) : i # j => ls[i] # Leaf(k)
    BY <1>1, <1>3, <2>1 DEF Once, DeepEq
  <2> HIDE DEF ls
  <2>5. Less(KidHolds(x, d), KidHolds(c, d), k)
    BY <1>2, <2>1, <2>2, <2>3, <2>4 DEF Less, AllBut
  <2> QED BY <1>5, <2>2, <2>5 DEF x
<1> QED BY <1>4, <1>5

LEMMA RemoveStep ==
  ASSUME NEW d \in Inner, d + 1 \in Inner => RemoveRight(d + 1),
         NEW n, NEW hs, NEW k \in Keys, Good(n, d, hs), Path(hs, d), Hash[k] \in hs
  PROVE  Good(Removes(k)[d][n], d, hs) /\ Less(Holds(Removes(k)[d][n], d), Holds(n, d), k)
<1> DEFINE m  == Removes(k)[d][n]
           f  == Fragment(Hash[k], d)
           gs == Below(hs, d, f)
           i  == Index(n.bits, f)
           c  == n.children[i]
           j  == FindKey(c.leaves, k)
<1>1. /\ hs \in SUBSET Hashes /\ f \in Slots /\ gs \in SUBSET Hashes /\ Path(gs, d + 1) /\ Hash[k] \in gs
      /\ Leaf(k).key = k /\ Leaf(k) \in Leafs
  BY SlotFacts, LeafIs
<1>2. m = RemoveIn(n, k, d, Removes(k)[d + 1])
  <2>1. d \in Depths /\ n \in Tries[d]
    BY InnerFacts DEF Good
  <2>2. Removes(k)[d] = [x \in Tries[d] |-> RemoveIn(x, k, d, Removes(k)[d + 1])]
    BY <2>1, RemovesUnfolds
  <2> QED BY <2>1, <2>2
<1>3. \A l : l \in Holds(n, d) <=> /\ Fragment(Hash[l.key], d) \in n.bits
                                   /\ l \in KidHolds(Child(n, Fragment(Hash[l.key], d)), d)
  BY <1>1, HoldsFacts
\* Nothing changes where nothing is found, and a changed child takes its leaves along.
<1>4. ASSUME f \notin n.bits \/ (f \in n.bits /\ (k \notin Nans => Leaf(k) \notin KidHolds(Child(n, f), d)))
      PROVE  Less(Holds(n, d), Holds(n, d), k)
  BY <1>1, <1>3, <1>4 DEF Less
<1>5. ASSUME f \in n.bits, NEW x \in Kids(d), Fits(x, d, gs), Less(KidHolds(x, d), KidHolds(Child(n, f), d), k),
             m = SetChild(n, i, x)
      PROVE  Good(m, d, hs) /\ Less(Holds(m, d), Holds(n, d), k)
  <2> HIDE DEF m, f, gs
  <2>1. Good(m, d, hs) /\ Swapped(m, n, f, d, KidHolds(x, d))
    BY <1>1, <1>5, SlotPut DEF gs
  <2>2. Fragment(Hash[Leaf(k).key], d) = f
    BY <1>1 DEF f
  <2>3. \A l : Fragment(Hash[l.key], d) = f => (l \in Holds(n, d) <=> l \in KidHolds(Child(n, f), d))
    BY <1>3, <1>5
  <2> QED BY <1>5, <2>1, <2>2, <2>3 DEF Less, Swapped
<1>6. CASE f \notin n.bits
  <2>1. m = n
    BY <1>2, <1>6 DEF RemoveIn
  <2> HIDE DEF m
  <2>2. Less(Holds(n, d), Holds(n, d), k)
    BY <1>4, <1>6
  <2> QED BY <2>1, <2>2 DEF m
<1>7. CASE f \in n.bits
  <2>1. c = Child(n, f) /\ c \in Kids(d) /\ Fits(c, d, gs)
    BY <1>1, <1>7, KidFacts DEF Child
  <2>2. CASE c.tag = "node" /\ c \in Tries[d + 1] /\ d + 1 \in Inner
    <3> DEFINE x == Removes(k)[d + 1][c]
    <3>1. m = SetChild(n, i, x)
      BY <1>2, <1>7, <2>2 DEF RemoveIn
    <3>2. Good(c, d + 1, gs)
      BY <2>1, <2>2 DEF Fits, Good
    <3> HIDE DEF m, f, gs, c
    <3>3. Good(x, d + 1, gs) /\ Less(Holds(x, d + 1), Holds(c, d + 1), k)
      BY <1>1, <2>2, <3>2 DEF RemoveRight
    <3> HIDE DEF x
    <3>4. x.tag = "node" /\ x \in Kids(d) /\ Fits(x, d, gs)
      BY <2>2, <3>3, SubNode DEF Good, Fits
    <3>5. KidHolds(x, d) = Holds(x, d + 1) /\ KidHolds(c, d) = Holds(c, d + 1)
      BY <1>1, <2>1, <2>2, <3>4, KidHoldsFacts
    <3>6. Less(KidHolds(x, d), KidHolds(Child(n, f), d), k)
      BY <2>1, <3>3, <3>5
    <3>7. Good(m, d, hs) /\ Less(Holds(m, d), Holds(n, d), k)
      BY <1>5, <1>7, <3>1, <3>4, <3>6
    <3> QED BY <3>7 DEF m
  <2>3. CASE c.tag = "collision" /\ c \in Collisions
    <3>1. /\ j = 0 => Less(KidHolds(c, d), KidHolds(c, d), k)
          /\ j # 0 => /\ DropLeaf(c, j) \in Kids(d) /\ Fits(DropLeaf(c, j), d, gs)
                      /\ Less(KidHolds(DropLeaf(c, j), d), KidHolds(c, d), k)
      <4> HIDE DEF gs, c
      <4> QED BY <1>1, <2>1, <2>3, DropLeafFacts
    <3>2. m = IF j = 0 THEN n ELSE SetChild(n, i, DropLeaf(c, j))
      BY <1>2, <1>7, <2>3 DEF RemoveIn
    <3> HIDE DEF m, f, gs, c, j
    <3>3. CASE j = 0
      <4>1. Less(Holds(n, d), Holds(n, d), k)
        BY <1>4, <1>7, <2>1, <3>1, <3>3 DEF Less
      <4> QED BY <3>2, <3>3, <4>1 DEF m
    <3>4. CASE j # 0
      <4>1. Good(m, d, hs) /\ Less(Holds(m, d), Holds(n, d), k)
        BY <1>5, <1>7, <2>1, <3>1, <3>2, <3>4
      <4> QED BY <4>1 DEF m
    <3> QED BY <3>3, <3>4
  <2>4. CASE c.tag = "leaf" /\ c \in Leafs
    <3>1. m = IF c.key = k THEN DropSlot(n, f, i) ELSE n
      BY <1>2, <1>7, <2>4 DEF RemoveIn
    <3>2. KidHolds(Child(n, f), d) = {c}
      <4> HIDE DEF gs, c, f
      <4> QED BY <1>1, <2>1, <2>4, KidHoldsFacts
    <3>3. c = Leaf(c.key)
      BY <2>4, LeafIs
    <3> HIDE DEF c, m, gs
    <3>4. CASE c.key = k
      <4> DEFINE ff == f
      <4>1. m = DropSlot(n, ff, Index(n.bits, ff)) /\ ff \in n.bits
        BY <1>7, <3>1, <3>4
      <4>2. ff = Fragment(Hash[Leaf(k).key], d) /\ KidHolds(Child(n, ff), d) = {Leaf(k)}
        BY <1>1, <3>2, <3>3, <3>4
      <4> HIDE DEF ff
      <4>3. Good(m, d, hs) /\ Swapped(m, n, ff, d, {})
        BY <1>1, <4>1, SlotCleared
      <4>4. \A l : Fragment(Hash[l.key], d) = ff => (l \in Holds(n, d) => l = Leaf(k))
        BY <1>3, <4>2
      <4>5. Less(Holds(m, d), Holds(n, d), k)
        BY <4>2, <4>3, <4>4 DEF Less, Swapped
      <4> QED BY <4>3, <4>5 DEF m
    <3>5. CASE c.key # k
      <4>1. Leaf(k) # c
        BY <1>1, <3>5
      <4>2. Less(Holds(n, d), Holds(n, d), k)
        BY <1>4, <1>7, <3>2, <4>1
      <4> QED BY <3>1, <3>5, <4>2 DEF m
    <3> QED BY <3>4, <3>5
  <2> HIDE DEF c
  <2> QED BY <2>1, <2>2, <2>3, <2>4, KidKinds
<1> QED BY <1>6, <1>7

LEMMA RemovingFacts ==
  \A d \in Inner : RemoveRight(d)
<1> DEFINE S == {d \in Inner : RemoveRight(d)}
<1>1. ASSUME NEW d \in Inner, d + 1 \in Inner => d + 1 \in S PROVE d \in S
  BY <1>1, RemoveStep DEF RemoveRight
<1>2. \A d \in Inner : d \in S
  <2> HIDE DEF S
  <2> QED BY <1>1, Upward, Zenon
<1> QED BY <1>2

-----------------------------------------------------------------------------
(* Looking a key up, and the first one                                     *)

\* A lookup finds the leaves there are, but no NaN.
HasRight(d) ==
  \A n, hs : \A k \in Keys :
    Good(n, d, hs) /\ Path(hs, d) /\ Hash[k] \in hs =>
      (Looks(k)[d][n] <=> k \notin Nans /\ Leaf(k) \in Holds(n, d))

LEMMA HasStep ==
  ASSUME NEW d \in Inner, d + 1 \in Inner => HasRight(d + 1),
         NEW n, NEW hs, NEW k \in Keys, Good(n, d, hs), Path(hs, d), Hash[k] \in hs
  PROVE  Looks(k)[d][n] <=> k \notin Nans /\ Leaf(k) \in Holds(n, d)
<1> DEFINE f  == Fragment(Hash[k], d)
           gs == Below(hs, d, f)
           c  == n.children[Index(n.bits, f)]
           found == k \notin Nans /\ Leaf(k) \in KidHolds(c, d)
<1>1. /\ hs \in SUBSET Hashes /\ f \in Slots /\ gs \in SUBSET Hashes /\ Path(gs, d + 1) /\ Hash[k] \in gs
      /\ Leaf(k).key = k /\ Leaf(k) \in Leafs
  BY SlotFacts, LeafIs
<1>2. Looks(k)[d][n] = HasIn(n, k, d, Looks(k)[d + 1])
  <2>1. d \in Depths /\ n \in Tries[d]
    BY InnerFacts DEF Good
  <2>2. Looks(k)[d] = [x \in Tries[d] |-> HasIn(x, k, d, Looks(k)[d + 1])]
    BY <2>1, LooksUnfolds
  <2> QED BY <2>1, <2>2
<1>3. Leaf(k) \in Holds(n, d) <=> f \in n.bits /\ Leaf(k) \in KidHolds(c, d)
  <2>1. \A l : l \in Holds(n, d) <=> /\ Fragment(Hash[l.key], d) \in n.bits
                                     /\ l \in KidHolds(Child(n, Fragment(Hash[l.key], d)), d)
    BY <1>1, HoldsFacts
  <2> QED BY <1>1, <2>1 DEF Child
<1>4. CASE f \notin n.bits
  BY <1>2, <1>3, <1>4 DEF HasIn
<1>5. CASE f \in n.bits
  <2>1. c \in Kids(d) /\ Fits(c, d, gs)
    BY <1>1, <1>5, KidFacts DEF Child
  <2>2. CASE c.tag = "node" /\ c \in Tries[d + 1] /\ d + 1 \in Inner
    <3>1. Looks(k)[d][n] <=> Looks(k)[d + 1][c]
      BY <1>2, <1>5, <2>2 DEF HasIn
    <3>2. Good(c, d + 1, gs)
      BY <2>1, <2>2 DEF Fits, Good
    <3> HIDE DEF c, gs
    <3>3. Looks(k)[d + 1][c] <=> k \notin Nans /\ Leaf(k) \in Holds(c, d + 1)
      BY <1>1, <2>2, <3>2 DEF HasRight
    <3>4. KidHolds(c, d) = Holds(c, d + 1)
      BY <1>1, <2>1, <2>2, KidHoldsFacts
    <3> QED BY <1>3, <1>5, <3>1, <3>3, <3>4
  <2>3. CASE c.tag = "collision" /\ c \in Collisions
    <3> DEFINE j == FindKey(c.leaves, k)
    <3>1. Looks(k)[d][n] <=> j # 0
      BY <1>2, <1>5, <2>3 DEF HasIn
    <3> HIDE DEF c, gs
    <3>2. c.leaves \in Seq(Leafs) /\ KidHolds(c, d) = Range(c.leaves)
      BY <1>1, <2>1, <2>3, CollisionIs
    <3>3. Leaf(k) \in KidHolds(c, d) <=> \E i \in 1 .. Len(c.leaves) : Leaf(k) = c.leaves[i]
      BY <3>2, RangeFacts
    <3>4. \A i \in 1 .. Len(c.leaves) : c.leaves[i] \in Leafs /\ c.leaves[i] = Leaf(c.leaves[i].key)
      BY <3>2, LeafIs
    <3>5. /\ j \in 0 .. Len(c.leaves)
          /\ j = 0 => \A i \in 1 .. Len(c.leaves) : ~DeepEq(c.leaves[i].key, k)
          /\ j # 0 => DeepEq(c.leaves[j].key, k)
      BY <3>2, FindKeyFacts
    <3> HIDE DEF j
    <3>6. ASSUME j # 0 PROVE k \notin Nans /\ Leaf(k) \in KidHolds(c, d)
      <4>1. j \in 1 .. Len(c.leaves) /\ c.leaves[j].key = k /\ k \notin Nans
        BY <3>2, <3>5, <3>6 DEF DeepEq
      <4> QED BY <3>3, <3>4, <4>1
    <3>7. ASSUME k \notin Nans, Leaf(k) \in KidHolds(c, d) PROVE j # 0
      BY <1>1, <3>3, <3>5, <3>7 DEF DeepEq
    <3> QED BY <1>3, <1>5, <3>1, <3>6, <3>7 DEF j
  <2>4. CASE c.tag = "leaf" /\ c \in Leafs
    <3>1. Looks(k)[d][n] <=> DeepEq(c.key, k)
      BY <1>2, <1>5, <2>4 DEF HasIn
    <3> HIDE DEF c, gs
    <3>2. KidHolds(c, d) = {c} /\ c = Leaf(c.key)
      BY <1>1, <2>1, <2>4, KidHoldsFacts, LeafIs
    <3>3. DeepEq(c.key, k) <=> k \notin Nans /\ Leaf(k) = c
      BY <1>1, <3>2 DEF DeepEq
    <3> QED BY <1>3, <1>5, <3>1, <3>2, <3>3
  <2> HIDE DEF c
  <2> QED BY <2>1, <2>2, <2>3, <2>4, KidKinds
<1> QED BY <1>4, <1>5

LEMMA HasFacts ==
  \A d \in Inner : HasRight(d)
<1> DEFINE S == {d \in Inner : HasRight(d)}
<1>1. ASSUME NEW d \in Inner, d + 1 \in Inner => d + 1 \in S PROVE d \in S
  BY <1>1, HasStep DEF HasRight
<1>2. \A d \in Inner : d \in S
  <2> HIDE DEF S
  <2> QED BY <1>1, Upward, Zenon
<1> QED BY <1>2

\* The first key, if the walk finds one, is a key that is there.
FirstRight(d) ==
  \A n, hs : Good(n, d, hs) /\ hs \in SUBSET Hashes /\ FirstKeys[d][n] # Trap =>
    FirstKeys[d][n] \in Keys /\ Leaf(FirstKeys[d][n]) \in Holds(n, d)

LEMMA FirstStep ==
  ASSUME NEW d \in Inner, d + 1 \in Inner => FirstRight(d + 1),
         NEW n, NEW hs \in SUBSET Hashes, Good(n, d, hs), FirstKeys[d][n] # Trap
  PROVE  FirstKeys[d][n] \in Keys /\ Leaf(FirstKeys[d][n]) \in Holds(n, d)
<1> DEFINE k == FirstKeys[d][n]
           c == n.children[1]
<1>1. k = FirstKeyIn(n, FirstKeys[d + 1])
  <2>1. d \in Depths /\ n \in Tries[d]
    BY InnerFacts DEF Good
  <2>2. FirstKeys[d] = [x \in Tries[d] |-> FirstKeyIn(x, FirstKeys[d + 1])]
    BY <2>1, FirstKeysUnfolds
  <2> QED BY <2>1, <2>2
<1>2. n.children # <<>>
  BY <1>1 DEF FirstKeyIn
<1>3. PICK f \in n.bits : Index(n.bits, f) = 1
  <2>1. Shaped(n, Kids(d))
    BY GoodFacts
  <2>2. /\ n.bits \in SUBSET Slots /\ n.children \in Seq(Kids(d)) /\ Len(n.children) = Cardinality(n.bits)
    BY <2>1 DEF Shaped
  <2>3. 1 \in 1 .. Cardinality(n.bits)
    BY <1>2, <2>2
  <2> QED BY <2>2, <2>3, IndexOnto
<1>4. c = Child(n, f) /\ c \in Kids(d) /\ Fits(c, d, Below(hs, d, f)) /\ Below(hs, d, f) \in SUBSET Hashes
  BY <1>3, KidFacts DEF Child
<1>5. \A l : l \in KidHolds(c, d) => l \in Holds(n, d)
  <2>1. \A l : l \in Holds(n, d) <=> \E g \in n.bits : l \in KidHolds(Child(n, g), d)
    BY LeavesFacts, LeavesJoined
  <2> QED BY <1>4, <2>1
<1>6. CASE c.tag = "node" /\ c \in Tries[d + 1] /\ d + 1 \in Inner
  <2>1. k = FirstKeys[d + 1][c]
    BY <1>1, <1>2, <1>6 DEF FirstKeyIn
  <2>2. Good(c, d + 1, Below(hs, d, f))
    BY <1>4, <1>6 DEF Fits, Good
  <2>3. KidHolds(c, d) = Holds(c, d + 1)
    BY <1>4, <1>6, KidHoldsFacts
  <2> HIDE DEF c
  <2>4. k \in Keys /\ Leaf(k) \in Holds(c, d + 1)
    BY <1>4, <1>6, <2>1, <2>2 DEF FirstRight
  <2> QED BY <1>5, <2>3, <2>4
<1>7. CASE c.tag = "collision" /\ c \in Collisions
  <2>1. k = c.leaves[1].key
    BY <1>1, <1>2, <1>7 DEF FirstKeyIn
  <2> HIDE DEF c, k
  <2>2. c.leaves \in Seq(Leafs) /\ Len(c.leaves) \in Nat /\ Len(c.leaves) > 1 /\ KidHolds(c, d) = Range(c.leaves)
    BY <1>4, <1>7, CollisionIs
  <2>3. 1 \in 1 .. Len(c.leaves)
    BY <2>2
  <2>4. c.leaves[1] \in Leafs /\ c.leaves[1] \in Range(c.leaves)
    BY <2>2, <2>3, RangeFacts
  <2>5. k \in Keys /\ Leaf(k) = c.leaves[1]
    BY <2>1, <2>4, LeafIs
  <2> QED BY <1>5, <2>2, <2>4, <2>5 DEF k
<1>8. CASE c.tag = "leaf" /\ c \in Leafs
  <2>1. k = c.key
    BY <1>1, <1>2, <1>8 DEF FirstKeyIn
  <2> HIDE DEF c, k
  <2>2. KidHolds(c, d) = {c}
    BY <1>4, <1>8, KidHoldsFacts
  <2>3. k \in Keys /\ Leaf(k) = c
    BY <1>8, <2>1, LeafIs
  <2> QED BY <1>5, <2>2, <2>3 DEF k
<1> HIDE DEF c
<1> QED BY <1>4, <1>6, <1>7, <1>8, KidKinds

LEMMA FirstFacts ==
  \A d \in Inner : FirstRight(d)
<1> DEFINE S == {d \in Inner : FirstRight(d)}
<1>1. ASSUME NEW d \in Inner, d + 1 \in Inner => d + 1 \in S PROVE d \in S
  BY <1>1, FirstStep DEF FirstRight
<1>2. \A d \in Inner : d \in S
  <2> HIDE DEF S
  <2> QED BY <1>1, Upward, Zenon
<1> QED BY <1>2

-----------------------------------------------------------------------------
(* The operators on the elements of tries                                  *)

IsTrie(n) == Good(n, 0, Hashes)

LEMMA ElementsFacts ==
  ASSUME NEW n, IsTrie(n)
  PROVE  /\ Leaves(n) \in Seq(Leafs) /\ Len(Leaves(n)) \in Nat /\ Once(Leaves(n))
         /\ \A k : k \in Elements(n) <=> k \in Keys /\ Leaf(k) \in Holds(n, 0)
         /\ \A k : k \in Elements(n) <=> \E i \in 1 .. Len(Leaves(n)) : Leaves(n)[i].key = k
         /\ \A i \in 1 .. Len(Leaves(n)) : Leaves(n)[i].key \in Elements(n)
         /\ Elements(n) \in SUBSET Keys
<1> DEFINE ls == Leaves(n)
<1>1. ls \in Seq(Leafs) /\ Len(ls) \in Nat /\ Once(ls)
  <2>1. Walked(ls, Hashes)
    BY EmptyGood, LeavesFacts DEF LeavesRight, Leaves, IsTrie
  <2> QED BY <2>1 DEF Walked
<1>2. \A l : l \in Range(ls) <=> \E i \in 1 .. Len(ls) : l = ls[i]
  BY <1>1, RangeFacts
<1>3. Holds(n, 0) = Range(ls)
  BY DEF Holds, Leaves
<1>4. \A k : k \in Elements(n) <=> \E l \in Range(ls) : l.key = k
  BY DEF Elements
<1> HIDE DEF ls
<1>5. \A l \in Range(ls) : l \in Leafs /\ l.key \in Keys /\ l = Leaf(l.key)
  BY <1>1, <1>2, LeafIs
<1>6. \A k \in Keys : Leaf(k).key = k
  BY LeafIs
<1>7. \A k : k \in Elements(n) <=> k \in Keys /\ Leaf(k) \in Holds(n, 0)
  BY <1>3, <1>4, <1>5, <1>6
<1>8. \A k : k \in Elements(n) <=> \E i \in 1 .. Len(ls) : ls[i].key = k
  BY <1>2, <1>4
<1> QED BY <1>1, <1>7, <1>8 DEF ls

LEMMA EmptyFacts ==
  IsTrie(Empty) /\ Elements(Empty) = {}
BY EmptyGood, EmptyHolds, ElementsFacts DEF IsTrie

\* A comparison that traps is with a key that is there.
LEMMA ClashFacts ==
  ASSUME NEW n, IsTrie(n), NEW k \in Keys, Clashes(n, k)
  PROVE  Uncastable(Elements(n), {k})
<1>1. PICK l \in Range(Compares(k)[0][n]) : CastFails(l, k)
  BY DEF Clashes
<1>2. Stored(Compares(k)[0][n], n, 0)
  BY EmptyGood, ComparedFacts DEF ComparedRight, IsTrie
<1>3. PICK e \in Holds(n, 0) : e.key = l
  BY <1>1, <1>2 DEF Stored
<1>4. e \in Leafs
  BY EmptyGood, HoldsFacts DEF IsTrie
<1>5. l \in Keys /\ Leaf(l) = e
  BY <1>3, <1>4, LeafIs
<1>6. l \in Elements(n)
  BY <1>3, <1>5, ElementsFacts
<1> QED BY <1>1, <1>6 DEF Uncastable

LEMMA TrieIsNoTrap ==
  ASSUME NEW n, IsTrie(n)
  PROVE  n # Trap
BY SetAssumption DEF IsTrie, Good

LEMMA AddedFacts ==
  ASSUME NEW n, IsTrie(n), NEW k \in Keys
  PROVE  /\ Add(n, k) = Trap => Uncastable(Elements(n), {k})
         /\ Add(n, k) # Trap => IsTrie(Add(n, k)) /\ Elements(Add(n, k)) = Elements(n) \cup {k}
<1> DEFINE m == Adds(k)[0][n]
<1>1. IsTrie(m) /\ Holds(m, 0) = Holds(n, 0) \cup {Leaf(k)}
  BY EmptyGood, AddFacts DEF AddRight, IsTrie
<1>2. \A i, j \in Keys : Leaf(i) = Leaf(j) => i = j
  BY LeafIs
<1>3. n # Trap /\ Add(n, k) = IF Clashes(n, k) THEN Trap ELSE m
  BY TrieIsNoTrap DEF Add
<1> HIDE DEF m
<1>4. \A i : i \in Elements(m) <=> i \in Elements(n) \/ i = k
  BY <1>1, <1>2, ElementsFacts
<1>5. m # Trap
  BY <1>1, TrieIsNoTrap
<1>6. Add(n, k) = Trap => Uncastable(Elements(n), {k})
  BY <1>3, <1>5, ClashFacts
<1> QED BY <1>1, <1>3, <1>4, <1>6

LEMMA RemovedFacts ==
  ASSUME NEW n, IsTrie(n), NEW k \in Keys
  PROVE  /\ IsTrie(RemoveKey(n, k))
         /\ k \notin Nans => Elements(RemoveKey(n, k)) = Elements(n) \ {k}
<1>1. IsTrie(RemoveKey(n, k)) /\ Less(Holds(RemoveKey(n, k), 0), Holds(n, 0), k)
  BY EmptyGood, RemovingFacts DEF RemoveRight, RemoveKey, IsTrie
<1>2. \A i, j \in Keys : Leaf(i) = Leaf(j) => i = j
  BY LeafIs
<1>3. k \notin Nans => \A i : i \in Elements(RemoveKey(n, k)) <=> i \in Elements(n) /\ i # k
  BY <1>1, <1>2, ElementsFacts DEF Less
<1> QED BY <1>1, <1>3

LEMMA FoundFacts ==
  ASSUME NEW n, IsTrie(n)
  PROVE  /\ \A k \in Keys : Has(n, k) <=> k \notin Nans /\ k \in Elements(n)
         /\ PickFirstKey(n) # Trap => PickFirstKey(n) \in Elements(n)
<1>1. \A k \in Keys : Has(n, k) <=> k \notin Nans /\ Leaf(k) \in Holds(n, 0)
  BY EmptyGood, HasFacts DEF HasRight, Has, IsTrie
<1>2. PickFirstKey(n) # Trap => PickFirstKey(n) \in Keys /\ Leaf(PickFirstKey(n)) \in Holds(n, 0)
  BY EmptyGood, FirstFacts DEF FirstRight, PickFirstKey, IsTrie
<1> QED BY <1>1, <1>2, ElementsFacts

\* With no NaN, a walk meets every element once.
LEMMA SizeFacts ==
  ASSUME Nans = {}, NEW n, IsTrie(n)
  PROVE  IsFiniteSet(Elements(n)) /\ SetSize(n) = Cardinality(Elements(n))
<1> DEFINE ls == Leaves(n)
           T  == 1 .. Len(ls)
           D  == Elements(n)
           F  == [i \in T |-> ls[i].key]
<1>1. /\ Len(ls) \in Nat /\ \A i, j \in T : ls[i].key = ls[j].key => i = j
      /\ \A k : k \in D <=> \E i \in T : ls[i].key = k
  BY ElementsFacts DEF Once, DeepEq
<1>2. SetSize(n) = Len(ls)
  BY DEF SetSize
<1>3. IsFiniteSet(T) /\ Cardinality(T) = Len(ls)
  <2>1. \A len \in Nat : IsFiniteSet(1 .. len) /\ Cardinality(1 .. len) = len
    BY FS_Interval
  <2> QED BY <1>1, <2>1
<1> HIDE DEF ls, D, T
<1>4. F \in [T -> D] /\ (\A k \in D : \E i \in T : F[i] = k) /\ \A i, j \in T : F[i] = F[j] => i = j
  BY <1>1
<1> HIDE DEF F
<1>5. F \in Bijection(T, D)
  BY <1>4 DEF Bijection, Injection, Surjection, IsInjective
<1>6. ExistsBijection(T, D)
  BY <1>5 DEF ExistsBijection
<1> QED BY <1>2, <1>3, <1>6, FS_Bijection DEF D

\* Some two of the keys, in one order, do not compare.
Unfit(s) == Uncastable(s, s)

\* What an operator makes: a trie of the elements s, or a trap over the keys of t.
Makes(g, s, t) ==
  /\ g = Trap => Unfit(t)
  /\ g # Trap => IsTrie(g) /\ Elements(g) = s

LEMMA GatherFacts ==
  ASSUME NEW dest, IsTrie(dest), NEW src, IsTrie(src), NEW picked
  PROVE  Makes(Gather(dest, src, picked), Elements(dest) \cup (Elements(src) \cap picked),
               Elements(dest) \cup Elements(src))
<1> DEFINE ls == Leaves(src)
           U  == Elements(dest) \cup Elements(src)
<1>1. /\ Len(ls) \in Nat
      /\ \A k : k \in Elements(src) <=> \E i \in 1 .. Len(ls) : ls[i].key = k
      /\ \A i \in 1 .. Len(ls) : ls[i].key \in Keys
  BY ElementsFacts
<1>2. PICK f : /\ Gather(dest, src, picked) = f[Len(ls)]
               /\ \A i \in 0 .. Len(ls) : f[i] = CASE i = 0 -> dest
                                                   [] i # 0 /\ ls[i].key \in picked -> Add(f[i - 1], ls[i].key)
                                                   [] OTHER -> f[i - 1]
  BY <1>1, GatherUnfolds
<1> HIDE DEF ls
<1> DEFINE Seen(i, k) == \E j \in 1 .. i : ls[j].key = k
           P(i) == \/ f[i] = Trap /\ Unfit(U)
                   \/ /\ f[i] # Trap /\ IsTrie(f[i])
                      /\ \A k : k \in Elements(f[i]) <=> k \in Elements(dest) \/ (k \in picked /\ Seen(i, k))
           S == {i \in Nat : i <= Len(ls) => P(i)}
<1>3. 0 \in S
  <2>1. f[0] = dest /\ (\A k : ~Seen(0, k)) /\ dest # Trap
    BY <1>1, <1>2, TrieIsNoTrap
  <2> QED BY <2>1
<1>4. ASSUME NEW i \in Nat, i \in S PROVE i + 1 \in S
  <2> SUFFICES ASSUME i + 1 <= Len(ls) PROVE P(i + 1)
    OBVIOUS
  <2> DEFINE e == ls[i + 1].key
  <2>1. i + 1 \in 1 .. Len(ls) /\ i + 1 \in 0 .. Len(ls) /\ i + 1 # 0 /\ (i + 1) - 1 = i /\ i <= Len(ls)
    BY <1>1
  <2>2. P(i) /\ e \in Keys /\ e \in Elements(src)
    BY <1>1, <1>4, <2>1
  <2>3. /\ \A k : Seen(i + 1, k) <=> Seen(i, k) \/ k = e
        /\ \A k : Seen(i, k) => k \in Elements(src)
    <3>1. \A j \in 1 .. i + 1 : j \in 1 .. i \/ j = i + 1
      OBVIOUS
    <3>2. i + 1 \in 1 .. i + 1 /\ \A j \in 1 .. i : j \in 1 .. i + 1
      OBVIOUS
    <3>3. \A j \in 1 .. i : j \in 1 .. Len(ls)
      BY <1>1, <2>1
    <3> QED BY <1>1, <3>1, <3>2, <3>3
  <2>4. f[i + 1] = IF e \in picked THEN Add(f[i], e) ELSE f[i]
    BY <1>2, <2>1
  <2> HIDE DEF e, Seen
  <2>5. CASE f[i] = Trap
    <3>1. f[i + 1] = Trap /\ Unfit(U)
      BY <2>2, <2>4, <2>5 DEF Add
    <3> QED BY <3>1
  <2>6. CASE f[i] # Trap /\ e \in picked
    <3>1. /\ IsTrie(f[i]) /\ f[i + 1] = Add(f[i], e)
          /\ \A k : k \in Elements(f[i]) => k \in U
      BY <2>2, <2>3, <2>4, <2>6
    <3>2. CASE f[i + 1] = Trap
      <4>1. Uncastable(Elements(f[i]), {e})
        BY <2>2, <3>1, <3>2, AddedFacts
      <4>2. e \in U
        BY <2>2
      <4> HIDE DEF U
      <4>3. Unfit(U)
        BY <3>1, <4>1, <4>2 DEF Unfit, Uncastable
      <4> QED BY <3>2, <4>3
    <3>3. CASE f[i + 1] # Trap
      <4>1. IsTrie(f[i + 1]) /\ Elements(f[i + 1]) = Elements(f[i]) \cup {e}
        BY <2>2, <3>1, <3>3, AddedFacts
      <4> QED BY <2>2, <2>3, <2>6, <3>3, <4>1
    <3> QED BY <3>2, <3>3
  <2>7. CASE f[i] # Trap /\ e \notin picked
    BY <2>2, <2>3, <2>4, <2>7
  <2> QED BY <2>5, <2>6, <2>7
<1>5. Len(ls) \in S
  <2> HIDE DEF S
  <2> QED BY <1>1, <1>3, <1>4, Induction, Zenon
<1>6. P(Len(ls))
  BY <1>1, <1>5
<1>7. \A k : Seen(Len(ls), k) <=> k \in Elements(src)
  BY <1>1
<1> HIDE DEF Seen, U
<1>8. CASE f[Len(ls)] = Trap
  BY <1>2, <1>6, <1>8 DEF U, Makes
<1>9. CASE f[Len(ls)] # Trap
  BY <1>2, <1>6, <1>7, <1>9 DEF Makes
<1> QED BY <1>8, <1>9

\* A walk that traps looks up, in b, some key of a.
LEMMA WalkTrapsFacts ==
  ASSUME NEW a, IsTrie(a), NEW b, IsTrie(b), NEW deciding, WalkTraps(a, b, deciding)
  PROVE  Uncastable(Elements(b), Elements(a))
<1>1. PICK i \in DOMAIN Leaves(a) : Clashes(b, Leaves(a)[i].key)
  BY DEF WalkTraps
<1>2. Leaves(a)[i].key \in Elements(a) /\ Leaves(a)[i].key \in Keys
  BY <1>1, ElementsFacts
<1>3. Uncastable(Elements(b), {Leaves(a)[i].key})
  BY <1>1, <1>2, ClashFacts
<1> QED BY <1>2, <1>3 DEF Uncastable

\* What some keys of a make, added to the empty set one by one behind a walk through b.
LEMMA PickedFacts ==
  ASSUME NEW a, IsTrie(a), NEW b, IsTrie(b), NEW picked, NEW r,
         r = IF WalkTraps(a, b, {}) THEN Trap ELSE Gather(Empty, a, picked)
  PROVE  Makes(r, Elements(a) \cap picked, Elements(a) \cup Elements(b))
<1>1. ASSUME WalkTraps(a, b, {}) PROVE Unfit(Elements(a) \cup Elements(b))
  BY <1>1, WalkTrapsFacts DEF Unfit, Uncastable
<1>2. Makes(Gather(Empty, a, picked), Elements(a) \cap picked, Elements(a))
  <2>1. Elements(Empty) \cup Elements(a) = Elements(a)
    BY EmptyFacts
  <2>2. Elements(Empty) \cup (Elements(a) \cap picked) = Elements(a) \cap picked
    BY EmptyFacts
  <2>3. Makes(Gather(Empty, a, picked), Elements(Empty) \cup (Elements(a) \cap picked),
              Elements(Empty) \cup Elements(a))
    BY EmptyFacts, GatherFacts
  <2> QED BY <2>1, <2>2, <2>3
<1>3. Unfit(Elements(a)) => Unfit(Elements(a) \cup Elements(b))
  BY DEF Unfit, Uncastable
<1> QED BY <1>1, <1>2, <1>3 DEF Makes

\* What the operators make, whatever the keys.
LEMMA OperatorFacts ==
  ASSUME NEW a, IsTrie(a), NEW b, IsTrie(b)
  PROVE  LET m == Elements(a) \cup Elements(b)
         IN  /\ Makes(Union(a, b), m, m)
             /\ Makes(Intersect(a, b), {k \in Elements(a) : Has(b, k)}, m)
             /\ Makes(Difference(a, b), {k \in Elements(a) : ~Has(b, k)}, m)
<1>1. Elements(a) \in SUBSET Keys /\ Elements(b) \in SUBSET Keys
  BY ElementsFacts
<1>2. Makes(Union(a, b), Elements(a) \cup Elements(b), Elements(a) \cup Elements(b))
  <2>1. Elements(a) \cup (Elements(b) \cap Keys) = Elements(a) \cup Elements(b)
    BY <1>1
  <2>2. Makes(Gather(a, b, Keys), Elements(a) \cup (Elements(b) \cap Keys), Elements(a) \cup Elements(b))
    BY GatherFacts
  <2> QED BY <2>1, <2>2 DEF Union
<1>3. Makes(Intersect(a, b), {k \in Elements(a) : Has(b, k)}, Elements(a) \cup Elements(b))
  <2> DEFINE p == {k \in Keys : Has(b, k)}
  <2>1. Intersect(a, b) = IF WalkTraps(a, b, {}) THEN Trap ELSE Gather(Empty, a, p)
    BY DEF Intersect
  <2>2. Elements(a) \cap p = {k \in Elements(a) : Has(b, k)}
    BY <1>1
  <2> HIDE DEF p
  <2>3. Makes(Intersect(a, b), Elements(a) \cap p, Elements(a) \cup Elements(b))
    BY <2>1, PickedFacts
  <2> QED BY <2>2, <2>3
<1>4. Makes(Difference(a, b), {k \in Elements(a) : ~Has(b, k)}, Elements(a) \cup Elements(b))
  <2> DEFINE p == {k \in Keys : ~Has(b, k)}
  <2>1. Difference(a, b) = IF WalkTraps(a, b, {}) THEN Trap ELSE Gather(Empty, a, p)
    BY DEF Difference
  <2>2. Elements(a) \cap p = {k \in Elements(a) : ~Has(b, k)}
    BY <1>1
  <2> HIDE DEF p
  <2>3. Makes(Difference(a, b), Elements(a) \cap p, Elements(a) \cup Elements(b))
    BY <2>1, PickedFacts
  <2> QED BY <2>2, <2>3
<1> QED BY <1>2, <1>3, <1>4

LEMMA SymDifferenceFacts ==
  ASSUME NEW a, IsTrie(a), NEW b, IsTrie(b)
  PROVE  /\ Makes(SymDifference(a, b), Elements(Difference(a, b)) \cup Elements(Difference(b, a)),
                  Elements(a) \cup Elements(b))
         /\ SymDifference(a, b) # Trap => Difference(a, b) # Trap /\ Difference(b, a) # Trap
<1> DEFINE p == Difference(a, b)
           q == Difference(b, a)
           U == Elements(a) \cup Elements(b)
<1>1. Makes(p, {k \in Elements(a) : ~Has(b, k)}, U)
  BY OperatorFacts
<1>2. Makes(q, {k \in Elements(b) : ~Has(a, k)}, U)
  <2>1. Elements(b) \cup Elements(a) = U
    OBVIOUS
  <2> HIDE DEF U
  <2>2. Makes(q, {k \in Elements(b) : ~Has(a, k)}, Elements(b) \cup Elements(a))
    BY OperatorFacts
  <2> QED BY <2>1, <2>2
<1>3. SymDifference(a, b) = IF p = Trap \/ q = Trap THEN Trap ELSE Union(p, q)
  BY DEF SymDifference
<1> HIDE DEF p, q
<1>4. CASE p = Trap \/ q = Trap
  BY <1>1, <1>2, <1>3, <1>4 DEF Makes
<1>5. CASE p # Trap /\ q # Trap
  <2>1. Makes(Union(p, q), Elements(p) \cup Elements(q), Elements(p) \cup Elements(q))
    <3>1. IsTrie(p) /\ IsTrie(q)
      BY <1>1, <1>2, <1>5 DEF Makes
    <3> QED BY <3>1, OperatorFacts
  <2>2. Unfit(Elements(p) \cup Elements(q)) => Unfit(U)
    <3>1. Elements(p) \cup Elements(q) \subseteq U
      BY <1>1, <1>2, <1>5 DEF Makes
    <3> HIDE DEF U
    <3> QED BY <3>1 DEF Unfit, Uncastable
  <2>3. Makes(Union(p, q), Elements(p) \cup Elements(q), U)
    BY <2>1, <2>2 DEF Makes
  <2>4. SymDifference(a, b) = Union(p, q)
    BY <1>3, <1>5
  <2> QED BY <1>5, <2>3, <2>4 DEF p, q
<1> QED BY <1>4, <1>5

\* What they make is a trie, whatever the keys.
LEMMA OperatorTries ==
  ASSUME NEW a, IsTrie(a), NEW b, IsTrie(b)
  PROVE  /\ Union(a, b) # Trap => IsTrie(Union(a, b))
         /\ Intersect(a, b) # Trap => IsTrie(Intersect(a, b))
         /\ Difference(a, b) # Trap => IsTrie(Difference(a, b))
         /\ SymDifference(a, b) # Trap => IsTrie(SymDifference(a, b))
BY OperatorFacts, SymDifferenceFacts DEF Makes

\* With no NaN, it holds the elements that set algebra says.
LEMMA OperatorElements ==
  ASSUME Nans = {}, NEW a, IsTrie(a), NEW b, IsTrie(b)
  PROVE  /\ Union(a, b) # Trap => Elements(Union(a, b)) = Elements(a) \cup Elements(b)
         /\ Intersect(a, b) # Trap => Elements(Intersect(a, b)) = Elements(a) \cap Elements(b)
         /\ Difference(a, b) # Trap => Elements(Difference(a, b)) = Elements(a) \ Elements(b)
         /\ SymDifference(a, b) # Trap =>
              Elements(SymDifference(a, b)) =
                (Elements(a) \ Elements(b)) \cup (Elements(b) \ Elements(a))
<1>1. Elements(a) \in SUBSET Keys /\ Elements(b) \in SUBSET Keys
  BY ElementsFacts
<1>2. /\ \A k \in Keys : Has(a, k) <=> k \in Elements(a)
      /\ \A k \in Keys : Has(b, k) <=> k \in Elements(b)
  BY FoundFacts
<1>3. /\ {k \in Elements(a) : Has(b, k)} = Elements(a) \cap Elements(b)
      /\ {k \in Elements(a) : ~Has(b, k)} = Elements(a) \ Elements(b)
      /\ {k \in Elements(b) : ~Has(a, k)} = Elements(b) \ Elements(a)
  BY <1>1, <1>2
<1>4. /\ Difference(a, b) # Trap => Elements(Difference(a, b)) = Elements(a) \ Elements(b)
      /\ Difference(b, a) # Trap => Elements(Difference(b, a)) = Elements(b) \ Elements(a)
  BY <1>3, OperatorFacts DEF Makes
<1>5. SymDifference(a, b) # Trap =>
        Elements(SymDifference(a, b)) = (Elements(a) \ Elements(b)) \cup (Elements(b) \ Elements(a))
  BY <1>4, SymDifferenceFacts DEF Makes
<1>6. /\ Union(a, b) # Trap => Elements(Union(a, b)) = Elements(a) \cup Elements(b)
      /\ Intersect(a, b) # Trap => Elements(Intersect(a, b)) = Elements(a) \cap Elements(b)
  BY <1>3, OperatorFacts DEF Makes
<1> QED BY <1>4, <1>5, <1>6

\* And the comparisons are those of sets.
LEMMA RelationFacts ==
  ASSUME Nans = {}, NEW a, IsTrie(a), NEW b, IsTrie(b)
  PROVE  /\ Subset(a, b) <=> Elements(a) \subseteq Elements(b)
         /\ Disjoint(a, b) <=> Elements(a) \cap Elements(b) = {}
         /\ SetEq(a, b) <=> Elements(a) = Elements(b)
         /\ StrictSubset(a, b) <=> Elements(a) \subseteq Elements(b) /\ Elements(a) # Elements(b)
<1> DEFINE ls == Leaves(a)
           A  == Elements(a)
           B  == Elements(b)
<1>1. /\ DOMAIN ls = 1 .. Len(ls) /\ A \in SUBSET Keys
      /\ \A k : k \in A <=> \E i \in 1 .. Len(ls) : ls[i].key = k
      /\ \A i \in 1 .. Len(ls) : ls[i].key \in A
  BY ElementsFacts
<1>2. \A k \in Keys : Has(b, k) <=> k \in B
  BY FoundFacts
<1>3. Subset(a, b) <=> \A i \in DOMAIN ls : Has(b, ls[i].key)
  BY DEF Subset
<1>4. Disjoint(a, b) <=> \A i \in DOMAIN ls : ~Has(b, ls[i].key)
  BY DEF Disjoint
<1> HIDE DEF ls, A, B
<1>5. Subset(a, b) <=> A \subseteq B
  BY <1>1, <1>2, <1>3
<1>6. Disjoint(a, b) <=> A \cap B = {}
  <2>1. Disjoint(a, b) <=> \A k \in A : k \notin B
    BY <1>1, <1>2, <1>4
  <2> QED BY <2>1
<1>7. IsFiniteSet(A) /\ IsFiniteSet(B) /\ SetSize(a) = Cardinality(A) /\ SetSize(b) = Cardinality(B)
  BY SizeFacts DEF A, B
<1>8. A \subseteq B /\ Cardinality(A) = Cardinality(B) => A = B
  <2>1. A \in SUBSET B /\ Cardinality(B) = Cardinality(A) => B = A
    BY <1>7, FS_Subset
  <2> QED BY <2>1
<1>9. SetEq(a, b) <=> A = B
  BY <1>5, <1>7, <1>8 DEF SetEq
<1>10. StrictSubset(a, b) <=> A \subseteq B /\ A # B
  BY <1>5, <1>7, <1>8 DEF StrictSubset
<1> QED BY <1>5, <1>6, <1>9, <1>10 DEF A, B

-----------------------------------------------------------------------------
(* Programs with sets                                                      *)

LEMMA WellFormedMeans ==
  WellFormed <=> sets \in [Names -> Tries[0]] /\ \A x \in Names : IsTrie(sets[x])
BY DEF WellFormed, IsTrie, Good

\* A trie put into a variable.
LEMMA WellFormedAfter ==
  ASSUME WellFormed, NEW x \in Names, NEW n, IsTrie(n), sets' = [sets EXCEPT ![x] = n]
  PROVE  WellFormed'
<1>1. sets \in [Names -> Tries[0]] /\ (\A y \in Names : IsTrie(sets[y])) /\ n \in Tries[0]
  BY WellFormedMeans DEF IsTrie, Good
<1>2. sets' \in [Names -> Tries[0]] /\ \A y \in Names : IsTrie(sets'[y])
  BY <1>1
<1> QED BY <1>2 DEF WellFormed, IsTrie, Good

\* The result of an operator assigned to a variable.
LEMMA WellFormedAssigned ==
  ASSUME WellFormed, NEW x \in Names, NEW n, n # Trap => IsTrie(n), Assign(x, n)
  PROVE  WellFormed'
<1>1. CASE n # Trap /\ sets' = [sets EXCEPT ![x] = n]
  BY <1>1, WellFormedAfter
<1>2. CASE UNCHANGED sets
  BY <1>2 DEF WellFormed
<1> QED BY <1>1, <1>2 DEF Assign

LEMMA WellFormedInit ==
  Init => WellFormed
<1> SUFFICES ASSUME Init PROVE WellFormed
  OBVIOUS
<1>1. IsTrie(Empty) /\ Empty \in Tries[0]
  BY EmptyFacts DEF IsTrie, Good
<1> QED BY <1>1, WellFormedMeans DEF Init

\* The key that pop takes out.
LEMMA PoppedFacts ==
  ASSUME WellFormed, NEW x \in Names, Pop(x)
  PROVE  LET k == PickFirstKey(sets[x])
         IN  /\ k \in Keys /\ k \in Elements(sets[x]) /\ IsTrie(RemoveKey(sets[x], k))
             /\ answer' = k /\ sets' = [sets EXCEPT ![x] = RemoveKey(sets[x], k)]
<1> DEFINE k == PickFirstKey(sets[x])
<1>1. IsTrie(sets[x])
  BY WellFormedMeans
<1>2. k # Trap /\ answer' = k /\ sets' = [sets EXCEPT ![x] = RemoveKey(sets[x], k)]
  BY DEF Pop, CanPop
<1>3. k \in Elements(sets[x]) /\ k \in Keys
  BY <1>1, <1>2, FoundFacts, ElementsFacts
<1> QED BY <1>1, <1>2, <1>3, RemovedFacts

LEMMA WellFormedStep ==
  WellFormed /\ [Next]_vars => WellFormed'
<1> SUFFICES ASSUME WellFormed, [Next]_vars PROVE WellFormed'
  OBVIOUS
<1>1. \A x \in Names : IsTrie(sets[x])
  BY WellFormedMeans
<1>2. CASE UNCHANGED sets
  BY <1>2 DEF WellFormed
<1>3. ASSUME NEW x \in Names, New(x) PROVE WellFormed'
  BY <1>3, EmptyFacts, WellFormedAssigned DEF New
<1>4. ASSUME NEW x \in Names, NEW k \in Keys, Include(x, k) PROVE WellFormed'
  BY <1>1, <1>4, AddedFacts, WellFormedAssigned DEF Include
<1>5. ASSUME NEW x \in Names, NEW y \in Names, Plus(x, y) PROVE WellFormed'
  BY <1>1, <1>5, OperatorTries, WellFormedAssigned DEF Plus
<1>6. ASSUME NEW x \in Names, NEW y \in Names, And(x, y) PROVE WellFormed'
  BY <1>1, <1>6, OperatorTries, WellFormedAssigned DEF And
<1>7. ASSUME NEW x \in Names, NEW y \in Names, Minus(x, y) PROVE WellFormed'
  BY <1>1, <1>7, OperatorTries, WellFormedAssigned DEF Minus
<1>8. ASSUME NEW x \in Names, NEW y \in Names, Xor(x, y) PROVE WellFormed'
  BY <1>1, <1>8, OperatorTries, WellFormedAssigned DEF Xor
<1>9. ASSUME NEW x \in Names, PopEmpty(x) PROVE WellFormed'
  BY <1>2, <1>9 DEF PopEmpty
<1>10. ASSUME NEW x \in Names, Pop(x) PROVE WellFormed'
  BY <1>10, PoppedFacts, WellFormedAfter
<1>11. ASSUME NEW x \in Names, PopTraps(x) PROVE WellFormed'
  BY <1>2, <1>11 DEF PopTraps
<1>12. ASSUME NEW x \in Names, NEW y \in Names, AskTraps(x, y) PROVE WellFormed'
  BY <1>2, <1>12 DEF AskTraps
<1> QED BY <1>2, <1>3, <1>4, <1>5, <1>6, <1>7, <1>8, <1>9, <1>10, <1>11, <1>12 DEF Next, vars

\* Every trie the set operators can build is well formed, NaNs among its keys or not.
THEOREM SetTriesAreWellFormed == Spec => []WellFormed
BY WellFormedInit, WellFormedStep, PTL DEF Spec

\* Without NaNs, lookups, sizes and comparisons are those of the sets the tries stand for.
THEOREM ComparisonsAreOfSets ==
  ASSUME Nans = {}
  PROVE  Spec => []RelationsAgree
<1>1. WellFormed => RelationsAgree
  <2> SUFFICES ASSUME WellFormed, NEW x \in Names, NEW y \in Names
               PROVE  LET a == Elements(sets[x])
                          b == Elements(sets[y])
                      IN  /\ \A k \in Keys : Has(sets[x], k) <=> k \in a
                          /\ SetSize(sets[x]) = Cardinality(a)
                          /\ Subset(sets[x], sets[y]) <=> a \subseteq b
                          /\ StrictSubset(sets[x], sets[y]) <=> a \subseteq b /\ a # b
                          /\ Disjoint(sets[x], sets[y]) <=> a \cap b = {}
                          /\ SetEq(sets[x], sets[y]) <=> a = b
    BY DEF RelationsAgree
  <2>1. IsTrie(sets[x]) /\ IsTrie(sets[y])
    BY WellFormedMeans
  <2>2. \A k \in Keys : Has(sets[x], k) <=> k \in Elements(sets[x])
    BY <2>1, FoundFacts
  <2>3. SetSize(sets[x]) = Cardinality(Elements(sets[x]))
    BY <2>1, SizeFacts
  <2>4. /\ Subset(sets[x], sets[y]) <=> Elements(sets[x]) \subseteq Elements(sets[y])
        /\ Disjoint(sets[x], sets[y]) <=> Elements(sets[x]) \cap Elements(sets[y]) = {}
        /\ SetEq(sets[x], sets[y]) <=> Elements(sets[x]) = Elements(sets[y])
        /\ StrictSubset(sets[x], sets[y]) <=>
             Elements(sets[x]) \subseteq Elements(sets[y]) /\ Elements(sets[x]) # Elements(sets[y])
    BY <2>1, RelationFacts
  <2> QED BY <2>2, <2>3, <2>4
<1> QED BY <1>1, SetTriesAreWellFormed, PTL

\* But for a pop, an operation of set.wat traps only where two keys that are held, or held and
\* asked for, are of types that deep_eq casts into one another.
THEOREM OnlyMixedKeysTrap == Spec => []TrapsAreMixed
<1>1. WellFormed => TrapsAreMixed
  <2> SUFFICES ASSUME WellFormed, NEW x \in Names, NEW y \in Names
               PROVE  LET a == Elements(sets[x])
                          b == Elements(sets[y])
                      IN  /\ \A k \in Keys :
                               Clashes(sets[x], k) \/ Add(sets[x], k) = Trap => Uncastable(a, {k})
                          /\ SubsetTraps(sets[x], sets[y]) \/ DisjointTraps(sets[x], sets[y]) => Uncastable(b, a)
                          /\ Trap \in {Union(sets[x], sets[y]), Intersect(sets[x], sets[y]),
                                       Difference(sets[x], sets[y]), SymDifference(sets[x], sets[y])}
                             => Uncastable(a \cup b, a \cup b)
    BY DEF TrapsAreMixed
  <2>1. IsTrie(sets[x]) /\ IsTrie(sets[y])
    BY WellFormedMeans
  <2>2. \A k \in Keys : Clashes(sets[x], k) \/ Add(sets[x], k) = Trap => Uncastable(Elements(sets[x]), {k})
    BY <2>1, ClashFacts, AddedFacts
  <2>3. SubsetTraps(sets[x], sets[y]) \/ DisjointTraps(sets[x], sets[y])
          => Uncastable(Elements(sets[y]), Elements(sets[x]))
    BY <2>1, WalkTrapsFacts DEF SubsetTraps, DisjointTraps
  <2>4. Trap \in {Union(sets[x], sets[y]), Intersect(sets[x], sets[y]),
                  Difference(sets[x], sets[y]), SymDifference(sets[x], sets[y])}
          => Unfit(Elements(sets[x]) \cup Elements(sets[y]))
    BY <2>1, OperatorFacts, SymDifferenceFacts DEF Makes
  <2> QED BY <2>2, <2>3, <2>4 DEF Unfit
<1> QED BY <1>1, SetTriesAreWellFormed, PTL

-----------------------------------------------------------------------------
(* Refinement of SetSpec                                                   *)

Held == [x \in Names |-> Elements(sets[x])]

LEMMA RefinedInit ==
  Init => Algebra!Init
BY EmptyFacts DEF Init, Algebra!Init

\* A trie put into a variable puts its elements into the set that variable holds.
LEMMA HeldAfter ==
  ASSUME WellFormed, NEW x \in Names, NEW n, sets' = [sets EXCEPT ![x] = n]
  PROVE  Held' = [Held EXCEPT ![x] = Elements(n)]
<1>1. sets \in [Names -> Tries[0]]
  BY DEF WellFormed
<1>2. sets'[x] = n /\ \A y \in Names \ {x} : sets'[y] = sets[y]
  BY <1>1
<1>3. Held' = [y \in Names |-> Elements(sets'[y])] /\ Held = [y \in Names |-> Elements(sets[y])]
  BY DEF Held
<1>4. [Held EXCEPT ![x] = Elements(n)] = [y \in Names |-> IF y = x THEN Elements(n) ELSE Held[y]]
  BY DEF Held
<1>5. \A y \in Names : Elements(sets'[y]) = IF y = x THEN Elements(n) ELSE Held[y]
  BY <1>2, <1>3
<1> QED BY <1>3, <1>4, <1>5

LEMMA AssignStep ==
  ASSUME WellFormed, NEW x \in Names, NEW n, NEW s, n # Trap => Elements(n) = s, Assign(x, n)
  PROVE  Algebra!Assign(x, s) \/ UNCHANGED Algebra!vars
<1>1. CASE n # Trap /\ sets' = [sets EXCEPT ![x] = n] /\ answer' = None
  <2>1. Held' = [Held EXCEPT ![x] = s]
    BY <1>1, HeldAfter
  <2> QED BY <1>1, <2>1 DEF Algebra!Assign, Held
<1>2. CASE UNCHANGED <<sets, answer>>
  BY <1>2 DEF Algebra!vars
<1> QED BY <1>1, <1>2 DEF Assign

LEMMA RefinedStep ==
  ASSUME Nans = {}
  PROVE  WellFormed /\ [Next]_vars => [Algebra!Next]_(Algebra!vars)
<1> SUFFICES ASSUME WellFormed, [Next]_vars PROVE Algebra!Next \/ UNCHANGED Algebra!vars
  OBVIOUS
<1> DEFINE E(x)   == Elements(sets[x])
           Refined == Algebra!Next \/ UNCHANGED Algebra!vars
<1>1. /\ \A x \in Names : IsTrie(sets[x])
      /\ \A x \in Names : Held[x] = E(x)
  BY WellFormedMeans DEF Held
<1>2. CASE UNCHANGED <<sets, answer>>
  BY <1>2 DEF Algebra!vars
<1>3. ASSUME NEW x \in Names, New(x) PROVE Refined
  <2>1. Algebra!Assign(x, {}) \/ UNCHANGED Algebra!vars
    BY <1>3, EmptyFacts, AssignStep DEF New
  <2> QED BY <2>1 DEF Algebra!Next
<1>4. ASSUME NEW x \in Names, NEW k \in Keys, Include(x, k) PROVE Refined
  <2>1. Algebra!Assign(x, Held[x] \cup {k}) \/ UNCHANGED Algebra!vars
    BY <1>1, <1>4, AddedFacts, AssignStep DEF Include
  <2> QED BY <2>1 DEF Algebra!Next, Held
<1>5. ASSUME NEW x \in Names, NEW y \in Names, Plus(x, y) PROVE Refined
  <2>1. Union(sets[x], sets[y]) # Trap => Elements(Union(sets[x], sets[y])) = Held[x] \cup Held[y]
    BY <1>1, OperatorElements
  <2>2. Assign(x, Union(sets[x], sets[y]))
    BY <1>5 DEF Plus
  <2>3. Algebra!Assign(x, Held[x] \cup Held[y]) \/ UNCHANGED Algebra!vars
    BY <2>1, <2>2, AssignStep
  <2> QED BY <2>3 DEF Algebra!Next, Held
<1>6. ASSUME NEW x \in Names, NEW y \in Names, And(x, y) PROVE Refined
  <2>1. Intersect(sets[x], sets[y]) # Trap => Elements(Intersect(sets[x], sets[y])) = Held[x] \cap Held[y]
    BY <1>1, OperatorElements
  <2>2. Assign(x, Intersect(sets[x], sets[y]))
    BY <1>6 DEF And
  <2>3. Algebra!Assign(x, Held[x] \cap Held[y]) \/ UNCHANGED Algebra!vars
    BY <2>1, <2>2, AssignStep
  <2> QED BY <2>3 DEF Algebra!Next, Held
<1>7. ASSUME NEW x \in Names, NEW y \in Names, Minus(x, y) PROVE Refined
  <2>1. Difference(sets[x], sets[y]) # Trap => Elements(Difference(sets[x], sets[y])) = Held[x] \ Held[y]
    BY <1>1, OperatorElements
  <2>2. Assign(x, Difference(sets[x], sets[y]))
    BY <1>7 DEF Minus
  <2>3. Algebra!Assign(x, Held[x] \ Held[y]) \/ UNCHANGED Algebra!vars
    BY <2>1, <2>2, AssignStep
  <2> QED BY <2>3 DEF Algebra!Next, Held
<1>8. ASSUME NEW x \in Names, NEW y \in Names, Xor(x, y) PROVE Refined
  <2>1. SymDifference(sets[x], sets[y]) # Trap => Elements(SymDifference(sets[x], sets[y])) = (Held[x] \ Held[y]) \cup (Held[y] \ Held[x])
    BY <1>1, OperatorElements
  <2>2. Assign(x, SymDifference(sets[x], sets[y]))
    BY <1>8 DEF Xor
  <2>3. Algebra!Assign(x, (Held[x] \ Held[y]) \cup (Held[y] \ Held[x])) \/ UNCHANGED Algebra!vars
    BY <2>1, <2>2, AssignStep
  <2> QED BY <2>3 DEF Algebra!Next, Held
<1>9. ASSUME NEW x \in Names, PopEmpty(x) PROVE Refined
  <2>1. sets' = sets /\ answer' = None /\ SetSize(sets[x]) = 0
    BY <1>9 DEF PopEmpty
  <2>2. Held[x] = {}
    BY <1>1, <2>1, SizeFacts, FS_EmptySet
  <2>3. Algebra!Take(x)
    BY <2>1, <2>2 DEF Algebra!Take, Held
  <2> QED BY <2>3 DEF Algebra!Next
<1>10. ASSUME NEW x \in Names, Pop(x) PROVE Refined
  <2> DEFINE k == PickFirstKey(sets[x])
             n == RemoveKey(sets[x], k)
  <2>1. k \in Keys /\ k \in E(x) /\ answer' = k /\ sets' = [sets EXCEPT ![x] = n]
    BY <1>10, PoppedFacts
  <2>2. Elements(n) = E(x) \ {k}
    BY <1>1, <2>1, RemovedFacts
  <2> HIDE DEF n, k
  <2>3. Held' = [Held EXCEPT ![x] = Held[x] \ {k}] /\ k \in Held[x]
    BY <1>1, <2>1, <2>2, HeldAfter
  <2>4. Algebra!Take(x)
    BY <2>1, <2>3 DEF Algebra!Take, Held
  <2> QED BY <2>4 DEF Algebra!Next
<1>11. ASSUME NEW x \in Names, PopTraps(x) PROVE Refined
  BY <1>2, <1>11 DEF PopTraps
<1>12. ASSUME NEW x \in Names, NEW y \in Names, AskTraps(x, y) PROVE Refined
  BY <1>2, <1>12 DEF AskTraps
<1> QED BY <1>2, <1>3, <1>4, <1>5, <1>6, <1>7, <1>8, <1>9, <1>10, <1>11, <1>12 DEF Next, vars

\* Without NaNs a set is a finite set, whatever the types of its keys: a program that works on
\* tries is one that works on sets, up to the first operation that traps.
THEOREM SetsAreSets ==
  ASSUME Nans = {}
  PROVE  Spec => ImplementsSet
<1>1. Init => Algebra!Init
  BY RefinedInit
<1>2. WellFormed /\ [Next]_vars => [Algebra!Next]_(Algebra!vars)
  BY RefinedStep
<1> QED BY <1>1, <1>2, SetTriesAreWellFormed, PTL DEF Spec, ImplementsSet, Algebra!Spec
=============================================================================
