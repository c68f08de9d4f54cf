--------------------------- MODULE HashTrieProofs ---------------------------
(***************************************************************************)
(* What holds of hash tries of any leaves: where the children of a node    *)
(* stand, that a hash leads to one place, how a node with another child    *)
(* relates to the one before, and which leaves a walk over a trie meets.   *)
(***************************************************************************)
EXTENDS HashTrie, FiniteSetTheorems, WellFoundedInduction, TLAPS

-----------------------------------------------------------------------------
(* Numbers                                                                 *)

LEMMA Least ==
  ASSUME NEW S, S \subseteq Nat, S # {}
  PROVE  \E x \in S : \A y \in S : x <= y
<1>1. \E x \in S : \A y \in S : ~(<<y, x>> \in OpToRel(<, Nat))
  BY NatLessThanWellFounded, WFMin
<1>2. PICK x \in S : \A y \in S : ~(<<y, x>> \in {ss \in Nat \X Nat : ss[1] < ss[2]})
  BY <1>1 DEF OpToRel
<1>3. ASSUME NEW y \in S, y < x PROVE FALSE
  <2>1. <<y, x>> \in Nat \X Nat /\ <<y, x>>[1] < <<y, x>>[2]
    BY <1>3
  <2>2. <<y, x>> \in {ss \in Nat \X Nat : ss[1] < ss[2]}
    BY <2>1
  <2> QED BY <1>2, <2>2
<1>4. \A y \in S : ~(y < x)
  BY <1>3
<1>5. \A y \in S : y \in Nat /\ x \in Nat
  OBVIOUS
<1> QED BY <1>4, <1>5

\* The principle of induction, for a set of numbers.
LEMMA Induction ==
  ASSUME NEW S, 0 \in S, \A n \in Nat : n \in S => n + 1 \in S
  PROVE  \A n \in Nat : n \in S
<1> SUFFICES ASSUME Nat \ S # {} PROVE FALSE
  OBVIOUS
<1>1. PICK x \in Nat \ S : \A y \in Nat \ S : x <= y
  BY Least, Nat \ S \subseteq Nat
<1>2. x # 0 /\ x - 1 \in Nat /\ x = (x - 1) + 1
  BY <1>1
<1> QED BY <1>1, <1>2

-----------------------------------------------------------------------------
(* A bitmap and the dense array beside it                                  *)

LEMMA BitsFinite ==
  ASSUME NEW bits \in SUBSET Slots
  PROVE  IsFiniteSet(bits) /\ Cardinality(bits) \in Nat
<1>1. IsFiniteSet(Slots)
  BY HashAssumption, FS_Interval DEF Slots
<1> QED BY <1>1, FS_Subset, FS_CardinalityType

\* The bits below a slot's.
Under(bits, f) == {b \in bits : b < f}

LEMMA UnderFacts ==
  ASSUME NEW bits \in SUBSET Slots, NEW f \in Slots
  PROVE  /\ Under(bits, f) \in SUBSET Slots
         /\ IsFiniteSet(Under(bits, f)) /\ Cardinality(Under(bits, f)) \in Nat
         /\ Cardinality(Under(bits, f)) <= Cardinality(bits)
         /\ Index(bits, f) = Cardinality(Under(bits, f)) + 1
<1>1. Under(bits, f) \in SUBSET bits /\ Under(bits, f) \in SUBSET Slots
  BY DEF Under
<1>2. IsFiniteSet(bits) /\ IsFiniteSet(Under(bits, f)) /\ Cardinality(Under(bits, f)) \in Nat
  BY <1>1, BitsFinite
<1>3. Cardinality(Under(bits, f)) <= Cardinality(bits)
  BY <1>1, <1>2, FS_Subset
<1>4. Index(bits, f) = Cardinality(Under(bits, f)) + 1
  BY DEF Index, Under
<1> QED BY <1>1, <1>2, <1>3, <1>4

\* Each bit has a place of its own, in the order of the bits.
LEMMA IndexOrder ==
  ASSUME NEW bits \in SUBSET Slots, NEW f \in bits, NEW g \in Slots, f < g
  PROVE  Index(bits, f) < Index(bits, g)
<1>1. f \in Slots /\ f \in Int /\ g \in Int
  BY DEF Slots
<1>2. Under(bits, f) \cup {f} \in SUBSET Under(bits, g)
  <2>1. ASSUME NEW b \in bits, b < f PROVE b < g
    <3>1. b \in Int
      BY DEF Slots
    <3> QED BY <1>1, <2>1, <3>1
  <2> QED BY <2>1 DEF Under
<1>3. f \notin Under(bits, f)
  BY <1>1 DEF Under
<1>4. Cardinality(Under(bits, f) \cup {f}) = Cardinality(Under(bits, f)) + 1
  BY <1>1, <1>3, UnderFacts, FS_AddElement
<1>5. Cardinality(Under(bits, f) \cup {f}) <= Cardinality(Under(bits, g))
  BY <1>2, UnderFacts, FS_Subset
<1>6. /\ Cardinality(Under(bits, f)) \in Nat /\ Index(bits, f) = Cardinality(Under(bits, f)) + 1
      /\ Cardinality(Under(bits, g)) \in Nat /\ Index(bits, g) = Cardinality(Under(bits, g)) + 1
  BY <1>1, UnderFacts, Zenon
<1> QED BY <1>4, <1>5, <1>6

LEMMA IndexInside ==
  ASSUME NEW bits \in SUBSET Slots, NEW f \in Slots
  PROVE  /\ Index(bits, f) \in Nat /\ Index(bits, f) \in 1 .. Cardinality(bits) + 1
         /\ f \in bits => Index(bits, f) \in 1 .. Cardinality(bits)
<1>1. Index(bits, f) \in Nat /\ Index(bits, f) \in 1 .. Cardinality(bits) + 1
  BY UnderFacts, BitsFinite
<1>2. ASSUME f \in bits PROVE Index(bits, f) \in 1 .. Cardinality(bits)
  <2>1. f \in Int
    BY DEF Slots
  <2>2. Under(bits, f) \cup {f} \in SUBSET bits /\ f \notin Under(bits, f)
    BY <1>2, <2>1 DEF Under
  <2>3. Cardinality(Under(bits, f) \cup {f}) = Cardinality(Under(bits, f)) + 1
    BY <2>2, UnderFacts, FS_AddElement
  <2>4. Cardinality(Under(bits, f) \cup {f}) <= Cardinality(bits)
    BY <2>2, BitsFinite, FS_Subset
  <2> QED BY <2>3, <2>4, UnderFacts, BitsFinite
<1> QED BY <1>1, <1>2

LEMMA IndexApart ==
  ASSUME NEW bits \in SUBSET Slots, NEW f \in bits, NEW g \in bits, Index(bits, f) = Index(bits, g)
  PROVE  f = g
<1>1. f \in Int /\ g \in Int /\ f \in Slots /\ g \in Slots
  BY DEF Slots
<1>2. Index(bits, f) \in Nat /\ Index(bits, g) \in Nat
  BY <1>1, IndexInside, Zenon
<1> QED BY <1>1, <1>2, IndexOrder

\* Each place belongs to a bit.
LEMMA IndexOnto ==
  ASSUME NEW bits \in SUBSET Slots, NEW i \in 1 .. Cardinality(bits)
  PROVE  \E f \in bits : Index(bits, f) = i
<1> DEFINE F == [f \in bits |-> Index(bits, f)]
           T == 1 .. Cardinality(bits)
<1>1. F \in Injection(bits, T)
  <2>1. \A f \in bits : f \in Slots /\ Index(bits, f) \in T
    BY IndexInside
  <2>2. F \in [bits -> T]
    BY <2>1
  <2> QED BY <2>2, IndexApart, Zenon DEF Injection, IsInjective
<1>2. IsFiniteSet(T) /\ Cardinality(T) = Cardinality(bits)
  <2>1. Cardinality(bits) \in Nat
    BY BitsFinite
  <2>2. \A len \in Nat : IsFiniteSet(1 .. len) /\ Cardinality(1 .. len) = len
    BY FS_Interval
  <2> QED BY <2>1, <2>2
<1>3. F \in Surjection(bits, T)
  <2> HIDE DEF F, T
  <2> QED BY <1>1, <1>2, FS_Injection
<1> QED BY <1>3 DEF Surjection

\* A new bit moves the places of the bits above it up by one.
LEMMA IndexAdd ==
  ASSUME NEW bits \in SUBSET Slots, NEW f \in Slots, f \notin bits
  PROVE  /\ Cardinality(bits \cup {f}) = Cardinality(bits) + 1
         /\ Index(bits \cup {f}, f) = Index(bits, f)
         /\ \A g \in bits : Index(bits \cup {f}, g) =
              IF Index(bits, g) < Index(bits, f) THEN Index(bits, g) ELSE Index(bits, g) + 1
<1> DEFINE more == bits \cup {f}
<1>1. more \in SUBSET Slots /\ f \in Int /\ \A g \in bits : g \in Slots /\ g \in Int /\ g # f
  BY DEF Slots
<1>2. Cardinality(more) = Cardinality(bits) + 1
  BY BitsFinite, FS_AddElement
<1>3. Under(more, f) = Under(bits, f)
  BY <1>1 DEF Under
<1>4. Index(more, f) = Index(bits, f)
  BY <1>1, <1>3, UnderFacts
<1>5. ASSUME NEW g \in bits
      PROVE  Index(more, g) = IF Index(bits, g) < Index(bits, f) THEN Index(bits, g) ELSE Index(bits, g) + 1
  <2>1. Index(bits, g) \in Nat /\ Index(bits, f) \in Nat
    BY <1>1, IndexInside, Zenon
  <2>2. CASE g < f
    <3>1. Under(more, g) = Under(bits, g)
      BY <1>1, <2>2 DEF Under
    <3>2. Index(more, g) = Index(bits, g)
      BY <1>1, <3>1, UnderFacts
    <3>3. Index(bits, g) < Index(bits, f)
      BY <1>1, <2>2, IndexOrder
    <3> QED BY <3>2, <3>3
  <2>3. CASE f < g
    <3>1. Under(more, g) = Under(bits, g) \cup {f} /\ f \notin Under(bits, g)
      BY <1>1, <2>3 DEF Under
    <3>2. Cardinality(Under(more, g)) = Cardinality(Under(bits, g)) + 1
      BY <1>1, <3>1, UnderFacts, FS_AddElement
    <3>3. Index(more, g) = Index(bits, g) + 1
      BY <1>1, <3>2, UnderFacts
    <3>4. Under(bits, f) \in SUBSET Under(bits, g)
      <4>1. ASSUME NEW b \in bits, b < f PROVE b < g
        BY <1>1, <2>3, <4>1
      <4> QED BY <4>1 DEF Under
    <3>5. Cardinality(Under(bits, f)) <= Cardinality(Under(bits, g))
      BY <1>1, <3>4, UnderFacts, FS_Subset
    <3>6. ~(Index(bits, g) < Index(bits, f))
      <4>1. /\ Cardinality(Under(bits, f)) \in Nat /\ Index(bits, f) = Cardinality(Under(bits, f)) + 1
            /\ Cardinality(Under(bits, g)) \in Nat /\ Index(bits, g) = Cardinality(Under(bits, g)) + 1
        BY <1>1, UnderFacts
      <4> QED BY <3>5, <4>1
    <3> QED BY <3>3, <3>6
  <2> QED BY <1>1, <2>2, <2>3
<1> QED BY <1>2, <1>4, <1>5

-----------------------------------------------------------------------------
(* Sequences and nodes                                                     *)

LEMMA InsertFacts ==
  ASSUME NEW C, NEW s \in Seq(C), NEW i \in 1 .. Len(s) + 1, NEW c \in C
  PROVE  /\ InsertAt(s, i, c) \in Seq(C) /\ Len(InsertAt(s, i, c)) = Len(s) + 1
         /\ InsertAt(s, i, c)[i] = c
         /\ \A j \in 1 .. Len(s) : InsertAt(s, i, c)[IF j < i THEN j ELSE j + 1] = s[j]
<1> DEFINE front == SubSeq(s, 1, i - 1)
           back  == SubSeq(s, i, Len(s))
<1>1. front \in Seq(C) /\ Len(front) = i - 1 /\ \A j \in 1 .. i - 1 : front[j] = s[j]
  OBVIOUS
<1>2. back \in Seq(C) /\ Len(back) = Len(s) - i + 1 /\ \A j \in i .. Len(s) : back[j - i + 1] = s[j]
  OBVIOUS
<1>3. InsertAt(s, i, c) = front \o <<c>> \o back
  BY DEF InsertAt
<1> HIDE DEF front, back
<1>4. <<c>> \in Seq(C) /\ Len(<<c>>) = 1 /\ <<c>>[1] = c
  OBVIOUS
<1> DEFINE t == front \o <<c>>
<1>5. /\ t \in Seq(C) /\ Len(t) = i
      /\ t[i] = c /\ \A j \in 1 .. i - 1 : t[j] = s[j]
  BY <1>1, <1>4
<1> HIDE DEF t
<1>9. Len(s) \in Nat /\ i \in Nat
  OBVIOUS
<1>6. t \o back \in Seq(C) /\ Len(t \o back) = Len(s) + 1
  <2>1. t \in Seq(C) /\ back \in Seq(C)
    BY <1>2, <1>5
  <2>2. t \o back \in Seq(C)
    BY <2>1
  <2>3. Len(t \o back) = Len(t) + Len(back)
    BY <2>1
  <2> QED BY <1>2, <1>5, <1>9, <2>2, <2>3
<1>7. \A j \in 1 .. i : (t \o back)[j] = t[j]
  BY <1>2, <1>5
<1>8. \A j \in i .. Len(s) : (t \o back)[j + 1] = back[j - i + 1]
  BY <1>2, <1>5
<1> QED BY <1>2, <1>3, <1>5, <1>6, <1>7, <1>8 DEF t

LEMMA RemoveFacts ==
  ASSUME NEW C, NEW s \in Seq(C), NEW i \in 1 .. Len(s)
  PROVE  /\ RemoveAt(s, i) \in Seq(C) /\ Len(RemoveAt(s, i)) = Len(s) - 1
         /\ \A j \in 1 .. Len(s) : j # i => RemoveAt(s, i)[IF j < i THEN j ELSE j - 1] = s[j]
         /\ \A j \in 1 .. Len(s) - 1 : RemoveAt(s, i)[j] = s[IF j < i THEN j ELSE j + 1]
<1> DEFINE front == SubSeq(s, 1, i - 1)
           back  == SubSeq(s, i + 1, Len(s))
<1>1. front \in Seq(C) /\ Len(front) = i - 1 /\ \A j \in 1 .. i - 1 : front[j] = s[j]
  OBVIOUS
<1>2. back \in Seq(C) /\ Len(back) = Len(s) - i /\ \A j \in i + 1 .. Len(s) : back[j - i] = s[j]
  OBVIOUS
<1>3. RemoveAt(s, i) = front \o back
  BY DEF RemoveAt
<1> HIDE DEF front, back
<1>4. front \o back \in Seq(C) /\ Len(front \o back) = Len(s) - 1
  BY <1>1, <1>2
<1>5. \A j \in 1 .. i - 1 : (front \o back)[j] = s[j]
  BY <1>1, <1>2
<1>6. \A j \in i + 1 .. Len(s) : (front \o back)[j - 1] = s[j]
  BY <1>1, <1>2
<1>7. ASSUME NEW j \in i .. Len(s) - 1 PROVE (front \o back)[j] = s[j + 1]
  <2>1. j + 1 \in i + 1 .. Len(s) /\ (j + 1) - 1 = j
    OBVIOUS
  <2> QED BY <1>6, <2>1
<1> DEFINE t == front \o back
<1> HIDE DEF t
<1>8. ASSUME NEW j \in 1 .. Len(s), j # i
      PROVE  t[IF j < i THEN j ELSE j - 1] = s[j]
  <2>1. ASSUME j < i PROVE t[j] = s[j]
    <3>1. j \in 1 .. i - 1
      BY <2>1
    <3> QED BY <1>5, <3>1 DEF t
  <2>2. ASSUME ~(j < i) PROVE t[j - 1] = s[j]
    <3>1. j \in i + 1 .. Len(s)
      BY <1>8, <2>2
    <3> QED BY <1>6, <3>1 DEF t
  <2> QED BY <2>1, <2>2
<1>9. ASSUME NEW j \in 1 .. Len(s) - 1
      PROVE  t[j] = s[IF j < i THEN j ELSE j + 1]
  <2>1. ASSUME j < i PROVE t[j] = s[j]
    <3>1. j \in 1 .. i - 1
      BY <2>1
    <3> QED BY <1>5, <3>1 DEF t
  <2>2. ASSUME ~(j < i) PROVE t[j] = s[j + 1]
    <3>1. j \in i .. Len(s) - 1
      BY <2>2
    <3> QED BY <1>7, <3>1 DEF t
  <2> QED BY <2>1, <2>2
<1> QED BY <1>3, <1>4, <1>8, <1>9 DEF t

LEMMA ReplaceFacts ==
  ASSUME NEW C, NEW s \in Seq(C), NEW i \in 1 .. Len(s), NEW c \in C
  PROVE  /\ ReplaceAt(s, i, c) \in Seq(C) /\ Len(ReplaceAt(s, i, c)) = Len(s)
         /\ \A j \in 1 .. Len(s) : ReplaceAt(s, i, c)[j] = IF j = i THEN c ELSE s[j]
BY DEF ReplaceAt

\* A node with as many children, all of them in C, as its bitmap says.
Shaped(n, C) ==
  /\ n \in [tag : {"node"}, bits : SUBSET Slots, children : Seq(C)]
  /\ Len(n.children) = Cardinality(n.bits)

\* The child in a slot.
Child(n, f) == n.children[Index(n.bits, f)]

\* Two nodes that differ in no slot but f.
SameBut(m, n, f) ==
  /\ m.bits \ {f} = n.bits \ {f}
  /\ \A g \in n.bits \ {f} : Child(m, g) = Child(n, g)

LEMMA ChildTypes ==
  ASSUME NEW C, NEW n, Shaped(n, C), NEW f \in n.bits
  PROVE  /\ f \in Slots /\ Index(n.bits, f) \in 1 .. Len(n.children)
         /\ Child(n, f) \in C
<1>1. n.bits \in SUBSET Slots /\ n.children \in Seq(C) /\ Len(n.children) = Cardinality(n.bits)
  BY DEF Shaped
<1>2. f \in Slots /\ Index(n.bits, f) \in 1 .. Len(n.children)
  BY <1>1, IndexInside
<1> QED BY <1>1, <1>2 DEF Child

LEMMA SlotAdded ==
  ASSUME NEW C, NEW n, Shaped(n, C), NEW f \in Slots, f \notin n.bits, NEW c \in C,
         NEW m, m = Node(n.bits \cup {f}, InsertAt(n.children, Index(n.bits, f), c))
  PROVE  Shaped(m, C) /\ f \in m.bits /\ Child(m, f) = c /\ SameBut(m, n, f)
<1> DEFINE i    == Index(n.bits, f)
           more == n.bits \cup {f}
           kids == InsertAt(n.children, i, c)
<1>0. m = Node(more, kids)
  OBVIOUS
<1>1. n.bits \in SUBSET Slots /\ n.children \in Seq(C) /\ Len(n.children) = Cardinality(n.bits)
  BY DEF Shaped
<1>2. i \in 1 .. Len(n.children) + 1
  BY <1>1, IndexInside
<1> HIDE DEF i
<1>3. /\ kids \in Seq(C) /\ Len(kids) = Len(n.children) + 1 /\ kids[i] = c
      /\ \A j \in 1 .. Len(n.children) : kids[IF j < i THEN j ELSE j + 1] = n.children[j]
  BY <1>1, <1>2, InsertFacts
<1> HIDE DEF kids
<1>4. /\ Cardinality(more) = Cardinality(n.bits) + 1
      /\ Index(more, f) = i
      /\ \A g \in n.bits : Index(more, g) = IF Index(n.bits, g) < i THEN Index(n.bits, g) ELSE Index(n.bits, g) + 1
  BY <1>1, IndexAdd DEF i
<1>5. more \in SUBSET Slots
  BY <1>1
<1> HIDE DEF more
<1>6. m.bits = more /\ m.children = kids /\ Shaped(m, C)
  <2>1. m = [tag |-> "node", bits |-> more, children |-> kids]
    BY <1>0 DEF Node
  <2>2. Len(kids) = Cardinality(more)
    BY <1>1, <1>3, <1>4
  <2>3. m \in [tag : {"node"}, bits : SUBSET Slots, children : Seq(C)]
    <3>1. kids \in Seq(C)
      BY <1>3
    <3>2. [tag |-> "node", bits |-> more, children |-> kids]
             \in [tag : {"node"}, bits : SUBSET Slots, children : Seq(C)]
      BY <1>5, <3>1
    <3> QED BY <2>1, <3>2
  <2>4. m.bits = more /\ m.children = kids
    BY <2>1
  <2>5. Len(m.children) = Cardinality(m.bits)
    BY <2>2, <2>4
  <2> QED BY <2>3, <2>4, <2>5 DEF Shaped
<1>7. Child(m, f) = c
  BY <1>3, <1>4, <1>6 DEF Child
<1>8. ASSUME NEW g \in n.bits PROVE Child(m, g) = Child(n, g)
  <2>1. Index(n.bits, g) \in 1 .. Len(n.children)
    BY ChildTypes
  <2>2. kids[Index(more, g)] = n.children[Index(n.bits, g)]
    BY <1>3, <1>4, <2>1
  <2> QED BY <1>6, <2>2 DEF Child
<1> QED BY <1>6, <1>7, <1>8 DEF more, SameBut

LEMMA SlotSet ==
  ASSUME NEW C, NEW n, Shaped(n, C), NEW f \in n.bits, NEW c \in C,
         NEW m, m = SetChild(n, Index(n.bits, f), c)
  PROVE  Shaped(m, C) /\ f \in m.bits /\ Child(m, f) = c /\ SameBut(m, n, f)
<1> DEFINE i == Index(n.bits, f)
           kids == ReplaceAt(n.children, i, c)
<1>1. n.bits \in SUBSET Slots /\ n.children \in Seq(C) /\ Len(n.children) = Cardinality(n.bits)
  BY DEF Shaped
<1>2. \A g \in n.bits : Index(n.bits, g) \in 1 .. Len(n.children)
  BY ChildTypes
<1>3. \A g \in n.bits : g # f => Index(n.bits, g) # i
  BY <1>1, IndexApart
<1>4. i \in 1 .. Len(n.children)
  BY <1>2
<1> HIDE DEF i
<1> HIDE DEF kids
<1>5. /\ kids \in Seq(C) /\ Len(kids) = Len(n.children)
      /\ \A j \in 1 .. Len(n.children) : kids[j] = IF j = i THEN c ELSE n.children[j]
  <2> DEFINE ch == n.children
  <2>1. ch \in Seq(C) /\ i \in 1 .. Len(ch)
    BY <1>1, <1>4
  <2>2. kids = ReplaceAt(ch, i, c)
    BY DEF kids
  <2> HIDE DEF ch
  <2>3. /\ ReplaceAt(ch, i, c) \in Seq(C) /\ Len(ReplaceAt(ch, i, c)) = Len(ch)
        /\ \A j \in 1 .. Len(ch) : ReplaceAt(ch, i, c)[j] = IF j = i THEN c ELSE ch[j]
    <3>1. \A t \in Seq(C) : \A p \in 1 .. Len(t) :
            /\ ReplaceAt(t, p, c) \in Seq(C) /\ Len(ReplaceAt(t, p, c)) = Len(t)
            /\ \A j \in 1 .. Len(t) : ReplaceAt(t, p, c)[j] = IF j = p THEN c ELSE t[j]
      BY ReplaceFacts
    <3> QED BY <2>1, <3>1
  <2> QED BY <2>2, <2>3 DEF ch
<1> HIDE DEF kids
<1>6. m.bits = n.bits /\ m.children = kids /\ Shaped(m, C)
  <2>1. m = SetChild(n, i, c)
    BY DEF i
  <2> QED BY <1>1, <1>5, <2>1 DEF Shaped, SetChild, kids
<1>7. Child(m, f) = c
  BY <1>4, <1>5, <1>6 DEF Child, i
<1>8. \A g \in n.bits : g # f => Child(m, g) = Child(n, g)
  BY <1>2, <1>3, <1>5, <1>6 DEF Child
<1> QED BY <1>6, <1>7, <1>8 DEF SameBut

LEMMA SlotDropped ==
  ASSUME NEW C, NEW n, Shaped(n, C), NEW f \in n.bits,
         NEW m, m = DropSlot(n, f, Index(n.bits, f))
  PROVE  Shaped(m, C) /\ f \notin m.bits /\ SameBut(m, n, f)
<1> DEFINE i    == Index(n.bits, f)
           less == n.bits \ {f}
           kids == RemoveAt(n.children, i)
<1>0. m = DropSlot(n, f, i)
  OBVIOUS
<1>1. n.bits \in SUBSET Slots /\ n.children \in Seq(C) /\ Len(n.children) = Cardinality(n.bits)
  BY DEF Shaped
<1>2. /\ less \in SUBSET Slots /\ f \in Slots /\ f \notin less /\ less \cup {f} = n.bits
  BY <1>1
<1>3. i \in 1 .. Len(n.children)
  BY ChildTypes
<1>4. /\ Cardinality(n.bits) = Cardinality(less) + 1
      /\ i = Index(less, f)
      /\ \A g \in less : Index(n.bits, g) = IF Index(less, g) < i THEN Index(less, g) ELSE Index(less, g) + 1
  <2> HIDE DEF less
  <2>1. /\ Cardinality(less \cup {f}) = Cardinality(less) + 1
        /\ Index(less \cup {f}, f) = Index(less, f)
        /\ \A g \in less : Index(less \cup {f}, g) =
              IF Index(less, g) < Index(less, f) THEN Index(less, g) ELSE Index(less, g) + 1
    BY <1>2, IndexAdd
  <2> QED BY <1>2, <2>1
<1>5. \A g \in less : Index(less, g) \in 1 .. Cardinality(less)
  <2> HIDE DEF less
  <2> QED BY <1>2, IndexInside
<1>6. Cardinality(less) \in Nat
  <2> HIDE DEF less
  <2> QED BY <1>2, BitsFinite
<1> HIDE DEF i, less
<1>7. /\ kids \in Seq(C) /\ Len(kids) = Len(n.children) - 1
      /\ \A j \in 1 .. Len(n.children) - 1 : kids[j] = n.children[IF j < i THEN j ELSE j + 1]
  BY <1>1, <1>3, RemoveFacts
<1> HIDE DEF kids
<1>8. m.bits = less /\ m.children = kids /\ Shaped(m, C)
  <2>1. m = [tag |-> "node", bits |-> less, children |-> kids]
    BY <1>0 DEF DropSlot, Node, kids, less
  <2> QED BY <1>1, <1>2, <1>4, <1>6, <1>7, <2>1 DEF Shaped
<1>9. ASSUME NEW g \in less PROVE Child(m, g) = Child(n, g)
  <2>1. Index(less, g) \in 1 .. Len(n.children) - 1
    BY <1>1, <1>4, <1>5, <1>6
  <2>2. kids[Index(less, g)] = n.children[Index(n.bits, g)]
    BY <1>4, <1>7, <2>1
  <2> QED BY <1>8, <2>2 DEF Child
<1> QED BY <1>8, <1>9 DEF less, SameBut

-----------------------------------------------------------------------------
(* The recursive definitions, unfolded                                     *)

LEMMA TriesUnfolds ==
  Tries = [d \in Depths |-> IF d = Levels THEN {} ELSE NodesOver(Tries[d + 1])]
<1> DEFINE At(d, below) == IF d = Levels THEN {} ELSE NodesOver(below)
           F(f)         == f = [d \in Depths |-> At(d, f[d + 1])]
           Rest(e)      == Levels - e .. Levels
           G(g, e)      == g = [d \in Rest(e) |-> At(d, g[d + 1])]
           S            == {e \in Nat : e <= Levels => \E g : G(g, e)}
<1>1. Levels \in Nat /\ \A b1, b2 : At(Levels, b1) = At(Levels, b2)
  BY HashAssumption
<1>2. Tries = CHOOSE f : F(f)
  BY DEF Tries
<1> HIDE DEF At
<1>3. 0 \in S
  <2> DEFINE g == [d \in Rest(0) |-> At(Levels, 0)]
  <2>1. \A d \in Rest(0) : d = Levels
    BY <1>1
  <2>2. g = [d \in Rest(0) |-> At(d, g[d + 1])]
    BY <1>1, <2>1
  <2> HIDE DEF g
  <2> QED BY <2>2
<1>4. ASSUME NEW e \in Nat, e \in S PROVE e + 1 \in S
  <2> SUFFICES ASSUME e + 1 <= Levels PROVE \E g : G(g, e + 1)
    OBVIOUS
  <2>1. PICK g : G(g, e)
    BY <1>1, <1>4
  <2> DEFINE h == [d \in Rest(e + 1) |-> At(d, g[d + 1])]
  <2>2. ASSUME NEW d \in Rest(e + 1) PROVE h[d] = At(d, h[d + 1])
    <3>1. CASE d = Levels
      BY <1>1, <3>1
    <3>2. CASE d # Levels
      <4>1. d + 1 \in Rest(e) /\ d + 1 \in Rest(e + 1)
        BY <1>1, <3>2
      <4>2. g[d + 1] = At(d + 1, g[d + 2])
        <5>1. g[d + 1] = At(d + 1, g[d + 1 + 1])
          BY <2>1, <4>1
        <5> QED BY <1>1, <5>1
      <4>3. h[d + 1] = At(d + 1, g[d + 2])
        <5>1. h[d + 1] = At(d + 1, g[d + 1 + 1])
          BY <4>1
        <5> QED BY <1>1, <5>1
      <4>4. h[d] = At(d, g[d + 1])
        OBVIOUS
      <4> QED BY <4>2, <4>3, <4>4
    <3> QED BY <3>1, <3>2
  <2>3. h = [d \in Rest(e + 1) |-> At(d, h[d + 1])]
    <3>1. h = [d \in Rest(e + 1) |-> h[d]]
      OBVIOUS
    <3> HIDE DEF h
    <3> QED BY <2>2, <3>1
  <2> HIDE DEF h
  <2> QED BY <2>3
<1>5. Levels \in S
  <2> HIDE DEF S
  <2> QED BY <1>1, <1>3, <1>4, Induction, Zenon
<1>6. PICK g : G(g, Levels)
  BY <1>1, <1>5
<1>7. Rest(Levels) = Depths
  BY <1>1 DEF Depths
<1>8. F(g)
  BY <1>6, <1>7
<1> HIDE DEF F
<1>9. F(Tries)
  BY <1>2, <1>8
<1> QED BY <1>9 DEF F, At

LEMMA TriesFacts ==
  /\ Tries[Levels] = {} /\ 0 \in Depths /\ Levels \in Depths /\ Levels \in Nat
  /\ \A d \in Depths : d # Levels => d + 1 \in Depths /\ Tries[d] = NodesOver(Tries[d + 1])
<1>1. Levels \in Nat \ {0}
  BY HashAssumption
<1>2. 0 \in Depths /\ Levels \in Depths /\ \A d \in Depths : d # Levels => d + 1 \in Depths
  BY <1>1 DEF Depths
<1>3. \A d \in Depths : Tries[d] = IF d = Levels THEN {} ELSE NodesOver(Tries[d + 1])
  BY TriesUnfolds
<1> QED BY <1>1, <1>2, <1>3

LEMMA AllLeavesUnfolds ==
  AllLeaves = [d \in Depths |-> [n \in Tries[d] |-> LeavesIn(n, AllLeaves[d + 1])]]
<1> DEFINE At(d, below) == [n \in Tries[d] |-> LeavesIn(n, below)]
           F(f)         == f = [d \in Depths |-> At(d, f[d + 1])]
           Rest(e)      == Levels - e .. Levels
           G(g, e)      == g = [d \in Rest(e) |-> At(d, g[d + 1])]
           S            == {e \in Nat : e <= Levels => \E g : G(g, e)}
<1>1. Levels \in Nat /\ \A b1, b2 : At(Levels, b1) = At(Levels, b2)
  BY HashAssumption, TriesFacts
<1>2. AllLeaves = CHOOSE f : F(f)
  BY DEF AllLeaves
<1> HIDE DEF At
<1>3. 0 \in S
  <2> DEFINE g == [d \in Rest(0) |-> At(Levels, 0)]
  <2>1. \A d \in Rest(0) : d = Levels
    BY <1>1
  <2>2. g = [d \in Rest(0) |-> At(d, g[d + 1])]
    BY <1>1, <2>1
  <2> HIDE DEF g
  <2> QED BY <2>2
<1>4. ASSUME NEW e \in Nat, e \in S PROVE e + 1 \in S
  <2> SUFFICES ASSUME e + 1 <= Levels PROVE \E g : G(g, e + 1)
    OBVIOUS
  <2>1. PICK g : G(g, e)
    BY <1>1, <1>4
  <2> DEFINE h == [d \in Rest(e + 1) |-> At(d, g[d + 1])]
  <2>2. ASSUME NEW d \in Rest(e + 1) PROVE h[d] = At(d, h[d + 1])
    <3>1. CASE d = Levels
      BY <1>1, <3>1
    <3>2. CASE d # Levels
      <4>1. d + 1 \in Rest(e) /\ d + 1 \in Rest(e + 1)
        BY <1>1, <3>2
      <4>2. g[d + 1] = At(d + 1, g[d + 2])
        <5>1. g[d + 1] = At(d + 1, g[d + 1 + 1])
          BY <2>1, <4>1
        <5> QED BY <1>1, <5>1
      <4>3. h[d + 1] = At(d + 1, g[d + 2])
        <5>1. h[d + 1] = At(d + 1, g[d + 1 + 1])
          BY <4>1
        <5> QED BY <1>1, <5>1
      <4>4. h[d] = At(d, g[d + 1])
        OBVIOUS
      <4> QED BY <4>2, <4>3, <4>4
    <3> QED BY <3>1, <3>2
  <2>3. h = [d \in Rest(e + 1) |-> At(d, h[d + 1])]
    <3>1. h = [d \in Rest(e + 1) |-> h[d]]
      OBVIOUS
    <3> HIDE DEF h
    <3> QED BY <2>2, <3>1
  <2> HIDE DEF h
  <2> QED BY <2>3
<1>5. Levels \in S
  <2> HIDE DEF S
  <2> QED BY <1>1, <1>3, <1>4, Induction, Zenon
<1>6. PICK g : G(g, Levels)
  BY <1>1, <1>5
<1>7. Rest(Levels) = Depths
  BY <1>1 DEF Depths
<1>8. F(g)
  BY <1>6, <1>7
<1> HIDE DEF F
<1>9. F(AllLeaves)
  BY <1>2, <1>8
<1> QED BY <1>9 DEF F, At

LEMMA WellFormedUnfolds ==
  WellFormedAt = [d \in Depths |-> [n \in Tries[d] |-> [hs \in SUBSET Hashes |-> WellFormedIn(n, d, hs, WellFormedAt[d + 1])]]]
<1> DEFINE At(d, below) == [n \in Tries[d] |-> [hs \in SUBSET Hashes |-> WellFormedIn(n, d, hs, below)]]
           F(f)         == f = [d \in Depths |-> At(d, f[d + 1])]
           Rest(e)      == Levels - e .. Levels
           G(g, e)      == g = [d \in Rest(e) |-> At(d, g[d + 1])]
           S            == {e \in Nat : e <= Levels => \E g : G(g, e)}
<1>1. Levels \in Nat /\ \A b1, b2 : At(Levels, b1) = At(Levels, b2)
  BY HashAssumption, TriesFacts
<1>2. WellFormedAt = CHOOSE f : F(f)
  BY DEF WellFormedAt
<1> HIDE DEF At
<1>3. 0 \in S
  <2> DEFINE g == [d \in Rest(0) |-> At(Levels, 0)]
  <2>1. \A d \in Rest(0) : d = Levels
    BY <1>1
  <2>2. g = [d \in Rest(0) |-> At(d, g[d + 1])]
    BY <1>1, <2>1
  <2> HIDE DEF g
  <2> QED BY <2>2
<1>4. ASSUME NEW e \in Nat, e \in S PROVE e + 1 \in S
  <2> SUFFICES ASSUME e + 1 <= Levels PROVE \E g : G(g, e + 1)
    OBVIOUS
  <2>1. PICK g : G(g, e)
    BY <1>1, <1>4
  <2> DEFINE h == [d \in Rest(e + 1) |-> At(d, g[d + 1])]
  <2>2. ASSUME NEW d \in Rest(e + 1) PROVE h[d] = At(d, h[d + 1])
    <3>1. CASE d = Levels
      BY <1>1, <3>1
    <3>2. CASE d # Levels
      <4>1. d + 1 \in Rest(e) /\ d + 1 \in Rest(e + 1)
        BY <1>1, <3>2
      <4>2. g[d + 1] = At(d + 1, g[d + 2])
        <5>1. g[d + 1] = At(d + 1, g[d + 1 + 1])
          BY <2>1, <4>1
        <5> QED BY <1>1, <5>1
      <4>3. h[d + 1] = At(d + 1, g[d + 2])
        <5>1. h[d + 1] = At(d + 1, g[d + 1 + 1])
          BY <4>1
        <5> QED BY <1>1, <5>1
      <4>4. h[d] = At(d, g[d + 1])
        OBVIOUS
      <4> QED BY <4>2, <4>3, <4>4
    <3> QED BY <3>1, <3>2
  <2>3. h = [d \in Rest(e + 1) |-> At(d, h[d + 1])]
    <3>1. h = [d \in Rest(e + 1) |-> h[d]]
      OBVIOUS
    <3> HIDE DEF h
    <3> QED BY <2>2, <3>1
  <2> HIDE DEF h
  <2> QED BY <2>3
<1>5. Levels \in S
  <2> HIDE DEF S
  <2> QED BY <1>1, <1>3, <1>4, Induction, Zenon
<1>6. PICK g : G(g, Levels)
  BY <1>1, <1>5
<1>7. Rest(Levels) = Depths
  BY <1>1 DEF Depths
<1>8. F(g)
  BY <1>6, <1>7
<1> HIDE DEF F
<1>9. F(WellFormedAt)
  BY <1>2, <1>8
<1> QED BY <1>9 DEF F, At

LEMMA FlattenUnfolds ==
  ASSUME NEW seqs, Len(seqs) \in Nat, Len(seqs) # 0
  PROVE  \E f : /\ FlattenSeq(seqs) = f[Len(seqs)]
                /\ \A i \in 1 .. Len(seqs) : f[i] = IF i = 1 THEN seqs[i] ELSE f[i - 1] \o seqs[i]
<1> DEFINE At(i, x) == IF i = 1 THEN seqs[i] ELSE x \o seqs[i]
           F(f)     == f = [i \in 1 .. Len(seqs) |-> At(i, f[i - 1])]
           G(g, e)  == g = [i \in 1 .. 1 + e |-> At(i, g[i - 1])]
           S        == {e \in Nat : \E g : G(g, e)}
<1>1. Len(seqs) - 1 \in Nat /\ 1 + (Len(seqs) - 1) = Len(seqs) /\ \A x, y : At(1, x) = At(1, y)
  OBVIOUS
<1>2. FlattenSeq(seqs) = (CHOOSE f : F(f))[Len(seqs)]
  BY DEF FlattenSeq
<1>3. \A i, x : At(i, x) = IF i = 1 THEN seqs[i] ELSE x \o seqs[i]
  OBVIOUS
<1> HIDE DEF At
<1>4. 0 \in S
  <2> DEFINE g == [i \in 1 .. 1 + 0 |-> At(1, 0)]
  <2>1. \A i \in 1 .. 1 + 0 : i = 1
    OBVIOUS
  <2>2. g = [i \in 1 .. 1 + 0 |-> At(i, g[i - 1])]
    BY <1>1, <2>1
  <2> HIDE DEF g
  <2> QED BY <2>2
<1>5. ASSUME NEW e \in Nat, e \in S PROVE e + 1 \in S
  <2>1. PICK g : G(g, e)
    BY <1>5
  <2> DEFINE h == [i \in 1 .. 1 + (e + 1) |-> At(i, g[i - 1])]
  <2>2. ASSUME NEW i \in 1 .. 1 + (e + 1) PROVE h[i] = At(i, h[i - 1])
    <3>1. CASE i = 1
      BY <1>1, <3>1
    <3>2. CASE i # 1
      <4>1. i - 1 \in 1 .. 1 + e /\ i - 1 \in 1 .. 1 + (e + 1)
        BY <3>2
      <4>2. g[i - 1] = At(i - 1, g[i - 1 - 1])
        BY <2>1, <4>1
      <4>3. h[i - 1] = At(i - 1, g[i - 1 - 1])
        BY <4>1
      <4>4. h[i] = At(i, g[i - 1])
        OBVIOUS
      <4> QED BY <4>2, <4>3, <4>4
    <3> QED BY <3>1, <3>2
  <2>3. h = [i \in 1 .. 1 + (e + 1) |-> At(i, h[i - 1])]
    <3>1. h = [i \in 1 .. 1 + (e + 1) |-> h[i]]
      OBVIOUS
    <3> HIDE DEF h
    <3> QED BY <2>2, <3>1
  <2> HIDE DEF h
  <2> QED BY <2>3
<1>6. Len(seqs) - 1 \in S
  <2> HIDE DEF S
  <2> QED BY <1>1, <1>4, <1>5, Induction, Zenon
<1>7. PICK g : F(g)
  BY <1>1, <1>6
<1> HIDE DEF F
<1>8. F(CHOOSE f : F(f))
  BY <1>7
<1>9. PICK f : F(f) /\ FlattenSeq(seqs) = f[Len(seqs)]
  BY <1>2, <1>8
<1>10. \A i \in 1 .. Len(seqs) : f[i] = At(i, f[i - 1])
  BY <1>9 DEF F
<1> QED BY <1>3, <1>9, <1>10

-----------------------------------------------------------------------------
(* The path of a hash                                                      *)

LEMMA ShiftedUnfolds ==
  ASSUME NEW h \in Nat
  PROVE  \A d \in Depths : /\ Shifted(h)[d] \in Nat
                           /\ Shifted(h)[d] = IF d = 0 THEN h ELSE Shifted(h)[d - 1] \div Fanout
<1> DEFINE At(d, x) == IF d = 0 THEN h ELSE x \div Fanout
           F(f)     == f = [d \in Depths |-> At(d, f[d - 1])]
           G(g, e)  == g = [d \in 0 .. e |-> At(d, g[d - 1])]
           S        == {e \in Nat : \E g : G(g, e)}
<1>1. Levels \in Nat /\ Fanout \in Nat \ {0} /\ Depths = 0 .. Levels
  BY HashAssumption DEF Depths
<1>2. Shifted(h) = CHOOSE f : F(f)
  BY DEF Shifted
<1>3. /\ \A x, y : At(0, x) = At(0, y)
      /\ \A d \in Nat, x \in Nat : At(d, x) \in Nat
  BY <1>1
<1>4. \A d, x : At(d, x) = IF d = 0 THEN h ELSE x \div Fanout
  OBVIOUS
<1> HIDE DEF At
<1>5. 0 \in S
  <2> DEFINE g == [d \in 0 .. 0 |-> At(0, 0)]
  <2>1. \A d \in 0 .. 0 : d = 0
    OBVIOUS
  <2>2. g = [d \in 0 .. 0 |-> At(d, g[d - 1])]
    BY <1>3, <2>1
  <2> HIDE DEF g
  <2> QED BY <2>2
<1>6. ASSUME NEW e \in Nat, e \in S PROVE e + 1 \in S
  <2>1. PICK g : G(g, e)
    BY <1>6
  <2> DEFINE k == [d \in 0 .. e + 1 |-> At(d, g[d - 1])]
  <2>2. ASSUME NEW d \in 0 .. e + 1 PROVE k[d] = At(d, k[d - 1])
    <3>1. CASE d = 0
      BY <1>3, <3>1
    <3>2. CASE d # 0
      <4>1. d - 1 \in 0 .. e /\ d - 1 \in 0 .. e + 1
        BY <3>2
      <4>2. g[d - 1] = At(d - 1, g[d - 1 - 1])
        BY <2>1, <4>1
      <4>3. k[d - 1] = At(d - 1, g[d - 1 - 1])
        BY <4>1
      <4>4. k[d] = At(d, g[d - 1])
        OBVIOUS
      <4> QED BY <4>2, <4>3, <4>4
    <3> QED BY <3>1, <3>2
  <2>3. k = [d \in 0 .. e + 1 |-> At(d, k[d - 1])]
    <3>1. k = [d \in 0 .. e + 1 |-> k[d]]
      OBVIOUS
    <3> HIDE DEF k
    <3> QED BY <2>2, <3>1
  <2> HIDE DEF k
  <2> QED BY <2>3
<1>7. Levels \in S
  <2> HIDE DEF S
  <2> QED BY <1>1, <1>5, <1>6, Induction, Zenon
<1>8. PICK g : F(g)
  BY <1>1, <1>7
<1> HIDE DEF F
<1>9. F(Shifted(h))
  BY <1>2, <1>8
<1> DEFINE s == Shifted(h)
<1> HIDE DEF s
<1>10. \A d \in Depths : s[d] = At(d, s[d - 1])
  BY <1>9 DEF F, s
<1> DEFINE P == {d \in Nat : d \in Depths => s[d] \in Nat}
<1>11. 0 \in P
  BY <1>1, <1>3, <1>4, <1>10
<1>12. ASSUME NEW d \in Nat, d \in P PROVE d + 1 \in P
  <2> SUFFICES ASSUME d + 1 \in Depths PROVE s[d + 1] \in Nat
    OBVIOUS
  <2>1. d \in Depths /\ (d + 1) - 1 = d
    BY <1>1
  <2>2. s[d + 1] = At(d + 1, s[d])
    BY <1>10, <2>1
  <2>3. s[d] \in Nat /\ d + 1 \in Nat
    BY <1>12, <2>1
  <2>4. \A x \in Nat : At(d + 1, x) \in Nat
    BY <1>3, <2>3
  <2> QED BY <2>2, <2>3, <2>4
<1>13. \A d \in Nat : d \in P
  <2> HIDE DEF P
  <2> QED BY <1>11, <1>12, Induction, Zenon
<1>14. \A d \in Depths : s[d] \in Nat
  BY <1>1, <1>13
<1> QED BY <1>4, <1>10, <1>14 DEF s

LEMMA FragmentFacts ==
  ASSUME NEW h \in Hashes, NEW d \in Depths
  PROVE  h \in Nat /\ Fragment(h, d) \in Slots
<1>1. h \in Nat
  BY HashAssumption DEF Hashes
<1>2. Shifted(h)[d] \in Nat /\ Fanout \in Nat \ {0}
  BY <1>1, ShiftedUnfolds, HashAssumption
<1> QED BY <1>1, <1>2 DEF Fragment, Slots

\* A hash is made of its fragments.
LEMMA HashesApart ==
  ASSUME NEW g \in Hashes, NEW h \in Hashes,
         \A d \in 0 .. Levels - 1 : Fragment(g, d) = Fragment(h, d)
  PROVE  g = h
<1> DEFINE s == Shifted(g)
           t == Shifted(h)
           S == {e \in Nat : e <= Levels => s[Levels - e] = t[Levels - e]}
<1>1. g \in Nat /\ h \in Nat /\ s[Levels] = 0 /\ t[Levels] = 0
  BY HashAssumption DEF Hashes
<1>2. Levels \in Nat /\ Fanout \in Nat \ {0} /\ Depths = 0 .. Levels
  BY HashAssumption DEF Depths
<1>3. /\ \A d \in Depths : s[d] \in Nat /\ t[d] \in Nat
      /\ \A d \in Depths : d # 0 => s[d] = s[d - 1] \div Fanout /\ t[d] = t[d - 1] \div Fanout
      /\ s[0] = g /\ t[0] = h
  BY <1>1, <1>2, ShiftedUnfolds
<1>4. \A d \in 0 .. Levels - 1 : s[d] % Fanout = t[d] % Fanout
  BY DEF Fragment
<1> HIDE DEF s, t
<1>5. 0 \in S
  BY <1>1, <1>2
<1>6. ASSUME NEW e \in Nat, e \in S PROVE e + 1 \in S
  <2> SUFFICES ASSUME e + 1 <= Levels PROVE s[Levels - (e + 1)] = t[Levels - (e + 1)]
    OBVIOUS
  <2> DEFINE d == Levels - (e + 1)
  <2>1. d \in 0 .. Levels - 1 /\ d \in Depths /\ d + 1 \in Depths /\ d + 1 # 0 /\ (d + 1) - 1 = d
        /\ Levels - e = d + 1 /\ e <= Levels
    BY <1>2
  <2> HIDE DEF d
  <2>2. s[d + 1] = t[d + 1]
    BY <1>6, <2>1
  <2>3. s[d] \div Fanout = t[d] \div Fanout
    <3>1. s[d + 1] = s[d] \div Fanout /\ t[d + 1] = t[d] \div Fanout
      BY <1>3, <2>1
    <3> QED BY <2>2, <3>1
  <2>4. s[d] % Fanout = t[d] % Fanout /\ s[d] \in Nat /\ t[d] \in Nat
    BY <1>3, <1>4, <2>1
  <2>5. s[d] = t[d]
    BY <1>2, <2>3, <2>4
  <2> QED BY <2>5 DEF d
<1>7. Levels \in S
  <2> HIDE DEF S
  <2> QED BY <1>2, <1>5, <1>6, Induction, Zenon
<1> QED BY <1>2, <1>3, <1>7

\* Hashes with the same first d fragments: those that may meet in a node of depth d.
Path(hs, d) ==
  /\ hs \in SUBSET Hashes
  /\ \A g, h \in hs : \A c \in 0 .. d - 1 : Fragment(g, c) = Fragment(h, c)

\* The hashes that lead to a child.
Below(hs, d, f) == {h \in hs : Fragment(h, d) = f}

LEMMA PathFacts ==
  /\ Path(Hashes, 0)
  /\ \A hs : Path(hs, Levels) => \A g, h \in hs : g = h
  /\ \A hs, f : \A d \in Depths : Path(hs, d) => Path(Below(hs, d, f), d + 1)
<1>1. Path(Hashes, 0)
  BY DEF Path
<1>2. ASSUME NEW hs, Path(hs, Levels), NEW g \in hs, NEW h \in hs PROVE g = h
  BY <1>2, HashesApart DEF Path
<1>3. ASSUME NEW hs, NEW f, NEW d \in Depths, Path(hs, d) PROVE Path(Below(hs, d, f), d + 1)
  <2>1. d \in Nat
    BY HashAssumption DEF Depths
  <2>2. Below(hs, d, f) \in SUBSET hs /\ hs \in SUBSET Hashes
    BY <1>3 DEF Below, Path
  <2>3. ASSUME NEW g \in Below(hs, d, f), NEW h \in Below(hs, d, f), NEW c \in 0 .. (d + 1) - 1
        PROVE  Fragment(g, c) = Fragment(h, c)
    <3>1. CASE c = d
      BY <2>3, <3>1 DEF Below
    <3>2. CASE c # d
      <4>1. c \in 0 .. d - 1
        BY <2>1, <3>2
      <4> QED BY <1>3, <2>2, <4>1 DEF Path
    <3> QED BY <3>1, <3>2
  <2> QED BY <2>2, <2>3 DEF Path
<1> QED BY <1>1, <1>2, <1>3

-----------------------------------------------------------------------------
(* Children                                                                *)

\* What may stand in the slots of a node of depth d.
Kids(d) == Leafs \cup Collisions \cup Tries[d + 1]

\* The depths a node can have.
Inner == 0 .. Levels - 1

LEMMA InnerFacts ==
  /\ Levels \in Nat /\ 0 \in Inner /\ Inner \in SUBSET Depths
  /\ \A d \in Inner : d \in Nat /\ d # Levels /\ d + 1 \in Depths /\ Tries[d] = NodesOver(Tries[d + 1])
  /\ \A d \in Inner : d + 1 # Levels => d + 1 \in Inner
  /\ \A d \in Depths : d # Levels => d \in Inner
BY HashAssumption, TriesFacts DEF Inner, Depths

LEMMA LeafTypes ==
  ASSUME NEW l \in Leafs
  PROVE  l.tag = "leaf" /\ l.key \in Keys /\ Hash[l.key] \in Hashes
BY LeafAssumption DEF Hashes

LEMMA CollisionTypes ==
  ASSUME NEW c \in Collisions
  PROVE  /\ c.tag = "collision" /\ c.hash \in Hashes /\ c.leaves \in Seq(Leafs)
         /\ c = Collision(c.hash, c.leaves)
BY DEF Collisions, Collision

LEMMA NodeTypes ==
  ASSUME NEW d \in Inner, NEW n
  PROVE  n \in Tries[d] <=> n \in [tag : {"node"}, bits : SUBSET Slots, children : Seq(Kids(d))]
BY InnerFacts DEF NodesOver, Kids

\* The kinds of children.
LEMMA KidKinds ==
  ASSUME NEW d \in Inner, NEW c \in Kids(d)
  PROVE  /\ \/ c.tag = "leaf" /\ c \in Leafs
            \/ c.tag = "collision" /\ c \in Collisions
            \/ c.tag = "node" /\ c \in Tries[d + 1] /\ d + 1 \in Inner
<1>1. c \in Leafs \/ c \in Collisions \/ c \in Tries[d + 1]
  BY DEF Kids
<1>2. ASSUME c \in Tries[d + 1] PROVE c.tag = "node" /\ d + 1 \in Inner
  <2>1. d + 1 # Levels
    BY <1>2, TriesFacts
  <2>2. d + 1 \in Inner
    BY <2>1, InnerFacts
  <2>3. c \in [tag : {"node"}, bits : SUBSET Slots, children : Seq(Kids(d + 1))]
    BY <1>2, <2>2, NodeTypes
  <2> QED BY <2>2, <2>3
<1> QED BY <1>1, <1>2, LeafTypes, CollisionTypes

LEMMA SubNode ==
  ASSUME NEW d \in Inner, d + 1 \in Inner, NEW c \in Tries[d + 1]
  PROVE  c.tag = "node" /\ c \in Kids(d)
<1>1. c \in [tag : {"node"}, bits : SUBSET Slots, children : Seq(Kids(d + 1))]
  BY NodeTypes
<1> QED BY <1>1 DEF Kids

\* No two leaves with equal keys.
Once(ls) == \A i, j \in 1 .. Len(ls) : DeepEq(ls[i].key, ls[j].key) => i = j

\* A child that may stand at depth d under the hashes hs.
Fits(c, d, hs) ==
  CASE c.tag = "leaf" -> Hash[c.key] \in hs
    [] c.tag = "collision" ->
         /\ d + 1 = Levels /\ Len(c.leaves) > 1
         /\ \A i \in DOMAIN c.leaves : Hash[c.leaves[i].key] = c.hash
         /\ \A i, j \in DOMAIN c.leaves : DeepEq(c.leaves[i].key, c.leaves[j].key) => i = j
         /\ c.hash \in hs
    [] c.tag = "node" -> WellFormedAt[d + 1][c][hs]

LEMMA FitsCollision ==
  ASSUME NEW d, NEW hs, NEW c \in Collisions
  PROVE  Fits(c, d, hs) <=>
           /\ d + 1 = Levels /\ Len(c.leaves) > 1
           /\ \A i \in 1 .. Len(c.leaves) : Hash[c.leaves[i].key] = c.hash
           /\ Once(c.leaves)
           /\ c.hash \in hs
<1>1. c.tag = "collision" /\ DOMAIN c.leaves = 1 .. Len(c.leaves)
  BY CollisionTypes
<1> QED BY <1>1 DEF Fits, Once

\* A well-formed trie of depth d for keys with hashes in hs.
Good(n, d, hs) == n \in Tries[d] /\ WellFormedAt[d][n][hs]

LEMMA GoodFacts ==
  ASSUME NEW d \in Inner, NEW hs \in SUBSET Hashes, NEW n
  PROVE  Good(n, d, hs) <=> /\ Shaped(n, Kids(d))
                            /\ \A f \in n.bits : Fits(Child(n, f), d, Below(hs, d, f))
<1>1. ASSUME n \in Tries[d]
      PROVE  WellFormedAt[d][n][hs] <=>
               /\ Len(n.children) = Cardinality(n.bits)
               /\ \A f \in n.bits : Fits(Child(n, f), d, Below(hs, d, f))
  <2>1. d \in Depths
    BY InnerFacts
  <2>2. WellFormedAt[d] = [m \in Tries[d] |-> [gs \in SUBSET Hashes |-> WellFormedIn(m, d, gs, WellFormedAt[d + 1])]]
    BY <2>1, WellFormedUnfolds
  <2>3. WellFormedAt[d][n][hs] = WellFormedIn(n, d, hs, WellFormedAt[d + 1])
    BY <1>1, <2>2
  <2> QED BY <2>3 DEF WellFormedIn, Fits, Child, Below
<1>2. n \in Tries[d] <=> n \in [tag : {"node"}, bits : SUBSET Slots, children : Seq(Kids(d))]
  BY NodeTypes
<1> QED BY <1>1, <1>2 DEF Good, Shaped

LEMMA KidFacts ==
  ASSUME NEW d \in Inner, NEW hs \in SUBSET Hashes, NEW n, Good(n, d, hs), NEW f \in n.bits
  PROVE  /\ Child(n, f) \in Kids(d) /\ Fits(Child(n, f), d, Below(hs, d, f))
         /\ Below(hs, d, f) \in SUBSET Hashes
BY GoodFacts, ChildTypes DEF Below

\* The first leaf with a key.
LEMMA FindKeyFacts ==
  ASSUME NEW ls \in Seq(Leafs), NEW k
  PROVE  /\ FindKey(ls, k) \in 0 .. Len(ls)
         /\ FindKey(ls, k) = 0 => \A i \in 1 .. Len(ls) : ~DeepEq(ls[i].key, k)
         /\ FindKey(ls, k) # 0 => DeepEq(ls[FindKey(ls, k)].key, k)
<1> DEFINE I == {i \in 1 .. Len(ls) : DeepEq(ls[i].key, k)}
<1>1. FindKey(ls, k) = IF I # {} THEN Min(I) ELSE 0
  BY DEF FindKey, SelectInSeq
<1>2. ASSUME I # {} PROVE Min(I) \in I
  <2>1. \E x \in I : \A y \in I : x <= y
    <3>1. I \subseteq Nat
      OBVIOUS
    <3> HIDE DEF I
    <3> QED BY <1>2, <3>1, Least
  <2> QED BY <2>1 DEF Min
<1> QED BY <1>1, <1>2

\* Among leaves with no equal keys it is the leaf with that key.
LEMMA FindKeyOnly ==
  ASSUME NEW ls \in Seq(Leafs), Once(ls), NEW j \in 1 .. Len(ls), NEW k, DeepEq(ls[j].key, k)
  PROVE  FindKey(ls, k) = j
<1>1. FindKey(ls, k) # 0
  BY FindKeyFacts
<1>2. FindKey(ls, k) \in 1 .. Len(ls) /\ DeepEq(ls[FindKey(ls, k)].key, k)
  BY <1>1, FindKeyFacts
<1>3. DeepEq(ls[FindKey(ls, k)].key, ls[j].key)
  BY <1>2 DEF DeepEq
<1> QED BY <1>2, <1>3 DEF Once

\* Induction from the last level up.
LEMMA Upward ==
  ASSUME NEW S, \A d \in Inner : (d + 1 \in Inner => d + 1 \in S) => d \in S
  PROVE  \A d \in Inner : d \in S
<1> DEFINE P == {e \in Nat : Levels - 1 - e \in Inner => Levels - 1 - e \in S}
<1>1. Levels \in Nat \ {0} /\ Inner = 0 .. Levels - 1
  BY HashAssumption DEF Inner
<1>2. 0 \in P
  BY <1>1
<1>3. ASSUME NEW e \in Nat, e \in P PROVE e + 1 \in P
  <2> SUFFICES ASSUME Levels - 1 - (e + 1) \in Inner PROVE Levels - 1 - (e + 1) \in S
    OBVIOUS
  <2> DEFINE d == Levels - 1 - (e + 1)
  <2>1. d \in Inner /\ d + 1 = Levels - 1 - e
    BY <1>1
  <2> HIDE DEF d
  <2>2. d + 1 \in Inner => d + 1 \in S
    BY <1>3, <2>1
  <2>3. d \in S
    BY <2>1, <2>2
  <2> QED BY <2>3 DEF d
<1>4. \A e \in Nat : e \in P
  <2> HIDE DEF P
  <2> QED BY <1>2, <1>3, Induction, Zenon
<1>5. ASSUME NEW d \in Inner PROVE d \in S
  <2>1. Levels - 1 - d \in Nat /\ Levels - 1 - (Levels - 1 - d) = d
    BY <1>1
  <2>2. Levels - 1 - d \in P
    BY <1>4, <2>1
  <2> QED BY <2>1, <2>2
<1> QED BY <1>5

\* A node with another child in one slot.
LEMMA OtherChild ==
  ASSUME NEW d \in Inner, NEW hs \in SUBSET Hashes, NEW n, NEW m, NEW f, Good(n, d, hs),
         Shaped(m, Kids(d)), SameBut(m, n, f),
         f \in m.bits => Fits(Child(m, f), d, Below(hs, d, f))
  PROVE  Good(m, d, hs)
<1>1. \A g \in n.bits : Fits(Child(n, g), d, Below(hs, d, g))
  BY GoodFacts
<1>2. \A g \in m.bits : Fits(Child(m, g), d, Below(hs, d, g))
  BY <1>1 DEF SameBut
<1> QED BY <1>2, GoodFacts

\* A leaf by itself in a node.
LEMMA AloneGood ==
  ASSUME NEW d \in Inner, NEW hs \in SUBSET Hashes, NEW l \in Leafs, Hash[l.key] \in hs
  PROVE  /\ Good(Alone(l, d), d, hs)
         /\ Alone(l, d).bits = {Fragment(Hash[l.key], d)}
         /\ Child(Alone(l, d), Fragment(Hash[l.key], d)) = l
<1> DEFINE f == Fragment(Hash[l.key], d)
           n == Alone(l, d)
<1>1. f \in Slots
  BY LeafTypes, FragmentFacts, InnerFacts
<1>2. n = [tag |-> "node", bits |-> {f}, children |-> <<l>>]
  BY DEF Alone, Node
<1>3. Shaped(n, Kids(d))
  <2>1. l \in Kids(d) /\ <<l>> \in Seq(Kids(d)) /\ Len(<<l>>) = 1
    BY DEF Kids
  <2>2. Cardinality({f}) = 1
    BY FS_Singleton
  <2> HIDE DEF n, f
  <2> QED BY <1>1, <1>2, <2>1, <2>2 DEF Shaped
<1>4. Child(n, f) = l
  <2>1. {b \in {f} : b < f} = {}
    <3>1. f \in Int
      BY <1>1 DEF Slots
    <3> HIDE DEF f
    <3> QED BY <3>1
  <2>2. Index({f}, f) = 1
    BY <2>1, FS_EmptySet DEF Index
  <2> HIDE DEF f, n
  <2> QED BY <1>2, <2>2 DEF Child
<1>5. Fits(l, d, Below(hs, d, f))
  BY LeafTypes DEF Fits, Below
<1>6. n.bits = {f}
  BY <1>2
<1> HIDE DEF n
<1>7. Good(n, d, hs)
  BY <1>3, <1>4, <1>5, <1>6, GoodFacts
<1> QED BY <1>4, <1>6, <1>7 DEF n

LEMMA EmptyGood ==
  /\ Empty.bits = {} /\ Good(Empty, 0, Hashes)
  /\ 0 \in Inner /\ Path(Hashes, 0) /\ Hashes \in SUBSET Hashes /\ \A k \in Keys : Hash[k] \in Hashes
<1>1. Empty = [tag |-> "node", bits |-> {}, children |-> <<>>]
  BY DEF Empty, Node
<1>2. Empty.bits = {} /\ Shaped(Empty, Kids(0))
  <2>1. <<>> \in Seq(Kids(0)) /\ Len(<<>>) = 0 /\ Cardinality({}) = 0
    BY FS_EmptySet
  <2> QED BY <1>1, <2>1 DEF Shaped
<1>3. 0 \in Inner /\ Path(Hashes, 0) /\ Hashes \in SUBSET Hashes /\ \A k \in Keys : Hash[k] \in Hashes
  BY InnerFacts, PathFacts DEF Hashes
<1>4. Good(Empty, 0, Hashes)
  BY <1>2, <1>3, GoodFacts
<1> QED BY <1>2, <1>3, <1>4

-----------------------------------------------------------------------------
(* The leaves a walk meets                                                 *)

\* Appending a sequence of leaves with other keys.
LEMMA AppendLeaves ==
  ASSUME NEW s \in Seq(Leafs), NEW t \in Seq(Leafs),
         Once(s), Once(t), \A p \in 1 .. Len(s), q \in 1 .. Len(t) : ~DeepEq(s[p].key, t[q].key)
  PROVE  /\ s \o t \in Seq(Leafs) /\ Len(s \o t) = Len(s) + Len(t)
         /\ \A p \in 1 .. Len(s) : p \in 1 .. Len(s \o t) /\ (s \o t)[p] = s[p]
         /\ \A q \in 1 .. Len(t) : Len(s) + q \in 1 .. Len(s \o t) /\ (s \o t)[Len(s) + q] = t[q]
         /\ \A p \in 1 .. Len(s \o t) :
              \/ p \in 1 .. Len(s)
              \/ p - Len(s) \in 1 .. Len(t) /\ (s \o t)[p] = t[p - Len(s)]
         /\ Once(s \o t)
<1> DEFINE u == s \o t
<1>1. Len(s) \in Nat /\ Len(t) \in Nat /\ u \in Seq(Leafs)
  OBVIOUS
<1>2. Len(u) = Len(s) + Len(t)
  OBVIOUS
<1>3. \A p \in 1 .. Len(s) : u[p] = s[p]
  OBVIOUS
<1>4. \A p \in 1 .. Len(s) + Len(t) : p > Len(s) => u[p] = t[p - Len(s)]
  OBVIOUS
<1> HIDE DEF u
<1>5. \A p \in 1 .. Len(u) : p \in 1 .. Len(s) \/ (p - Len(s) \in 1 .. Len(t) /\ u[p] = t[p - Len(s)])
  BY <1>1, <1>2, <1>4
<1>6. \A q \in 1 .. Len(t) : Len(s) + q \in 1 .. Len(u) /\ u[Len(s) + q] = t[q]
  <2> SUFFICES ASSUME NEW q \in 1 .. Len(t) PROVE Len(s) + q \in 1 .. Len(u) /\ u[Len(s) + q] = t[q]
    OBVIOUS
  <2>1. Len(s) + q \in 1 .. Len(s) + Len(t) /\ Len(s) + q > Len(s) /\ (Len(s) + q) - Len(s) = q
    BY <1>1
  <2> QED BY <1>2, <1>4, <2>1
<1>7. ASSUME NEW p \in 1 .. Len(u), NEW q \in 1 .. Len(u), DeepEq(u[p].key, u[q].key) PROVE p = q
  <2>1. CASE p \in 1 .. Len(s) /\ q \in 1 .. Len(s)
    BY <1>3, <1>7, <2>1 DEF Once
  <2>2. CASE p \in 1 .. Len(s) /\ q \notin 1 .. Len(s)
    <3>1. q - Len(s) \in 1 .. Len(t) /\ u[q] = t[q - Len(s)] /\ u[p] = s[p]
      BY <1>3, <1>5, <2>2
    <3> QED BY <1>7, <2>2, <3>1
  <2>3. CASE p \notin 1 .. Len(s) /\ q \in 1 .. Len(s)
    <3>1. p - Len(s) \in 1 .. Len(t) /\ u[p] = t[p - Len(s)] /\ u[q] = s[q]
      BY <1>3, <1>5, <2>3
    <3> QED BY <1>7, <2>3, <3>1 DEF DeepEq
  <2>4. CASE p \notin 1 .. Len(s) /\ q \notin 1 .. Len(s)
    <3>1. p - Len(s) = q - Len(s)
      BY <1>5, <1>7, <2>4 DEF Once
    <3> QED BY <1>1, <3>1
  <2> QED BY <2>1, <2>2, <2>3, <2>4
<1>8. \A p \in 1 .. Len(s) : p \in 1 .. Len(u)
  BY <1>1, <1>2
<1> QED BY <1>1, <1>2, <1>3, <1>5, <1>6, <1>7, <1>8 DEF u, Once

\* f holds the leaves of the first m of the sequences seqs, and no key twice.
Joins(f, seqs, m) ==
  /\ f \in Seq(Leafs)
  /\ \A p \in 1 .. Len(f) : \E i \in 1 .. m : \E j \in 1 .. Len(seqs[i]) : f[p] = seqs[i][j]
  /\ \A i \in 1 .. m : \A j \in 1 .. Len(seqs[i]) : \E p \in 1 .. Len(f) : f[p] = seqs[i][j]
  /\ Once(f)

\* Sequences of leaves, no key twice in them all.
Apart(seqs) ==
  /\ seqs \in Seq(Seq(Leafs))
  /\ \A i, ii \in 1 .. Len(seqs) : \A j \in 1 .. Len(seqs[i]), jj \in 1 .. Len(seqs[ii]) :
       DeepEq(seqs[i][j].key, seqs[ii][jj].key) => i = ii /\ j = jj

LEMMA JoinsOne ==
  ASSUME NEW seqs, Apart(seqs), Len(seqs) >= 1
  PROVE  Joins(seqs[1], seqs, 1)
<1>1. 1 \in 1 .. Len(seqs) /\ seqs[1] \in Seq(Leafs)
  BY DEF Apart
<1>2. \A i \in 1 .. 1 : i = 1
  OBVIOUS
<1>3. Once(seqs[1])
  BY <1>1 DEF Apart, Once
<1> DEFINE s == seqs[1]
<1>4. \A p \in 1 .. Len(s) : \E i \in 1 .. 1 : \E j \in 1 .. Len(seqs[i]) : s[p] = seqs[i][j]
  OBVIOUS
<1>5. \A i \in 1 .. 1 : \A j \in 1 .. Len(seqs[i]) : \E p \in 1 .. Len(s) : s[p] = seqs[i][j]
  BY <1>2
<1> QED BY <1>1, <1>3, <1>4, <1>5 DEF Joins

LEMMA JoinsMore ==
  ASSUME NEW seqs, Apart(seqs), NEW m \in Nat, m >= 1, m + 1 <= Len(seqs),
         NEW s, Joins(s, seqs, m)
  PROVE  Joins(s \o seqs[m + 1], seqs, m + 1)
<1> DEFINE t == seqs[m + 1]
           u == s \o t
<1>1. /\ m + 1 \in 1 .. Len(seqs) /\ t \in Seq(Leafs) /\ s \in Seq(Leafs)
      /\ \A i \in 1 .. m : i \in 1 .. Len(seqs) /\ i # m + 1 /\ i \in 1 .. m + 1
      /\ \A i \in 1 .. m + 1 : i = m + 1 \/ i \in 1 .. m
      /\ m + 1 \in 1 .. m + 1
  BY DEF Apart, Joins
<1>2. Once(t)
  BY <1>1 DEF Apart, Once
<1>3. Once(s)
  BY DEF Joins
<1>4. ASSUME NEW p \in 1 .. Len(s), NEW q \in 1 .. Len(t) PROVE ~DeepEq(s[p].key, t[q].key)
  <2>1. PICK i \in 1 .. m : \E j \in 1 .. Len(seqs[i]) : s[p] = seqs[i][j]
    BY DEF Joins
  <2>2. PICK j \in 1 .. Len(seqs[i]) : s[p] = seqs[i][j]
    BY <2>1
  <2> QED BY <1>1, <2>2 DEF Apart
<1>5. /\ u \in Seq(Leafs) /\ Len(u) = Len(s) + Len(t)
      /\ \A p \in 1 .. Len(s) : p \in 1 .. Len(u) /\ u[p] = s[p]
      /\ \A q \in 1 .. Len(t) : Len(s) + q \in 1 .. Len(u) /\ u[Len(s) + q] = t[q]
      /\ \A p \in 1 .. Len(u) : p \in 1 .. Len(s) \/ (p - Len(s) \in 1 .. Len(t) /\ u[p] = t[p - Len(s)])
      /\ Once(u)
  <2> HIDE DEF t
  <2> QED BY <1>1, <1>2, <1>3, <1>4, AppendLeaves, Zenon
<1> HIDE DEF u
<1>6. ASSUME NEW p \in 1 .. Len(u)
      PROVE  \E i \in 1 .. m + 1 : \E j \in 1 .. Len(seqs[i]) : u[p] = seqs[i][j]
  <2>1. CASE p \in 1 .. Len(s)
    <3>1. PICK i \in 1 .. m : \E j \in 1 .. Len(seqs[i]) : s[p] = seqs[i][j]
      BY <2>1 DEF Joins
    <3> QED BY <1>1, <1>5, <2>1, <3>1
  <2>2. CASE p - Len(s) \in 1 .. Len(t) /\ u[p] = t[p - Len(s)]
    BY <1>1, <2>2
  <2> QED BY <1>5, <2>1, <2>2
<1>7. ASSUME NEW i \in 1 .. m + 1, NEW j \in 1 .. Len(seqs[i])
      PROVE  \E p \in 1 .. Len(u) : u[p] = seqs[i][j]
  <2>1. CASE i = m + 1
    BY <1>5, <2>1
  <2>2. CASE i \in 1 .. m
    <3>1. PICK p \in 1 .. Len(s) : s[p] = seqs[i][j]
      BY <2>2 DEF Joins
    <3> QED BY <1>5, <3>1
  <2> QED BY <1>1, <2>1, <2>2
<1> QED BY <1>5, <1>6, <1>7 DEF Joins, u

LEMMA FlattenFacts ==
  ASSUME NEW seqs, Apart(seqs)
  PROVE  Joins(FlattenSeq(seqs), seqs, Len(seqs))
<1>1. Len(seqs) \in Nat /\ seqs \in Seq(Seq(Leafs))
  BY DEF Apart
<1>2. CASE Len(seqs) = 0
  <2>1. FlattenSeq(seqs) = seqs
    BY <1>2 DEF FlattenSeq
  <2>2. seqs = <<>>
    BY <1>1, <1>2
  <2>3. Joins(<<>>, <<>>, 0)
    <3>1. Len(<<>>) = 0 /\ <<>> \in Seq(Leafs) /\ 1 .. 0 = {}
      OBVIOUS
    <3> QED BY <3>1 DEF Joins, Once
  <2> QED BY <1>2, <2>1, <2>2, <2>3
<1>3. CASE Len(seqs) # 0
  <2>1. PICK f : /\ FlattenSeq(seqs) = f[Len(seqs)]
                 /\ \A i \in 1 .. Len(seqs) : f[i] = IF i = 1 THEN seqs[i] ELSE f[i - 1] \o seqs[i]
    BY <1>1, <1>3, FlattenUnfolds
  <2> DEFINE S == {e \in Nat : e + 1 <= Len(seqs) => Joins(f[e + 1], seqs, e + 1)}
  <2>2. 0 \in S
    <3>1. f[1] = seqs[1]
      BY <1>1, <1>3, <2>1
    <3>2. Joins(seqs[1], seqs, 1)
      BY <1>1, <1>3, JoinsOne
    <3> QED BY <3>1, <3>2
  <2>3. ASSUME NEW e \in Nat, e \in S PROVE e + 1 \in S
    <3> SUFFICES ASSUME (e + 1) + 1 <= Len(seqs) PROVE Joins(f[(e + 1) + 1], seqs, (e + 1) + 1)
      OBVIOUS
    <3> DEFINE m == e + 1
    <3>1. m \in Nat /\ m >= 1 /\ m + 1 <= Len(seqs) /\ m + 1 \in 1 .. Len(seqs) /\ m + 1 # 1
          /\ (m + 1) - 1 = m
      BY <1>1
    <3>2. Joins(f[m], seqs, m)
      BY <1>1, <2>3, <3>1
    <3> HIDE DEF m
    <3>3. f[m + 1] = f[m] \o seqs[m + 1]
      BY <2>1, <3>1
    <3>4. Joins(f[m] \o seqs[m + 1], seqs, m + 1)
      BY <3>1, <3>2, JoinsMore
    <3> QED BY <3>3, <3>4 DEF m
  <2>4. \A e \in Nat : e \in S
    <3> HIDE DEF S
    <3> QED BY <2>2, <2>3, Induction, Zenon
  <2>5. Len(seqs) - 1 \in Nat /\ (Len(seqs) - 1) + 1 = Len(seqs)
    BY <1>1, <1>3
  <2>6. Joins(f[Len(seqs)], seqs, Len(seqs))
    <3>1. Len(seqs) - 1 \in S
      BY <2>4, <2>5
    <3>2. (Len(seqs) - 1) + 1 <= Len(seqs)
      BY <1>1
    <3>3. Joins(f[(Len(seqs) - 1) + 1], seqs, (Len(seqs) - 1) + 1)
      BY <3>1, <3>2
    <3> QED BY <2>5, <3>3
  <2> QED BY <2>1, <2>6
<1> QED BY <1>2, <1>3

\* What the walk meets at a child.
KidLeaves(c, d) ==
  CASE c.tag = "leaf" -> <<c>>
    [] c.tag = "collision" -> c.leaves
    [] c.tag = "node" -> AllLeaves[d + 1][c]

\* The leaves of a node of depth d, and of its child.
Holds(n, d)    == Range(AllLeaves[d][n])
KidHolds(c, d) == Range(KidLeaves(c, d))

LEMMA RangeFacts ==
  ASSUME NEW S, NEW s \in Seq(S)
  PROVE  /\ DOMAIN s = 1 .. Len(s) /\ Len(s) \in Nat
         /\ \A l : l \in Range(s) <=> \E i \in 1 .. Len(s) : l = s[i]
BY DEF Range

\* Leaves for keys with hashes in hs, no two of them equal.
Walked(ls, hs) ==
  /\ ls \in Seq(Leafs)
  /\ \A i \in 1 .. Len(ls) : Hash[ls[i].key] \in hs
  /\ Once(ls)

LeavesRight(d) ==
  \A n, hs : Good(n, d, hs) /\ hs \in SUBSET Hashes => Walked(AllLeaves[d][n], hs)

LEMMA KidWalked ==
  ASSUME NEW d \in Inner, NEW hs \in SUBSET Hashes, NEW c \in Kids(d), Fits(c, d, hs),
         d + 1 \in Inner => LeavesRight(d + 1)
  PROVE  Walked(KidLeaves(c, d), hs)
<1>1. CASE c.tag = "leaf" /\ c \in Leafs
  <2> DEFINE ls == <<c>>
  <2>1. KidLeaves(c, d) = ls
    BY <1>1 DEF KidLeaves
  <2>2. ls \in Seq(Leafs) /\ Len(ls) = 1 /\ ls[1] = c /\ \A i \in 1 .. 1 : i = 1
    BY <1>1
  <2>3. c.key \in Keys /\ Hash[c.key] \in hs
    BY <1>1, LeafTypes DEF Fits
  <2> HIDE DEF ls
  <2> QED BY <2>1, <2>2, <2>3 DEF Walked, Once
<1>2. CASE c.tag = "collision" /\ c \in Collisions
  <2> DEFINE ls == c.leaves
  <2>1. KidLeaves(c, d) = ls
    BY <1>2 DEF KidLeaves
  <2>2. /\ ls \in Seq(Leafs) /\ c.hash \in hs /\ Once(ls)
        /\ \A i \in 1 .. Len(ls) : Hash[ls[i].key] = c.hash
    BY <1>2, CollisionTypes, FitsCollision
  <2> HIDE DEF ls
  <2> QED BY <2>1, <2>2 DEF Walked
<1>3. CASE c.tag = "node" /\ c \in Tries[d + 1] /\ d + 1 \in Inner
  <2>1. KidLeaves(c, d) = AllLeaves[d + 1][c]
    BY <1>3 DEF KidLeaves
  <2>2. Good(c, d + 1, hs)
    BY <1>3 DEF Fits, Good
  <2> QED BY <1>3, <2>1, <2>2 DEF LeavesRight
<1> QED BY <1>1, <1>2, <1>3, KidKinds

\* The leaves of a node are those of its children.
LEMMA LeavesJoined ==
  ASSUME NEW d \in Inner, NEW hs \in SUBSET Hashes, NEW n, Good(n, d, hs),
         d + 1 \in Inner => LeavesRight(d + 1)
  PROVE  /\ Walked(AllLeaves[d][n], hs)
         /\ \A l : l \in Holds(n, d) <=> \E f \in n.bits : l \in KidHolds(Child(n, f), d)
<1> DEFINE len  == Len(n.children)
           seqs == [i \in 1 .. len |-> KidLeaves(n.children[i], d)]
           ls   == AllLeaves[d][n]
           kids(f) == KidLeaves(Child(n, f), d)
<1>1. n \in Tries[d] /\ Shaped(n, Kids(d)) /\ d \in Depths
  BY GoodFacts, InnerFacts DEF Good
<1>2. /\ n.bits \in SUBSET Slots /\ n.children \in Seq(Kids(d)) /\ len = Cardinality(n.bits)
      /\ len \in Nat /\ DOMAIN n.children = 1 .. len
  BY <1>1 DEF Shaped
<1>3. ls = FlattenSeq(seqs)
  <2>1. AllLeaves[d] = [x \in Tries[d] |-> LeavesIn(x, AllLeaves[d + 1])]
    BY <1>1, AllLeavesUnfolds
  <2>2. ls = LeavesIn(n, AllLeaves[d + 1])
    BY <1>1, <2>1
  <2> QED BY <1>2, <2>2 DEF LeavesIn, KidLeaves
<1>4. ASSUME NEW f \in n.bits
      PROVE  /\ Index(n.bits, f) \in 1 .. len /\ seqs[Index(n.bits, f)] = kids(f)
             /\ Walked(kids(f), Below(hs, d, f))
  <2>1. Index(n.bits, f) \in 1 .. len
    BY <1>2, IndexInside
  <2>2. Child(n, f) \in Kids(d) /\ Fits(Child(n, f), d, Below(hs, d, f)) /\ Below(hs, d, f) \in SUBSET Hashes
    BY KidFacts
  <2>3. Walked(kids(f), Below(hs, d, f))
    BY <2>2, KidWalked
  <2> QED BY <2>1, <2>3 DEF Child
<1>5. \A i \in 1 .. len : \E f \in n.bits : Index(n.bits, f) = i
  BY <1>2, IndexOnto
<1>6. DOMAIN seqs = 1 .. len
  OBVIOUS
<1> HIDE DEF seqs, len, kids
<1>7. \A i \in 1 .. len : \E f \in n.bits : i = Index(n.bits, f) /\ seqs[i] = kids(f)
  BY <1>4, <1>5
<1>8. \A f \in n.bits : \A j \in 1 .. Len(kids(f)) :
        Hash[kids(f)[j].key] \in hs /\ Fragment(Hash[kids(f)[j].key], d) = f
  BY <1>4 DEF Walked, Below
<1>9. seqs \in Seq(Seq(Leafs)) /\ Len(seqs) = len
  <2>1. \A i \in 1 .. len : seqs[i] \in Seq(Leafs)
    BY <1>4, <1>7 DEF Walked
  <2>2. seqs \in [1 .. len -> Seq(Leafs)]
    BY <1>6, <2>1 DEF seqs
  <2> QED BY <1>2, <2>2
<1>10. Apart(seqs)
  <2> SUFFICES ASSUME NEW i \in 1 .. len, NEW ii \in 1 .. len,
                      NEW j \in 1 .. Len(seqs[i]), NEW jj \in 1 .. Len(seqs[ii]),
                      DeepEq(seqs[i][j].key, seqs[ii][jj].key)
               PROVE  i = ii /\ j = jj
    BY <1>9 DEF Apart
  <2>1. PICK f \in n.bits : i = Index(n.bits, f) /\ seqs[i] = kids(f)
    BY <1>7
  <2>2. PICK g \in n.bits : ii = Index(n.bits, g) /\ seqs[ii] = kids(g)
    BY <1>7
  <2>3. f = g
    BY <1>8, <2>1, <2>2 DEF DeepEq
  <2>4. Once(kids(f))
    BY <1>4 DEF Walked
  <2> QED BY <2>1, <2>2, <2>3, <2>4 DEF Once
<1>11. Joins(ls, seqs, len)
  BY <1>3, <1>9, <1>10, FlattenFacts
<1> HIDE DEF ls
<1>12. ls \in Seq(Leafs) /\ Once(ls)
  BY <1>11 DEF Joins
<1>13. ASSUME NEW p \in 1 .. Len(ls)
       PROVE  \E f \in n.bits : \E j \in 1 .. Len(kids(f)) : ls[p] = kids(f)[j]
  <2>1. PICK i \in 1 .. len : \E j \in 1 .. Len(seqs[i]) : ls[p] = seqs[i][j]
    BY <1>11 DEF Joins
  <2>2. PICK f \in n.bits : i = Index(n.bits, f) /\ seqs[i] = kids(f)
    BY <1>7
  <2> QED BY <2>1, <2>2
<1>14. ASSUME NEW f \in n.bits, NEW j \in 1 .. Len(kids(f))
       PROVE  \E p \in 1 .. Len(ls) : ls[p] = kids(f)[j]
  <2>1. \A i \in 1 .. len : \A jj \in 1 .. Len(seqs[i]) : \E p \in 1 .. Len(ls) : ls[p] = seqs[i][jj]
    BY <1>11 DEF Joins
  <2>2. PICK i \in 1 .. len : seqs[i] = kids(f)
    BY <1>4
  <2> QED BY <2>1, <2>2
<1>15. \A p \in 1 .. Len(ls) : Hash[ls[p].key] \in hs
  BY <1>8, <1>13
<1>16. ASSUME NEW l PROVE l \in Holds(n, d) <=> \E f \in n.bits : l \in KidHolds(Child(n, f), d)
  <2>1. l \in Holds(n, d) <=> \E p \in 1 .. Len(ls) : l = ls[p]
    BY <1>12, RangeFacts DEF Holds, ls
  <2>2. \A f \in n.bits : l \in KidHolds(Child(n, f), d) <=> \E j \in 1 .. Len(kids(f)) : l = kids(f)[j]
    BY <1>4, RangeFacts DEF KidHolds, Walked, kids
  <2>3. ASSUME l \in Holds(n, d) PROVE \E f \in n.bits : l \in KidHolds(Child(n, f), d)
    <3>1. PICK p \in 1 .. Len(ls) : l = ls[p]
      BY <2>1, <2>3
    <3>2. PICK f \in n.bits : \E j \in 1 .. Len(kids(f)) : ls[p] = kids(f)[j]
      BY <1>13
    <3> QED BY <2>2, <3>1, <3>2
  <2>4. ASSUME NEW f \in n.bits, l \in KidHolds(Child(n, f), d) PROVE l \in Holds(n, d)
    <3>1. PICK j \in 1 .. Len(kids(f)) : l = kids(f)[j]
      BY <2>2, <2>4
    <3>2. PICK p \in 1 .. Len(ls) : ls[p] = kids(f)[j]
      BY <1>14
    <3> QED BY <2>1, <3>1, <3>2
  <2> QED BY <2>3, <2>4
<1> QED BY <1>12, <1>15, <1>16 DEF Walked, ls

LEMMA LeavesFacts ==
  \A d \in Inner : LeavesRight(d)
<1> DEFINE S == {d \in Inner : LeavesRight(d)}
<1>1. ASSUME NEW d \in Inner, d + 1 \in Inner => d + 1 \in S PROVE d \in S
  BY <1>1, LeavesJoined DEF LeavesRight
<1>2. \A d \in Inner : d \in S
  <2> HIDE DEF S
  <2> QED BY <1>1, Upward, Zenon
<1> QED BY <1>2

\* The leaves of a trie, and of a child that fits, lie on their paths.
LEMMA HoldsFacts ==
  ASSUME NEW d \in Inner, NEW hs \in SUBSET Hashes, NEW n, Good(n, d, hs)
  PROVE  /\ \A l \in Holds(n, d) : l \in Leafs /\ Hash[l.key] \in hs
         /\ \A l : l \in Holds(n, d) <=>
                     /\ Fragment(Hash[l.key], d) \in n.bits
                     /\ l \in KidHolds(Child(n, Fragment(Hash[l.key], d)), d)
<1>1. /\ Walked(AllLeaves[d][n], hs)
      /\ \A l : l \in Holds(n, d) <=> \E f \in n.bits : l \in KidHolds(Child(n, f), d)
  BY LeavesFacts, LeavesJoined
<1>2. \A l \in Holds(n, d) : l \in Leafs /\ Hash[l.key] \in hs
  BY <1>1, RangeFacts DEF Holds, Walked
<1>3. ASSUME NEW f \in n.bits, NEW l \in KidHolds(Child(n, f), d) PROVE Fragment(Hash[l.key], d) = f
  <2>1. Walked(KidLeaves(Child(n, f), d), Below(hs, d, f))
    BY KidFacts, KidWalked, LeavesFacts
  <2> QED BY <2>1, RangeFacts DEF KidHolds, Walked, Below
<1> QED BY <1>1, <1>2, <1>3

LEMMA KidHoldsFacts ==
  ASSUME NEW d \in Inner, NEW hs \in SUBSET Hashes, NEW c \in Kids(d), Fits(c, d, hs)
  PROVE  /\ \A l \in KidHolds(c, d) : l \in Leafs /\ Hash[l.key] \in hs
         /\ c.tag = "leaf" => KidHolds(c, d) = {c}
         /\ c.tag = "collision" => KidHolds(c, d) = Range(c.leaves)
         /\ c.tag = "node" => KidHolds(c, d) = Holds(c, d + 1)
<1>1. Walked(KidLeaves(c, d), hs)
  BY KidWalked, LeavesFacts
<1>2. \A l \in KidHolds(c, d) : l \in Leafs /\ Hash[l.key] \in hs
  BY <1>1, RangeFacts DEF KidHolds, Walked
<1>3. ASSUME c.tag = "leaf" PROVE KidHolds(c, d) = {c}
  <2>1. KidLeaves(c, d) = <<c>>
    BY <1>3 DEF KidLeaves
  <2>2. \A l : l \in KidHolds(c, d) <=> \E i \in 1 .. Len(<<c>>) : l = <<c>>[i]
    BY <1>1, <2>1, RangeFacts DEF KidHolds, Walked
  <2> QED BY <2>2
<1>4. ASSUME c.tag = "collision" PROVE KidHolds(c, d) = Range(c.leaves)
  BY <1>4 DEF KidHolds, KidLeaves
<1>5. ASSUME c.tag = "node" PROVE KidHolds(c, d) = Holds(c, d + 1)
  BY <1>5 DEF KidHolds, Holds, KidLeaves
<1> QED BY <1>2, <1>3, <1>4, <1>5

LEMMA AloneHolds ==
  ASSUME NEW d \in Inner, NEW hs \in SUBSET Hashes, NEW l \in Leafs, Hash[l.key] \in hs
  PROVE  Holds(Alone(l, d), d) = {l}
<1> DEFINE n == Alone(l, d)
           f == Fragment(Hash[l.key], d)
<1>1. Good(n, d, hs) /\ n.bits = {f} /\ Child(n, f) = l
  BY AloneGood
<1>2. l \in Kids(d) /\ l.tag = "leaf" /\ Fits(l, d, hs)
  BY LeafTypes DEF Kids, Fits
<1>3. KidHolds(l, d) = {l}
  BY <1>2, KidHoldsFacts
<1>4. \A x : x \in Holds(n, d) <=> /\ Fragment(Hash[x.key], d) \in n.bits
                                   /\ x \in KidHolds(Child(n, Fragment(Hash[x.key], d)), d)
  BY <1>1, HoldsFacts
<1> HIDE DEF n
<1>5. \A x : x \in Holds(n, d) <=> x = l
  BY <1>1, <1>3, <1>4
<1> QED BY <1>5 DEF n

LEMMA EmptyHolds ==
  Holds(Empty, 0) = {}
BY EmptyGood, HoldsFacts

\* A leaf that fits is all there is at its place.
LEMMA LeafHolds ==
  ASSUME NEW d \in Inner, NEW hs \in SUBSET Hashes, NEW l \in Leafs, Hash[l.key] \in hs
  PROVE  l \in Kids(d) /\ l.tag = "leaf" /\ Fits(l, d, hs) /\ KidHolds(l, d) = {l}
<1>1. l \in Kids(d) /\ l.tag = "leaf" /\ Fits(l, d, hs)
  BY LeafTypes DEF Kids, Fits
<1> QED BY <1>1, KidHoldsFacts

\* The slot of a key, and the hashes that lead to it.
LEMMA SlotFacts ==
  ASSUME NEW d \in Inner, NEW hs, Path(hs, d), NEW k \in Keys, Hash[k] \in hs
  PROVE  /\ hs \in SUBSET Hashes /\ Fragment(Hash[k], d) \in Slots
         /\ LET gs == Below(hs, d, Fragment(Hash[k], d))
            IN  gs \in SUBSET Hashes /\ Path(gs, d + 1) /\ Hash[k] \in gs
<1>1. hs \in SUBSET Hashes /\ d \in Depths
  BY InnerFacts DEF Path
<1>2. Fragment(Hash[k], d) \in Slots
  BY <1>1, FragmentFacts
<1>3. Path(Below(hs, d, Fragment(Hash[k], d)), d + 1)
  BY <1>1, PathFacts
<1> QED BY <1>1, <1>2, <1>3 DEF Below

-----------------------------------------------------------------------------
(* A node with one child changed                                           *)

\* Leaves that lead elsewhere are where they were.
LEMMA OtherLeaves ==
  ASSUME NEW d \in Inner, NEW hs \in SUBSET Hashes, NEW n, NEW m, NEW f,
         Good(n, d, hs), Good(m, d, hs), SameBut(m, n, f)
  PROVE  \A l : Fragment(Hash[l.key], d) # f => (l \in Holds(m, d) <=> l \in Holds(n, d))
<1> SUFFICES ASSUME NEW l, Fragment(Hash[l.key], d) # f
             PROVE  l \in Holds(m, d) <=> l \in Holds(n, d)
  OBVIOUS
<1> DEFINE g == Fragment(Hash[l.key], d)
<1>1. /\ l \in Holds(m, d) <=> g \in m.bits /\ l \in KidHolds(Child(m, g), d)
      /\ l \in Holds(n, d) <=> g \in n.bits /\ l \in KidHolds(Child(n, g), d)
  BY HoldsFacts
<1>2. g \in m.bits <=> g \in n.bits
  BY DEF SameBut
<1>3. g \in n.bits => Child(m, g) = Child(n, g)
  BY DEF SameBut
<1> QED BY <1>1, <1>2, <1>3

\* At the slot f the node m has the leaves S, elsewhere those of n.
Swapped(m, n, f, d, S) ==
  \A l : l \in Holds(m, d) <=> l \in IF Fragment(Hash[l.key], d) = f THEN S ELSE Holds(n, d)

\* A child put into a slot, free or not.
LEMMA SlotPut ==
  ASSUME NEW d \in Inner, NEW hs \in SUBSET Hashes, NEW n, Good(n, d, hs),
         NEW f \in Slots, NEW x \in Kids(d), Fits(x, d, Below(hs, d, f)), NEW m,
         \/ f \notin n.bits /\ m = Node(n.bits \cup {f}, InsertAt(n.children, Index(n.bits, f), x))
         \/ f \in n.bits /\ m = SetChild(n, Index(n.bits, f), x)
  PROVE  Good(m, d, hs) /\ Swapped(m, n, f, d, KidHolds(x, d))
<1>1. Shaped(n, Kids(d))
  BY GoodFacts
<1>2. Shaped(m, Kids(d)) /\ f \in m.bits /\ Child(m, f) = x /\ SameBut(m, n, f)
  BY <1>1, SlotAdded, SlotSet
<1>3. Good(m, d, hs)
  <2>1. f \in m.bits => Fits(Child(m, f), d, Below(hs, d, f))
    BY <1>2
  <2> QED BY <1>2, <2>1, OtherChild, Zenon
<1>4. \A l : Fragment(Hash[l.key], d) # f => (l \in Holds(m, d) <=> l \in Holds(n, d))
  BY <1>2, <1>3, OtherLeaves
<1>5. \A l : l \in Holds(m, d) <=> /\ Fragment(Hash[l.key], d) \in m.bits
                                   /\ l \in KidHolds(Child(m, Fragment(Hash[l.key], d)), d)
  BY <1>3, HoldsFacts
<1> QED BY <1>2, <1>3, <1>4, <1>5 DEF Swapped

\* A slot cleared.
LEMMA SlotCleared ==
  ASSUME NEW d \in Inner, NEW hs \in SUBSET Hashes, NEW n, Good(n, d, hs),
         NEW f \in n.bits, NEW m, m = DropSlot(n, f, Index(n.bits, f))
  PROVE  Good(m, d, hs) /\ Swapped(m, n, f, d, {})
<1>1. Shaped(n, Kids(d))
  BY GoodFacts
<1>2. Shaped(m, Kids(d)) /\ f \notin m.bits /\ SameBut(m, n, f)
  BY <1>1, SlotDropped
<1>3. Good(m, d, hs)
  BY <1>2, OtherChild, Zenon
<1>4. \A l : Fragment(Hash[l.key], d) # f => (l \in Holds(m, d) <=> l \in Holds(n, d))
  BY <1>2, <1>3, OtherLeaves
<1>5. \A l : l \in Holds(m, d) => Fragment(Hash[l.key], d) \in m.bits
  BY <1>3, HoldsFacts
<1> QED BY <1>2, <1>3, <1>4, <1>5 DEF Swapped

-----------------------------------------------------------------------------
(* Collisions                                                              *)

LEMMA CollisionIs ==
  ASSUME NEW d \in Inner, NEW hs \in SUBSET Hashes, NEW c \in Collisions, Fits(c, d, hs)
  PROVE  /\ d + 1 = Levels /\ Len(c.leaves) > 1 /\ Len(c.leaves) \in Nat /\ c.hash \in hs /\ c.hash \in Hashes
         /\ c.tag = "collision" /\ c \in Kids(d) /\ c.leaves \in Seq(Leafs) /\ Once(c.leaves)
         /\ \A i \in 1 .. Len(c.leaves) : Hash[c.leaves[i].key] = c.hash
         /\ KidHolds(c, d) = Range(c.leaves)
<1>1. c.tag = "collision" /\ c \in Kids(d) /\ c.leaves \in Seq(Leafs) /\ c.hash \in Hashes
  BY CollisionTypes DEF Kids
<1>2. /\ d + 1 = Levels /\ Len(c.leaves) > 1 /\ c.hash \in hs /\ Once(c.leaves)
      /\ \A i \in 1 .. Len(c.leaves) : Hash[c.leaves[i].key] = c.hash
  BY FitsCollision
<1>3. KidHolds(c, d) = Range(c.leaves)
  BY <1>1, KidHoldsFacts
<1> QED BY <1>1, <1>2, <1>3

\* A collision of these leaves.
Collides(x, d, hs, ls) ==
  /\ x \in Kids(d) /\ x.tag = "collision" /\ Fits(x, d, hs)
  /\ KidHolds(x, d) = Range(ls)

LEMMA CollisionOf ==
  ASSUME NEW d \in Inner, d + 1 = Levels, NEW hs \in SUBSET Hashes, NEW h \in hs,
         NEW ls \in Seq(Leafs), Len(ls) > 1, Once(ls), \A i \in 1 .. Len(ls) : Hash[ls[i].key] = h
  PROVE  Collides(Collision(h, ls), d, hs, ls)
<1> DEFINE x == Collision(h, ls)
<1>1. x.tag = "collision" /\ x.hash = h /\ x.leaves = ls /\ x \in Collisions
  BY DEF Collision, Collisions
<1> HIDE DEF x
<1>2. Fits(x, d, hs)
  BY <1>1, FitsCollision
<1>3. x \in Kids(d) /\ KidHolds(x, d) = Range(x.leaves)
  BY <1>1, <1>2, CollisionIs
<1>4. Collides(x, d, hs, ls)
  BY <1>1, <1>2, <1>3 DEF Collides
<1> QED BY <1>4 DEF x

\* One more leaf.
LEMMA CollisionMore ==
  ASSUME NEW d \in Inner, NEW hs, Path(hs, d + 1), NEW c \in Collisions, Fits(c, d, hs),
         NEW l \in Leafs, Hash[l.key] \in hs, FindKey(c.leaves, l.key) = 0,
         NEW x, x = Collision(c.hash, Append(c.leaves, l))
  PROVE  /\ x \in Kids(d) /\ x.tag = "collision" /\ Fits(x, d, hs)
         /\ KidHolds(x, d) = KidHolds(c, d) \cup {l}
<1> DEFINE ls == c.leaves
           ms == Append(ls, l)
<1>1. hs \in SUBSET Hashes
  BY DEF Path
<1>2. /\ d + 1 = Levels /\ Len(ls) > 1 /\ Len(ls) \in Nat /\ c.hash \in hs /\ ls \in Seq(Leafs) /\ Once(ls)
      /\ \A i \in 1 .. Len(ls) : Hash[ls[i].key] = c.hash
      /\ KidHolds(c, d) = Range(ls)
  BY <1>1, CollisionIs
<1>3. Hash[l.key] = c.hash
  BY <1>2, PathFacts
<1>4. \A i \in 1 .. Len(ls) : ~DeepEq(ls[i].key, l.key)
  BY <1>2, FindKeyFacts
<1> HIDE DEF ls
<1>5. /\ ms \in Seq(Leafs) /\ Len(ms) = Len(ls) + 1 /\ ms[Len(ls) + 1] = l
      /\ \A i \in 1 .. Len(ls) : ms[i] = ls[i]
  BY <1>2
<1>6. /\ \A i \in 1 .. Len(ms) : i \in 1 .. Len(ls) \/ i = Len(ls) + 1
      /\ \A i \in 1 .. Len(ls) : i \in 1 .. Len(ms)
      /\ Len(ls) + 1 \in 1 .. Len(ms) /\ Len(ms) > 1
  BY <1>2, <1>5
<1> HIDE DEF ms
<1>7. \A i \in 1 .. Len(ms) : Hash[ms[i].key] = c.hash
  BY <1>2, <1>3, <1>5, <1>6
<1>8. Once(ms)
  <2> SUFFICES ASSUME NEW i \in 1 .. Len(ms), NEW j \in 1 .. Len(ms), DeepEq(ms[i].key, ms[j].key)
               PROVE  i = j
    BY DEF Once
  <2>1. DeepEq(ms[j].key, ms[i].key)
    BY DEF DeepEq
  <2>2. CASE i \in 1 .. Len(ls) /\ j \in 1 .. Len(ls)
    BY <1>2, <1>5, <2>2 DEF Once
  <2>3. CASE i \in 1 .. Len(ls) /\ j = Len(ls) + 1
    BY <1>4, <1>5, <2>3
  <2>4. CASE i = Len(ls) + 1 /\ j \in 1 .. Len(ls)
    BY <1>4, <1>5, <2>1, <2>4
  <2> QED BY <1>6, <2>2, <2>3, <2>4
<1>9. x = Collision(c.hash, ms)
  BY DEF ms, ls
<1>10. d + 1 = Levels /\ c.hash \in hs /\ Len(ms) > 1
  BY <1>2, <1>6
<1>11. Collides(x, d, hs, ms)
  BY <1>1, <1>5, <1>7, <1>8, <1>9, <1>10, CollisionOf
<1>12. /\ \A y : y \in Range(ms) <=> \E i \in 1 .. Len(ms) : y = ms[i]
       /\ \A y : y \in Range(ls) <=> \E i \in 1 .. Len(ls) : y = ls[i]
  BY <1>2, <1>5, RangeFacts
<1>13. \A y : y \in Range(ms) <=> y \in Range(ls) \/ y = l
  BY <1>5, <1>6, <1>12
<1>14. KidHolds(x, d) = KidHolds(c, d) \cup {l}
  BY <1>2, <1>11, <1>13 DEF Collides
<1> QED BY <1>11, <1>14 DEF Collides

\* A collision of two leaves.
LEMMA CollisionMade ==
  ASSUME NEW d \in Inner, d + 1 = Levels, NEW hs, Path(hs, d + 1),
         NEW a \in Leafs, NEW b \in Leafs, Hash[a.key] \in hs, Hash[b.key] \in hs,
         ~DeepEq(a.key, b.key), NEW x, x = Collision(Hash[b.key], <<a, b>>)
  PROVE  /\ x \in Kids(d) /\ x.tag = "collision" /\ Fits(x, d, hs)
         /\ KidHolds(x, d) = {a, b}
<1> DEFINE ls == <<a, b>>
<1>1. ls \in Seq(Leafs) /\ Len(ls) = 2 /\ ls[1] = a /\ ls[2] = b /\ \A i \in 1 .. 2 : i = 1 \/ i = 2
  OBVIOUS
<1>2. hs \in SUBSET Hashes /\ Hash[a.key] = Hash[b.key]
  BY PathFacts DEF Path
<1> HIDE DEF ls
<1>3. Once(ls)
  BY <1>1 DEF Once, DeepEq
<1>4. \A i \in 1 .. Len(ls) : Hash[ls[i].key] = Hash[b.key]
  BY <1>1, <1>2
<1>5. Len(ls) > 1 /\ x = Collision(Hash[b.key], ls)
  BY <1>1 DEF ls
<1>6. Collides(x, d, hs, ls)
  BY <1>1, <1>2, <1>3, <1>4, <1>5, CollisionOf
<1>7. \A y : y \in Range(ls) <=> \E i \in 1 .. Len(ls) : y = ls[i]
  BY <1>1, RangeFacts
<1>8. \A y : y \in Range(ls) <=> y = a \/ y = b
  BY <1>1, <1>7
<1> QED BY <1>6, <1>8 DEF Collides

AllBut(ls, j) == {ls[i] : i \in (1 .. Len(ls)) \ {j}}

\* One leaf less: of two leaves, the other stays by itself.
LEMMA CollisionLess ==
  ASSUME NEW d \in Inner, NEW hs \in SUBSET Hashes, NEW c \in Collisions, Fits(c, d, hs),
         NEW j \in 1 .. Len(c.leaves), NEW x, x = DropLeaf(c, j)
  PROVE  /\ x \in Kids(d) /\ Fits(x, d, hs)
         /\ KidHolds(x, d) = AllBut(c.leaves, j)
<1> DEFINE ls == c.leaves
<1>1. /\ d + 1 = Levels /\ Len(ls) > 1 /\ Len(ls) \in Nat /\ c.hash \in hs /\ ls \in Seq(Leafs) /\ Once(ls)
      /\ \A i \in 1 .. Len(ls) : Hash[ls[i].key] = c.hash
  BY CollisionIs
<1>2. j \in 1 .. Len(ls) /\ x = IF Len(ls) = 2 THEN ls[3 - j] ELSE Collision(c.hash, RemoveAt(ls, j))
  BY DEF DropLeaf
<1> HIDE DEF ls
<1>3. CASE Len(ls) = 2
  <2>1. 3 - j \in 1 .. Len(ls) /\ 3 - j # j /\ \A i \in 1 .. Len(ls) : i = j \/ i = 3 - j
    BY <1>2, <1>3
  <2>2. PICK o \in 1 .. Len(ls) : o = 3 - j
    BY <2>1
  <2>3. ls[o] \in Leafs /\ Hash[ls[o].key] \in hs /\ x = ls[o]
    <3>1. ls[o] \in Leafs
      BY <1>1
    <3>2. Hash[ls[o].key] \in hs
      BY <1>1
    <3>3. x = ls[o]
      BY <1>2, <1>3, <2>2
    <3> QED BY <3>1, <3>2, <3>3
  <2>4. x \in Kids(d) /\ Fits(x, d, hs) /\ x.tag = "leaf"
    BY <2>3, LeafTypes DEF Kids, Fits
  <2>5. KidHolds(x, d) = {x}
    BY <2>4, KidHoldsFacts
  <2>6. \A y : (\E i \in 1 .. Len(ls) : i # j /\ y = ls[i]) <=> y = x
    BY <2>1, <2>2, <2>3
  <2> QED BY <2>4, <2>5, <2>6 DEF ls, AllBut
<1>4. CASE Len(ls) # 2
  <2> DEFINE ms == RemoveAt(ls, j)
             q(i) == IF i < j THEN i ELSE i + 1
  <2>1. x = Collision(c.hash, ms)
    BY <1>2, <1>4
  <2>2. /\ ms \in Seq(Leafs) /\ Len(ms) = Len(ls) - 1
        /\ \A i \in 1 .. Len(ls) : i # j => ms[IF i < j THEN i ELSE i - 1] = ls[i]
        /\ \A i \in 1 .. Len(ls) - 1 : ms[i] = ls[q(i)]
    BY <1>1, <1>2, RemoveFacts
  <2>3. Len(ls) \in Nat /\ j \in Nat /\ Len(ls) > 2
    <3>1. \A len \in Nat : len > 1 /\ len # 2 => len > 2
      OBVIOUS
    <3>2. j \in Nat
      BY <1>1, <1>2
    <3> QED BY <1>1, <1>4, <3>1, <3>2, Zenon
  <2>4. \A i \in 1 .. Len(ms) : q(i) \in 1 .. Len(ls) /\ q(i) # j /\ ms[i] = ls[q(i)]
    <3> HIDE DEF ms
    <3> QED BY <2>2, <2>3
  <2>5. \A i, ii \in 1 .. Len(ms) : q(i) = q(ii) => i = ii
    <3> HIDE DEF ms
    <3> QED BY <2>2, <2>3
  <2>6. \A i \in 1 .. Len(ls) : i # j => \E ii \in 1 .. Len(ms) : ms[ii] = ls[i]
    <3> HIDE DEF ms
    <3> SUFFICES ASSUME NEW i \in 1 .. Len(ls), i # j PROVE \E ii \in 1 .. Len(ms) : ms[ii] = ls[i]
      OBVIOUS
    <3>1. ASSUME i < j PROVE i \in 1 .. Len(ms) /\ ms[i] = ls[i]
      BY <1>2, <2>2, <2>3, <3>1
    <3>2. ASSUME ~(i < j) PROVE i - 1 \in 1 .. Len(ms) /\ ms[i - 1] = ls[i]
      BY <1>2, <2>2, <2>3, <3>2
    <3> QED BY <3>1, <3>2
  <2> HIDE DEF ms, q
  <2>7. \A i \in 1 .. Len(ms) : Hash[ms[i].key] = c.hash
    BY <1>1, <2>4
  <2>8. Once(ms)
    BY <1>1, <2>4, <2>5 DEF Once
  <2>9. Len(ms) > 1
    BY <2>2, <2>3
  <2>10. d + 1 = Levels /\ c.hash \in hs /\ ms \in Seq(Leafs)
    BY <1>1, <2>2
  <2>11. Collides(x, d, hs, ms)
    BY <2>1, <2>7, <2>8, <2>9, <2>10, CollisionOf
  <2>12. \A l : l \in Range(ms) <=> \E i \in 1 .. Len(ms) : l = ms[i]
    BY <2>10, RangeFacts
  <2>13. \A l : l \in Range(ms) <=> \E i \in 1 .. Len(ls) : i # j /\ l = ls[i]
    <3>1. ASSUME NEW l, l \in Range(ms) PROVE \E i \in 1 .. Len(ls) : i # j /\ l = ls[i]
      BY <2>4, <2>12, <3>1
    <3>2. ASSUME NEW i \in 1 .. Len(ls), i # j PROVE ls[i] \in Range(ms)
      BY <2>6, <2>12, <3>2
    <3> QED BY <3>1, <3>2
  <2> QED BY <2>11, <2>13 DEF ls, Collides, AllBut
<1> QED BY <1>3, <1>4
-----------------------------------------------------------------------------
(* The comparisons on the way to a key                                     *)

LEMMA ComparesUnfolds ==
  ASSUME NEW k
  PROVE  Compares(k) = [d \in Depths |-> [n \in Tries[d] |-> ComparedIn(n, k, d, Compares(k)[d + 1])]]
<1> DEFINE At(d, below) == [n \in Tries[d] |-> ComparedIn(n, k, d, below)]
           F(f)         == f = [d \in Depths |-> At(d, f[d + 1])]
           Rest(e)      == Levels - e .. Levels
           G(g, e)      == g = [d \in Rest(e) |-> At(d, g[d + 1])]
           S            == {e \in Nat : e <= Levels => \E g : G(g, e)}
<1>1. Levels \in Nat /\ \A b1, b2 : At(Levels, b1) = At(Levels, b2)
  BY HashAssumption, TriesFacts
<1>2. Compares(k) = CHOOSE f : F(f)
  BY DEF Compares
<1> HIDE DEF At
<1>3. 0 \in S
  <2> DEFINE g == [d \in Rest(0) |-> At(Levels, 0)]
  <2>1. \A d \in Rest(0) : d = Levels
    BY <1>1
  <2>2. g = [d \in Rest(0) |-> At(d, g[d + 1])]
    BY <1>1, <2>1
  <2> HIDE DEF g
  <2> QED BY <2>2
<1>4. ASSUME NEW e \in Nat, e \in S PROVE e + 1 \in S
  <2> SUFFICES ASSUME e + 1 <= Levels PROVE \E g : G(g, e + 1)
    OBVIOUS
  <2>1. PICK g : G(g, e)
    BY <1>1, <1>4
  <2> DEFINE h == [d \in Rest(e + 1) |-> At(d, g[d + 1])]
  <2>2. ASSUME NEW d \in Rest(e + 1) PROVE h[d] = At(d, h[d + 1])
    <3>1. CASE d = Levels
      BY <1>1, <3>1
    <3>2. CASE d # Levels
      <4>1. d + 1 \in Rest(e) /\ d + 1 \in Rest(e + 1)
        BY <1>1, <3>2
      <4>2. g[d + 1] = At(d + 1, g[d + 2])
        <5>1. g[d + 1] = At(d + 1, g[d + 1 + 1])
          BY <2>1, <4>1
        <5> QED BY <1>1, <5>1
      <4>3. h[d + 1] = At(d + 1, g[d + 2])
        <5>1. h[d + 1] = At(d + 1, g[d + 1 + 1])
          BY <4>1
        <5> QED BY <1>1, <5>1
      <4>4. h[d] = At(d, g[d + 1])
        OBVIOUS
      <4> QED BY <4>2, <4>3, <4>4
    <3> QED BY <3>1, <3>2
  <2>3. h = [d \in Rest(e + 1) |-> At(d, h[d + 1])]
    <3>1. h = [d \in Rest(e + 1) |-> h[d]]
      OBVIOUS
    <3> HIDE DEF h
    <3> QED BY <2>2, <3>1
  <2> HIDE DEF h
  <2> QED BY <2>3
<1>5. Levels \in S
  <2> HIDE DEF S
  <2> QED BY <1>1, <1>3, <1>4, Induction, Zenon
<1>6. PICK g : G(g, Levels)
  BY <1>1, <1>5
<1>7. Rest(Levels) = Depths
  BY <1>1 DEF Depths
<1>8. F(g)
  BY <1>6, <1>7
<1> HIDE DEF F
<1>9. F(Compares(k))
  BY <1>2, <1>8
<1> QED BY <1>9 DEF F, At

\* A walk compares nothing but keys of the trie.
Stored(s, n, d) == \A l \in Range(s) : \E e \in Holds(n, d) : e.key = l

ComparedRight(d) ==
  \A n, hs : \A k \in Keys :
    Good(n, d, hs) /\ Path(hs, d) /\ Hash[k] \in hs =>
      Stored(Compares(k)[d][n], n, d)

LEMMA ComparedStep ==
  ASSUME NEW d \in Inner, d + 1 \in Inner => ComparedRight(d + 1),
         NEW n, NEW hs, NEW k \in Keys, Good(n, d, hs), Path(hs, d), Hash[k] \in hs
  PROVE  Stored(Compares(k)[d][n], n, d)
<1> SUFFICES ASSUME NEW l \in Range(Compares(k)[d][n])
             PROVE  \E e \in Holds(n, d) : e.key = l
  BY DEF Stored
<1> DEFINE f  == Fragment(Hash[k], d)
           gs == Below(hs, d, f)
           c  == n.children[Index(n.bits, f)]
           s  == Compares(k)[d][n]
<1>1. /\ hs \in SUBSET Hashes /\ f \in Slots /\ gs \in SUBSET Hashes /\ Path(gs, d + 1)
      /\ Hash[k] \in gs
  BY SlotFacts
<1>2. s = ComparedIn(n, k, d, Compares(k)[d + 1])
  <2>1. d \in Depths /\ n \in Tries[d]
    BY InnerFacts DEF Good
  <2>2. Compares(k)[d] = [x \in Tries[d] |-> ComparedIn(x, k, d, Compares(k)[d + 1])]
    BY <2>1, ComparesUnfolds
  <2> QED BY <2>1, <2>2
<1>3. PICK i \in DOMAIN s : l = s[i]
  BY DEF Range
<1>4. CASE f \notin n.bits
  <2>1. s = <<>>
    BY <1>2, <1>4 DEF ComparedIn
  <2> QED BY <1>3, <2>1
<1>5. CASE f \in n.bits
  <2>1. c \in Kids(d) /\ Fits(c, d, gs)
    BY <1>1, <1>5, KidFacts DEF Child
  <2>2. \A e \in KidHolds(c, d) : e \in Holds(n, d)
    <3>1. \A e : e \in Holds(n, d) <=> \E g \in n.bits : e \in KidHolds(Child(n, g), d)
      BY <1>1, LeavesFacts, LeavesJoined
    <3> QED BY <1>5, <3>1 DEF Child
  <2>3. CASE c.tag = "node" /\ c \in Tries[d + 1] /\ d + 1 \in Inner
    <3>1. s = Compares(k)[d + 1][c]
      BY <1>2, <1>5, <2>3 DEF ComparedIn
    <3>2. Good(c, d + 1, gs)
      BY <2>1, <2>3 DEF Fits, Good
    <3>3. KidHolds(c, d) = Holds(c, d + 1)
      BY <1>1, <2>1, <2>3, KidHoldsFacts
    <3> HIDE DEF c, gs, s
    <3>4. l \in Range(Compares(k)[d + 1][c])
      BY <3>1 DEF s
    <3>5. \E e \in Holds(c, d + 1) : e.key = l
      BY <1>1, <2>3, <3>2, <3>4 DEF ComparedRight, Stored
    <3> QED BY <2>2, <3>3, <3>5
  <2>4. CASE c.tag = "collision" /\ c \in Collisions
    <3> DEFINE j == FindKey(c.leaves, k)
               keys == [m \in DOMAIN c.leaves |-> c.leaves[m].key]
    <3>1. s = IF j = 0 THEN keys ELSE SubSeq(keys, 1, j)
      BY <1>2, <1>5, <2>4 DEF ComparedIn
    <3>2. c.leaves \in Seq(Leafs) /\ KidHolds(c, d) = Range(c.leaves)
      BY <1>1, <2>1, <2>4, CollisionIs
    <3>3. /\ DOMAIN c.leaves = 1 .. Len(c.leaves) /\ Len(c.leaves) \in Nat
          /\ \A e : e \in KidHolds(c, d) <=> \E m \in 1 .. Len(c.leaves) : e = c.leaves[m]
      BY <3>2, RangeFacts
    <3>4. j \in 0 .. Len(c.leaves)
      BY <3>2, FindKeyFacts
    <3> HIDE DEF c, s, j
    <3>5. /\ keys \in Seq(Keys) /\ Len(keys) = Len(c.leaves)
          /\ \A m \in 1 .. Len(c.leaves) : keys[m] = c.leaves[m].key
      <4>1. \A m \in 1 .. Len(c.leaves) : c.leaves[m].key \in Keys
        BY <3>2, LeafTypes
      <4> QED BY <3>3, <4>1
    <3> HIDE DEF keys
    <3>6. i \in 1 .. Len(c.leaves) /\ s[i] = keys[i]
      <4>1. CASE j = 0
        BY <1>3, <3>1, <3>3, <3>5, <4>1
      <4>2. CASE j # 0
        <5>1. s = SubSeq(keys, 1, j) /\ j \in 1 .. Len(keys)
          BY <3>1, <3>3, <3>4, <3>5, <4>2
        <5>2. Len(s) = j /\ s \in Seq(Keys) /\ \A m \in 1 .. j : s[m] = keys[m]
          BY <3>5, <5>1
        <5> QED BY <1>3, <3>3, <3>4, <3>5, <5>2
      <4> QED BY <4>1, <4>2
    <3> QED BY <1>3, <2>2, <3>3, <3>5, <3>6
  <2>5. CASE c.tag = "leaf" /\ c \in Leafs
    <3>1. s = <<c.key>>
      BY <1>2, <1>5, <2>5 DEF ComparedIn
    <3>2. KidHolds(c, d) = {c}
      BY <1>1, <2>1, <2>5, KidHoldsFacts
    <3> HIDE DEF c, s
    <3>3. l = c.key
      BY <1>3, <3>1
    <3> QED BY <2>2, <3>2, <3>3
  <2> HIDE DEF c
  <2> QED BY <2>1, <2>3, <2>4, <2>5, KidKinds
<1> QED BY <1>4, <1>5

LEMMA ComparedFacts ==
  \A d \in Inner : ComparedRight(d)
<1> DEFINE S == {d \in Inner : ComparedRight(d)}
<1>1. ASSUME NEW d \in Inner, d + 1 \in Inner => d + 1 \in S PROVE d \in S
  BY <1>1, ComparedStep DEF ComparedRight
<1>2. \A d \in Inner : d \in S
  <2> HIDE DEF S
  <2> QED BY <1>1, Upward, Zenon
<1> QED BY <1>2

=============================================================================
