---------------------------- MODULE LexerProofs ----------------------------
(* What holds of the tokens of any text: they are well typed, blocks that are
   started are ended, there are at most three a byte, and between them lies
   nothing but white space. *)
EXTENDS Lexer, FiniteSetTheorems, WellFoundedInduction, TLAPS

-----------------------------------------------------------------------------
(* Numbers and finite sets of them *)

LEMMA Least ==
  ASSUME NEW S, S \subseteq Nat, S # {}
  PROVE  \E x \in S : \A y \in S : x <= y
<1>1. \E x \in S : \A y \in S : ~(<<y, x>> \in OpToRel(<, Nat))
  BY NatLessThanWellFounded, WFMin
<1>2. PICK x \in S : \A y \in S : ~(<<y, x>> \in {ss \in Nat \X Nat : ss[1] < ss[2]})
  BY <1>1 DEF OpToRel
<1>3. ASSUME NEW y \in S, y < x PROVE FALSE
  <2>1. <<y, x>> \in Nat \X Nat /\ <<y, x>>[1] < <<y, x>>[2]
    BY <1>3
  <2>2. <<y, x>> \in {ss \in Nat \X Nat : ss[1] < ss[2]}
    BY <2>1
  <2> QED BY <1>2, <2>2
<1>4. \A y \in S : ~(y < x)
  BY <1>3
<1>5. \A y \in S : y \in Nat /\ x \in Nat
  OBVIOUS
<1> QED BY <1>4, <1>5

LEMMA MinFacts ==
  ASSUME NEW S, S \subseteq Nat, S # {}
  PROVE  Min(S) \in S /\ \A y \in S : Min(S) <= y
BY Least DEF Min

LEMMA MaxFacts ==
  ASSUME NEW S, NEW n \in Nat, S \subseteq 0..n, S # {}
  PROVE  Max(S) \in S /\ \A y \in S : y <= Max(S)
<1> DEFINE T == {m \in Nat : m <= n /\ n - m \in S}
<1>1. \A y \in S : y \in 0..n /\ n - y \in Nat /\ n - y <= n /\ n - (n - y) = y
  OBVIOUS
<1>2. \A y \in S : n - y \in T
  BY <1>1
<1>3. T \subseteq Nat /\ T # {}
  BY <1>2
<1>4. PICK z \in T : \A y \in T : z <= y
  <2> HIDE DEF T
  <2> QED BY <1>3, Least
<1>5. n - z \in S /\ z \in Nat /\ z <= n
  OBVIOUS
<1>6. \A y \in S : y <= n - z
  BY <1>1, <1>2, <1>4, <1>5
<1>7. \E x \in S : \A y \in S : x >= y
  BY <1>1, <1>5, <1>6
<1> HIDE DEF T
<1>8. Max(S) \in S /\ \A y \in S : Max(S) >= y
  BY <1>7 DEF Max
<1>9. \A x, y \in S : x >= y => y <= x
  BY <1>1
<1> QED BY <1>8, <1>9

\* The principle of induction, for a set of numbers.
LEMMA Induction ==
  ASSUME NEW S, 0 \in S, \A n \in Nat : n \in S => n + 1 \in S
  PROVE  \A n \in Nat : n \in S
<1> SUFFICES ASSUME Nat \ S # {} PROVE FALSE
  OBVIOUS
<1>1. PICK x \in Nat \ S : \A y \in Nat \ S : x <= y
  BY Least, Nat \ S \subseteq Nat
<1>2. x # 0 /\ x - 1 \in Nat /\ x = (x - 1) + 1
  BY <1>1
<1> QED BY <1>1, <1>2

LEMMA CountRange ==
  ASSUME NEW n \in Nat, NEW S, S \subseteq 0..n
  PROVE  IsFiniteSet(S) /\ Cardinality(S) \in Nat
<1>1. IsFiniteSet(0..n)
  BY FS_Interval
<1>2. IsFiniteSet(S)
  BY <1>1, FS_Subset
<1> QED BY <1>2, FS_CardinalityType

\* How many members of a set are not above x.
Rank(S, x) == Cardinality({y \in S : y <= x})

\* A set of indices in order: each is one of its members, the k-th with k not above it.
LEMMA InOrderFacts ==
  ASSUME NEW n \in Nat, NEW S, S \subseteq 0..n
  PROVE  /\ Len(InOrder(S)) = Cardinality(S) /\ DOMAIN InOrder(S) = 1..Cardinality(S)
         /\ InOrder(S) \in Seq(S)
         /\ \A k \in 1..Cardinality(S) : InOrder(S)[k] \in S /\ Rank(S, InOrder(S)[k]) = k
<1> DEFINE C == Cardinality(S)
           Below(x) == {y \in S : y <= x}
           Ranked == {k \in Nat : k + 1 <= C => \E x \in S : Cardinality(Below(x)) = k + 1}
<1>1. IsFiniteSet(S) /\ C \in Nat
  BY CountRange
<1>n. \A x \in S : x \in Nat
  OBVIOUS
<1>2. ASSUME C # 0 PROVE 0 \in Ranked
  <2>1. S # {} /\ S \subseteq Nat
    BY <1>2, <1>n, FS_EmptySet
  <2>2. PICK x \in S : \A y \in S : x <= y
    BY <2>1, Least
  <2>3. \A y \in S : y <= x => y = x
    BY <2>2, <1>n
  <2>4. x <= x
    BY <1>n
  <2>5. Below(x) = {x}
    BY <2>3, <2>4
  <2>6. Cardinality(Below(x)) = 1
    BY <2>5, FS_Singleton
  <2> QED BY <2>6
<1>3. ASSUME NEW k \in Nat, k \in Ranked PROVE k + 1 \in Ranked
  <2> SUFFICES ASSUME (k + 1) + 1 <= C PROVE \E x \in S : Cardinality(Below(x)) = (k + 1) + 1
    OBVIOUS
  <2>1. PICK x \in S : Cardinality(Below(x)) = k + 1
    BY <1>1, <1>3
  <2>2. Below(x) \subseteq S /\ IsFiniteSet(Below(x))
    BY <1>1, FS_Subset
  <2>3. Below(x) # S
    BY <1>1, <2>1
  <2>4. S \ Below(x) # {} /\ S \ Below(x) \subseteq Nat
    BY <1>n, <2>2, <2>3
  <2>5. PICK z \in S \ Below(x) : \A y \in S \ Below(x) : z <= y
    <3> HIDE DEF Below
    <3> QED BY <2>4, Least
  <2>6. z \in Nat /\ x \in Nat /\ z \in S /\ ~(z <= x)
    BY <1>n
  <2>7. \A y \in S : y <= z <=> y <= x \/ y = z
    <3> TAKE y \in S
    <3>1. y \in Nat
      BY <1>n
    <3>2. ~(y <= x) => z <= y
      BY <2>5
    <3> QED BY <3>1, <3>2, <2>6
  <2>8. Below(z) = Below(x) \cup {z} /\ z \notin Below(x)
    BY <2>6, <2>7
  <2> HIDE DEF Below
  <2>9. Cardinality(Below(z)) = Cardinality(Below(x)) + 1
    BY <2>8, <2>2, FS_AddElement
  <2> QED BY <2>1, <2>6, <2>9
<1>4. ASSUME NEW k \in 1..C PROVE \E x \in S : Cardinality(Below(x)) = k
  <2>1. C # 0 /\ k - 1 \in Nat /\ (k - 1) + 1 = k /\ k <= C
    BY <1>1
  <2>2. \A m \in Nat : m \in Ranked
    <3> HIDE DEF Ranked
    <3> QED BY <2>1, <1>2, <1>3, Induction
  <2>3. k - 1 \in Ranked
    BY <2>1, <2>2
  <2> QED BY <2>1, <2>3
<1>5. \A k \in 1..C : InOrder(S)[k] \in S /\ Cardinality(Below(InOrder(S)[k])) = k
  BY <1>4 DEF InOrder
<1>6. InOrder(S) = [k \in 1..C |-> InOrder(S)[k]]
  BY DEF InOrder
<1>7. DOMAIN InOrder(S) = 1..C
  BY DEF InOrder
<1>r. \A k \in 1..C : Rank(S, InOrder(S)[k]) = k
  BY <1>5 DEF Rank
<1> HIDE DEF Below
<1>8. InOrder(S) \in [1..C -> S]
  BY <1>5, <1>6
<1>9. InOrder(S) \in Seq(S)
  BY <1>1, <1>8
<1>10. Len(InOrder(S)) = C
  BY <1>1, <1>8
<1> QED BY <1>5, <1>7, <1>9, <1>10, <1>r
-----------------------------------------------------------------------------
(* Counting the tokens of a kind *)

Place == [idx : Nat, line : Nat, col : Nat]
Kinds == {"BlockStart", "BlockCont", "BlockEnd", "BracketOpen", "BracketClose", "Comma",
          "Semicolon", "Colon", "Partial", "Sep", "Int", "Float", "Decimal", "Ident",
          "StrStart", "StrText", "StrEnd", "StrExprStart", "StrExprEnd",
          "Comment", "CommentStart", "CommentText", "CommentEnd", "Err", "EOF"}
Tokens_ == [kind : Kinds, start : Place, end : Place, text : Seq(Byte)]

\* How many of the first n tokens are of a kind: Blocks, of any sequence.
Num(kind, s, n) == Cardinality({k \in 1..n : s[k].kind = kind})

LEMMA NumZero == \A kind, s : Num(kind, s, 0) = 0
<1>1. \A kind, s : {k \in 1..0 : s[k].kind = kind} = {}
  OBVIOUS
<1> QED BY <1>1, FS_EmptySet DEF Num

LEMMA NumStep ==
  ASSUME NEW kind, NEW s, NEW n \in Nat
  PROVE  /\ Num(kind, s, n) \in Nat
         /\ Num(kind, s, n + 1) = IF s[n + 1].kind = kind THEN Num(kind, s, n) + 1 ELSE Num(kind, s, n)
<1> DEFINE S == {k \in 1..n : s[k].kind = kind}
           T == {k \in 1..(n + 1) : s[k].kind = kind}
<1>1. S \subseteq 0..n
  OBVIOUS
<1> HIDE DEF S
<1>2. IsFiniteSet(S) /\ Cardinality(S) \in Nat
  BY <1>1, CountRange
<1> USE DEF S
<1>3. \A k : k \in 1..(n + 1) <=> k \in 1..n \/ k = n + 1
  OBVIOUS
<1>4. n + 1 \notin S
  OBVIOUS
<1>5. CASE s[n + 1].kind = kind
  <2>1. T = S \cup {n + 1}
    BY <1>3, <1>5
  <2> HIDE DEF S, T
  <2>2. Cardinality(T) = Cardinality(S) + 1
    BY <2>1, <1>2, <1>4, FS_AddElement
  <2> QED BY <1>2, <2>2, <1>5 DEF Num, S, T
<1>6. CASE s[n + 1].kind # kind
  <2>1. T = S
    BY <1>3, <1>6
  <2> QED BY <2>1, <1>2, <1>6 DEF Num
<1> QED BY <1>5, <1>6

\* Of the tokens before one that is added, nothing changes.
LEMMA NumPrefix ==
  ASSUME NEW kind, NEW s, NEW t, NEW n \in Nat, \A k \in 1..n : s[k].kind = t[k].kind
  PROVE  Num(kind, s, n) = Num(kind, t, n)
<1>1. {k \in 1..n : s[k].kind = kind} = {k \in 1..n : t[k].kind = kind}
  OBVIOUS
<1> QED BY <1>1 DEF Num

LEMMA NumConcat ==
  ASSUME NEW kind, NEW s \in Seq(Tokens_), NEW u \in Seq(Tokens_), NEW n \in 0..Len(u)
  PROVE  Num(kind, s \o u, Len(s) + n) = Num(kind, s, Len(s)) + Num(kind, u, n)
<1> DEFINE Sums == {m \in Nat : m <= Len(u) =>
             Num(kind, s \o u, Len(s) + m) = Num(kind, s, Len(s)) + Num(kind, u, m)}
<1>1. Len(s) \in Nat /\ Len(u) \in Nat
  OBVIOUS
<1>2. 0 \in Sums
  <2>1. \A k \in 1..Len(s) : (s \o u)[k].kind = s[k].kind
    OBVIOUS
  <2>2. Num(kind, s \o u, Len(s)) = Num(kind, s, Len(s))
    BY <1>1, <2>1, NumPrefix
  <2>3. Num(kind, u, 0) = 0 /\ Num(kind, s, Len(s)) \in Nat /\ Len(s) + 0 = Len(s)
    BY <1>1, NumZero, NumStep
  <2> QED BY <2>2, <2>3
<1>3. ASSUME NEW m \in Nat, m \in Sums PROVE m + 1 \in Sums
  <2> SUFFICES ASSUME m + 1 <= Len(u)
               PROVE  Num(kind, s \o u, Len(s) + (m + 1))
                        = Num(kind, s, Len(s)) + Num(kind, u, m + 1)
    OBVIOUS
  <2>1. Num(kind, s \o u, Len(s) + m) = Num(kind, s, Len(s)) + Num(kind, u, m)
    BY <1>1, <1>3
  <2>2. /\ Len(s) + m \in Nat /\ Len(s) + (m + 1) = (Len(s) + m) + 1
        /\ (s \o u)[(Len(s) + m) + 1] = u[m + 1]
    BY <1>1
  <2>3. /\ Num(kind, s, Len(s)) \in Nat /\ Num(kind, u, m) \in Nat
        /\ Num(kind, u, m + 1) = IF u[m + 1].kind = kind THEN Num(kind, u, m) + 1 ELSE Num(kind, u, m)
    BY <1>1, NumStep
  <2>4. \A w : \A j \in Nat : Num(kind, w, j + 1) =
          IF w[j + 1].kind = kind THEN Num(kind, w, j) + 1 ELSE Num(kind, w, j)
    BY NumStep
  <2> DEFINE w == s \o u
             j == Len(s) + m
  <2>5. w[j + 1] = u[m + 1] /\ j \in Nat /\ Len(s) + (m + 1) = j + 1
    BY <2>2
  <2>6. Num(kind, w, j) = Num(kind, s, Len(s)) + Num(kind, u, m)
    BY <2>1
  <2> HIDE DEF w, j
  <2>7. Num(kind, w, j + 1) = IF u[m + 1].kind = kind THEN Num(kind, w, j) + 1 ELSE Num(kind, w, j)
    BY <2>4, <2>5
  <2>8. Num(kind, w, j + 1) = Num(kind, s, Len(s)) + Num(kind, u, m + 1)
    BY <2>3, <2>6, <2>7
  <2> QED BY <2>5, <2>8 DEF w
<1>4. \A m \in Nat : m \in Sums
  <2> HIDE DEF Sums
  <2> QED BY <1>2, <1>3, Induction
<1> QED BY <1>1, <1>4

LEMMA NumNone ==
  ASSUME NEW kind, NEW s, NEW n \in Nat, \A k \in 1..n : s[k].kind # kind
  PROVE  Num(kind, s, n) = 0
<1>1. {k \in 1..n : s[k].kind = kind} = {}
  OBVIOUS
<1> QED BY <1>1, FS_EmptySet DEF Num

LEMMA NumAll ==
  ASSUME NEW kind, NEW s, NEW n \in Nat, \A k \in 1..n : s[k].kind = kind
  PROVE  Num(kind, s, n) = n
<1>1. {k \in 1..n : s[k].kind = kind} = 1..n
  OBVIOUS
<1>2. Cardinality(1..n) = n
  BY FS_Interval
<1> QED BY <1>1, <1>2 DEF Num

LEMMA NumUpTo ==
  ASSUME NEW kind, NEW s, NEW n \in Nat, NEW m \in 0..n
  PROVE  Num(kind, s, m) <= Num(kind, s, n)
<1> DEFINE S == {k \in 1..n : s[k].kind = kind}
           T == {k \in 1..m : s[k].kind = kind}
<1>1. S \subseteq 0..n /\ T \subseteq S
  OBVIOUS
<1> HIDE DEF S, T
<1>2. IsFiniteSet(S)
  BY <1>1, CountRange
<1>3. Cardinality(T) <= Cardinality(S)
  BY <1>1, <1>2, FS_Subset
<1> QED BY <1>3 DEF Num, S, T

\* At every point no more blocks were ended than started; how many are open.
Nested(s) == \A n \in 0..Len(s) : Num("BlockEnd", s, n) <= Num("BlockStart", s, n)
Depth(s) == Num("BlockStart", s, Len(s)) - Num("BlockEnd", s, Len(s))

\* Tokens that start no block are added: they may end as many as are open.
LEMMA AddedClosers ==
  ASSUME NEW s \in Seq(Tokens_), NEW u \in Seq(Tokens_), Nested(s),
         \A k \in 1..Len(u) : u[k].kind # "BlockStart",
         Num("BlockEnd", u, Len(u)) <= Depth(s)
  PROVE  /\ Nested(s \o u)
         /\ Depth(s \o u) = Depth(s) - Num("BlockEnd", u, Len(u))
<1>1. Len(s) \in Nat /\ Len(u) \in Nat /\ Len(s \o u) = Len(s) + Len(u) /\ s \o u \in Seq(Tokens_)
  OBVIOUS
<1>2. ASSUME NEW n \in 0..Len(u)
      PROVE  /\ Num("BlockStart", s \o u, Len(s) + n) = Num("BlockStart", s, Len(s))
             /\ Num("BlockEnd", s \o u, Len(s) + n) = Num("BlockEnd", s, Len(s)) + Num("BlockEnd", u, n)
             /\ Num("BlockEnd", u, n) <= Num("BlockEnd", u, Len(u))
  <2>1. n \in Nat /\ \A k \in 1..n : u[k].kind # "BlockStart"
    BY <1>1
  <2>2. Num("BlockStart", u, n) = 0
    BY <2>1, NumNone
  <2>3. /\ Num("BlockStart", s \o u, Len(s) + n) = Num("BlockStart", s, Len(s)) + Num("BlockStart", u, n)
        /\ Num("BlockEnd", s \o u, Len(s) + n) = Num("BlockEnd", s, Len(s)) + Num("BlockEnd", u, n)
    BY NumConcat
  <2>4. Num("BlockEnd", u, n) <= Num("BlockEnd", u, Len(u))
    BY <1>1, NumUpTo
  <2>5. Num("BlockStart", s, Len(s)) \in Nat
    BY <1>1, NumStep
  <2> QED BY <2>2, <2>3, <2>4, <2>5
<1>3. \A n \in Nat : \A w : Num("BlockEnd", w, n) \in Nat /\ Num("BlockStart", w, n) \in Nat
  BY NumStep
<1>4. Depth(s \o u) = Depth(s) - Num("BlockEnd", u, Len(u))
  <2>1. Len(u) \in 0..Len(u)
    BY <1>1
  <2>2. /\ Num("BlockStart", s \o u, Len(s) + Len(u)) = Num("BlockStart", s, Len(s))
        /\ Num("BlockEnd", s \o u, Len(s) + Len(u)) = Num("BlockEnd", s, Len(s)) + Num("BlockEnd", u, Len(u))
    BY <1>2, <2>1
  <2>3. /\ Num("BlockStart", s, Len(s)) \in Nat /\ Num("BlockEnd", s, Len(s)) \in Nat
        /\ Num("BlockEnd", u, Len(u)) \in Nat
    BY <1>1, <1>3
  <2> HIDE DEF Num
  <2> QED BY <1>1, <2>2, <2>3 DEF Depth
<1>5. ASSUME NEW n \in 0..Len(s \o u)
      PROVE  Num("BlockEnd", s \o u, n) <= Num("BlockStart", s \o u, n)
  <2>1. CASE n <= Len(s)
    <3>1. n \in Nat /\ n \in 0..Len(s) /\ \A k \in 1..n : (s \o u)[k].kind = s[k].kind
      BY <2>1, <1>1
    <3>2. /\ Num("BlockEnd", s \o u, n) = Num("BlockEnd", s, n)
          /\ Num("BlockStart", s \o u, n) = Num("BlockStart", s, n)
      BY <3>1, NumPrefix
    <3> QED BY <3>1, <3>2 DEF Nested
  <2>2. CASE ~(n <= Len(s))
    <3>1. n - Len(s) \in 0..Len(u) /\ Len(s) + (n - Len(s)) = n
      BY <2>2, <1>1
    <3>2. /\ Num("BlockStart", s \o u, n) = Num("BlockStart", s, Len(s))
          /\ Num("BlockEnd", s \o u, n) = Num("BlockEnd", s, Len(s)) + Num("BlockEnd", u, n - Len(s))
          /\ Num("BlockEnd", u, n - Len(s)) <= Num("BlockEnd", u, Len(u))
      BY <1>2, <3>1
    <3>3. /\ Num("BlockEnd", u, n - Len(s)) \in Nat /\ Num("BlockEnd", u, Len(u)) \in Nat
          /\ Num("BlockEnd", s, Len(s)) \in Nat /\ Num("BlockStart", s, Len(s)) \in Nat
      BY <1>1, <1>3, <3>1
    <3> QED BY <3>2, <3>3 DEF Depth
  <2> QED BY <2>1, <2>2
<1> QED BY <1>4, <1>5 DEF Nested

LEMMA AddedOpener ==
  ASSUME NEW s \in Seq(Tokens_), NEW t \in Tokens_, Nested(s), t.kind = "BlockStart"
  PROVE  Nested(s \o <<t>>) /\ Depth(s \o <<t>>) = Depth(s) + 1
<1> DEFINE u == <<t>>
<1>1. /\ u \in Seq(Tokens_) /\ Len(u) = 1 /\ u[1] = t /\ Len(s) \in Nat
      /\ Len(s \o u) = Len(s) + 1 /\ \A k \in 1..Len(s) : (s \o u)[k] = s[k]
  OBVIOUS
<1> HIDE DEF u
<1>2. /\ Num("BlockStart", u, 0) = 0 /\ Num("BlockEnd", u, 0) = 0
      /\ Num("BlockStart", u, 0 + 1) = 1 /\ Num("BlockEnd", u, 0 + 1) = 0
  <2>1. Num("BlockStart", u, 0) = 0 /\ Num("BlockEnd", u, 0) = 0
    BY NumZero
  <2>2. u[0 + 1].kind = "BlockStart"
    BY <1>1
  <2>3. \A kind : Num(kind, u, 0 + 1) = IF u[0 + 1].kind = kind THEN Num(kind, u, 0) + 1 ELSE Num(kind, u, 0)
    BY NumStep
  <2> QED BY <2>1, <2>2, <2>3
<1>3. /\ Num("BlockStart", s \o u, Len(s) + 1) = Num("BlockStart", s, Len(s)) + 1
      /\ Num("BlockEnd", s \o u, Len(s) + 1) = Num("BlockEnd", s, Len(s)) + 0
  BY <1>1, <1>2, NumConcat
<1>4. Num("BlockEnd", s, Len(s)) \in Nat /\ Num("BlockStart", s, Len(s)) \in Nat
  BY <1>1, NumStep
<1>5. ASSUME NEW n \in 0..(Len(s) + 1)
      PROVE  Num("BlockEnd", s \o u, n) <= Num("BlockStart", s \o u, n)
  <2>1. CASE n <= Len(s)
    <3>1. n \in Nat /\ n \in 0..Len(s) /\ \A k \in 1..n : (s \o u)[k].kind = s[k].kind
      BY <2>1, <1>1
    <3>2. /\ Num("BlockEnd", s \o u, n) = Num("BlockEnd", s, n)
          /\ Num("BlockStart", s \o u, n) = Num("BlockStart", s, n)
      BY <3>1, NumPrefix
    <3> QED BY <3>1, <3>2 DEF Nested
  <2>2. CASE n = Len(s) + 1
    <3>1. Num("BlockEnd", s, Len(s)) <= Num("BlockStart", s, Len(s))
      BY <1>1 DEF Nested
    <3> QED BY <1>3, <1>4, <2>2, <3>1
  <2> QED BY <1>1, <2>1, <2>2
<1>6. Depth(s \o u) = Depth(s) + 1
  BY <1>1, <1>3, <1>4 DEF Depth
<1> QED BY <1>1, <1>5, <1>6 DEF Nested, u

-----------------------------------------------------------------------------
(* The invariant *)

Modes == {Block, StrText, StrExpr}
         \cup [m : {"Bracket"}, open : Opening, depth : Nat \ {0}]
         \cup [m : {"StrBlock"}, floor : Nat]
TextModes == {"StrText", "StrBlock"}

\* What encloses a position: a text is enclosed by what is in code, and nothing opens in a
\* text but an interpolation.
ModeStack(s) == /\ s \in Seq(Modes) /\ Len(s) > 0 /\ s[1] = Block
                /\ \A k \in 1..(Len(s) - 1) : s[k].m \in TextModes => s[k + 1].m = "StrExpr"

\* A stack of indentations: those of a text start at 0 and grow.
Stack(s) == /\ s \in Seq(Nat) /\ Len(s) > 0 /\ s[1] = 0
            /\ \A k \in 2..Len(s) : s[k - 1] <= s[k]

\* The end of a block string may be put in front of a newline that was not counted as one:
\* it is counted next.
Counted == pos.line > 0 \/ (At(pos.idx) = "\n" /\ Top.m \notin TextModes)

Typed ==
  /\ src \in Sources
  /\ pos \in Place /\ pos.idx <= Len(src)
  /\ Counted
  /\ ModeStack(mode)
  /\ Stack(ind)
  /\ started \in BOOLEAN /\ panicked \in BOOLEAN
  /\ toks \in Seq(Tokens_) /\ pending \in Seq(Tokens_)

\* The open blocks are those on the stack, but for the one below all others; the block of
\* the whole text is on it before it is started.
Balanced ==
  /\ Nested(Made)
  /\ Depth(Made) = Len(ind) - (IF started THEN 1 ELSE 2)

\* The end of the text is handed out when no block is open, and nothing after it.
EndsOnce == \A k \in 1..Len(Made) :
  Made[k].kind = "EOF" => k = Len(Made) /\ pending = <<>> /\ Len(ind) = 1

\* What the lexer still has to hand out is paid for by the bytes it has read: a level of
\* indentation owes one token and what encloses the position two; a block string owes
\* three more, for the lexer may go back to the newline in front of its end.
BlockStrings(s) == Cardinality({k \in 1..Len(s) : s[k].m = "StrBlock"})
Owed(s) == 2 * Len(s) + 3 * BlockStrings(s)
Paid == Len(Made) + Len(ind) + Owed(mode)
          <= 3 * pos.idx + (IF started THEN 5 ELSE 4) + (IF Done THEN 1 ELSE 0)

Fresh == ~started => toks = <<>> /\ pending = <<>>

LexInv == Typed /\ Balanced /\ EndsOnce /\ Paid /\ Fresh

-----------------------------------------------------------------------------
(* The text *)

LEMMA SourceFacts ==
  ASSUME src \in Sources
  PROVE  /\ src \in Seq(Byte) /\ Len(src) \in Nat
         /\ \A i \in Int : At(i) # NoByte <=> i \in 0..(Len(src) - 1)
         /\ \A i \in 0..(Len(src) - 1) : At(i) = src[i + 1]
<1>1. src \in Seq(Byte)
  BY SourcesAssumption
<1>2. Len(src) \in Nat /\ \A k \in 1..Len(src) : src[k] \in Byte
  BY <1>1
<1>3. NoByte \notin Byte
  BY DEF Byte
<1>4. \A i \in 0..(Len(src) - 1) : i + 1 \in 1..Len(src) /\ At(i) = src[i + 1]
  BY <1>2 DEF At
<1>5. \A i \in 0..(Len(src) - 1) : At(i) # NoByte
  BY <1>2, <1>3, <1>4
<1>6. \A i : i \notin 0..(Len(src) - 1) => At(i) = NoByte
  BY DEF At
<1> QED BY <1>1, <1>2, <1>4, <1>5, <1>6

LEMMA NotTheEnd ==
  /\ NoByte \notin {"\n", Space} /\ NoByte \notin {Space} /\ NoByte \notin {"\n"}
  /\ NoByte \notin Digits /\ NoByte \notin DecDigits /\ NoByte \notin HexDigits
  /\ NoByte \notin BinDigits /\ NoByte \notin OctDigits /\ NoByte \notin IdentBytes
  /\ NoByte \notin DOMAIN Mono /\ NoByte \notin Opening /\ NoByte \notin Closing
  /\ NoByte # "\n" /\ NoByte # Space /\ NoByte # CloseBrace /\ NoByte # OpenBrace /\ NoByte # Quote
  /\ NoByte # "'" /\ NoByte # "#" /\ NoByte # "$" /\ NoByte # "-" /\ NoByte # ":"
BY Zenon DEF NoByte, Space, Digits, DecDigits, BinDigits, OctDigits, HexDigits, IdentBytes, Letters, Mono, Opening, Closing,
             CloseBrace, OpenBrace, Quote

LEMMA RunFacts ==
  ASSUME src \in Sources, NEW i \in Nat, i <= Len(src), NEW class, NoByte \notin class
  PROVE  /\ Run(i, class) \in i..Len(src) /\ Run(i, class) \in Nat
         /\ At(Run(i, class)) \notin class
         /\ \A k \in i..(Run(i, class) - 1) : At(k) \in class
<1> DEFINE S == {j \in i..Len(src) : At(j) \notin class}
<1>1. Len(src) \in Nat /\ At(Len(src)) = NoByte
  BY SourceFacts
<1>2. Len(src) \in S /\ S \subseteq Nat
  BY <1>1
<1>3. Min(S) \in S /\ \A y \in S : Min(S) <= y
  <2> HIDE DEF S
  <2> QED BY <1>2, MinFacts
<1>4. Run(i, class) = Min(S)
  BY DEF Run
<1>5. \A k \in i..(Min(S) - 1) : k \in i..Len(src) /\ ~(Min(S) <= k)
  BY <1>1, <1>3
<1> QED BY <1>1, <1>3, <1>4, <1>5

LEMMA SpacesFacts ==
  ASSUME src \in Sources, NEW i \in Nat, i <= Len(src)
  PROVE  /\ Spaces(i) \in Nat /\ i + Spaces(i) <= Len(src)
         /\ At(i + Spaces(i)) # Space
         /\ \A k \in i..(i + Spaces(i) - 1) : At(k) = Space
<1>1. /\ Run(i, {Space}) \in i..Len(src) /\ Run(i, {Space}) \in Nat
      /\ At(Run(i, {Space})) \notin {Space}
      /\ \A k \in i..(Run(i, {Space}) - 1) : At(k) \in {Space}
  BY RunFacts, NotTheEnd
<1>2. Len(src) \in Nat
  BY SourceFacts
<1> DEFINE j == Run(i, {Space})
<1>3. j \in i..Len(src) /\ j \in Nat /\ Spaces(i) = j - i
  BY <1>1 DEF Spaces
<1> HIDE DEF j
<1>4. Spaces(i) \in Nat /\ i + Spaces(i) = j /\ i + Spaces(i) <= Len(src)
  BY <1>2, <1>3
<1>5. At(j) # Space /\ \A k \in i..(j - 1) : At(k) = Space
  BY <1>1 DEF j
<1> QED BY <1>4, <1>5

LEMMA WidthFacts == ASSUME NEW i \in Nat, NEW j \in Nat PROVE Width(i, j) \in Nat
<1>1. {k \in i..(j - 1) : At(k) # "u2"} \subseteq 0..j
  OBVIOUS
<1> HIDE DEF At
<1> QED BY <1>1, CountRange DEF Width

LEMMA MovedFacts ==
  ASSUME NEW p \in Place, NEW j \in Nat
  PROVE  Moved(p, j) \in Place /\ Moved(p, j).idx = j /\ Moved(p, j).line = p.line
<1>1. Width(p.idx, j) \in Nat
  BY WidthFacts DEF Place
<1> QED BY <1>1 DEF Moved, Pos, Place

LEMMA NextLineFacts ==
  ASSUME NEW p \in Place, NEW j \in Nat, NEW n \in Nat
  PROVE  NextLine(j, p, n) \in Place /\ NextLine(j, p, n).idx = j
BY DEF NextLine, Pos, Place

LEMMA TokenFacts ==
  ASSUME src \in Sources, NEW kind \in Kinds, NEW p \in Place, NEW q \in Place, q.idx <= Len(src)
  PROVE  /\ Token(kind, p, q) \in Tokens_ /\ Token(kind, p, q).kind = kind
         /\ Mark(kind, p) \in Tokens_ /\ Mark(kind, p).kind = kind
<1>1. src \in Seq(Byte) /\ p.idx \in Nat /\ q.idx \in Nat
  BY SourceFacts DEF Place
<1>2. SubSeq(src, p.idx + 1, q.idx) \in Seq(Byte)
  BY <1>1
<1>3. <<>> \in Seq(Byte)
  OBVIOUS
<1> QED BY <1>2, <1>3 DEF Token, Mark, Text, Tokens_

-----------------------------------------------------------------------------
(* What encloses the position *)

LEMMA ModeFacts ==
  ASSUME NEW s, ModeStack(s)
  PROVE  /\ s \in Seq(Modes) /\ Len(s) \in Nat \ {0} /\ Last(s) \in Modes /\ s[1] = Block
         /\ Last(s).m # "Block" => Len(s) > 1 /\ Front(s) \in Seq(Modes) /\ Len(Front(s)) = Len(s) - 1
<1>1. s \in Seq(Modes) /\ Len(s) \in Nat \ {0} /\ s[1] = Block
  BY DEF ModeStack
<1>2. Last(s) = s[Len(s)] /\ s[Len(s)] \in Modes
  BY <1>1 DEF Last
<1>3. Last(s).m # "Block" => Len(s) > 1
  BY <1>1, <1>2 DEF Block
<1> HIDE DEF Modes, Block
<1>4. Len(s) > 1 => Front(s) \in Seq(Modes) /\ Len(Front(s)) = Len(s) - 1
  BY <1>1 DEF Front
<1> QED BY <1>1, <1>2, <1>3, <1>4

LEMMA BlockStringsStep ==
  ASSUME NEW s, NEW t, NEW n \in Nat, \A k \in 1..n : s[k] = t[k],
         Len(s) = n, Len(t) = n + 1
  PROVE  /\ BlockStrings(s) \in Nat
         /\ BlockStrings(t) = BlockStrings(s) + (IF t[n + 1].m = "StrBlock" THEN 1 ELSE 0)
<1> DEFINE S == {k \in 1..Len(s) : s[k].m = "StrBlock"}
           T == {k \in 1..Len(t) : t[k].m = "StrBlock"}
<1>1. S \subseteq 0..n
  OBVIOUS
<1>2. n + 1 \notin S
  OBVIOUS
<1>3. \A k : k \in 1..(n + 1) <=> k \in 1..n \/ k = n + 1
  OBVIOUS
<1>4. IsFiniteSet(S) /\ Cardinality(S) \in Nat
  <2> HIDE DEF S
  <2> QED BY <1>1, CountRange
<1>c. BlockStrings(s) = Cardinality(S) /\ BlockStrings(t) = Cardinality(T)
  BY DEF BlockStrings
<1>5. CASE t[n + 1].m = "StrBlock"
  <2>1. T = S \cup {n + 1}
    BY <1>3, <1>5
  <2> HIDE DEF S, T
  <2>2. Cardinality(T) = Cardinality(S) + 1
    BY <2>1, <1>2, <1>4, FS_AddElement
  <2> QED BY <1>4, <1>c, <1>5, <2>2
<1>6. CASE t[n + 1].m # "StrBlock"
  <2>1. T = S
    BY <1>3, <1>6
  <2> HIDE DEF S, T
  <2> QED BY <1>4, <1>c, <1>6, <2>1
<1> QED BY <1>5, <1>6

LEMMA Pushed ==
  ASSUME NEW s, ModeStack(s), NEW m \in Modes, Last(s).m \in TextModes => m.m = "StrExpr"
  PROVE  /\ ModeStack(Append(s, m)) /\ Last(Append(s, m)) = m
         /\ Owed(Append(s, m)) = Owed(s) + (IF m.m = "StrBlock" THEN 5 ELSE 2)
<1> DEFINE t == Append(s, m)
<1>1. s \in Seq(Modes) /\ Len(s) \in Nat \ {0} /\ s[1] = Block /\ Last(s) = s[Len(s)]
  BY ModeFacts DEF Last
<1> HIDE DEF Modes
<1>2. /\ t \in Seq(Modes) /\ Len(t) = Len(s) + 1 /\ t[Len(s) + 1] = m
      /\ \A k \in 1..Len(s) : t[k] = s[k]
  BY <1>1
<1>3. Last(t) = m
  BY <1>1, <1>2 DEF Last
<1> HIDE DEF t
<1>4. ASSUME NEW k \in 1..(Len(t) - 1), t[k].m \in TextModes PROVE t[k + 1].m = "StrExpr"
  <2>1. k \in 1..Len(s) /\ (k = Len(s) \/ (k \in 1..(Len(s) - 1) /\ k + 1 \in 1..Len(s)))
    BY <1>1, <1>2
  <2> QED BY <1>1, <1>2, <1>4, <2>1 DEF ModeStack
<1>5. ModeStack(t)
  BY <1>1, <1>2, <1>4 DEF ModeStack
<1>6. /\ BlockStrings(s) \in Nat
      /\ BlockStrings(t) = BlockStrings(s) + (IF m.m = "StrBlock" THEN 1 ELSE 0)
  BY <1>1, <1>2, BlockStringsStep
<1>7. Owed(t) = Owed(s) + (IF m.m = "StrBlock" THEN 5 ELSE 2)
  BY <1>1, <1>2, <1>6 DEF Owed
<1> QED BY <1>3, <1>5, <1>7 DEF t

LEMMA Popped ==
  ASSUME NEW s, ModeStack(s), Last(s).m # "Block"
  PROVE  /\ ModeStack(Front(s))
         /\ Owed(Front(s)) = Owed(s) - (IF Last(s).m = "StrBlock" THEN 5 ELSE 2)
         /\ Last(s).m # "StrExpr" => Last(Front(s)).m \notin TextModes
<1> DEFINE t == Front(s)
           n == Len(s) - 1
<1>1. /\ s \in Seq(Modes) /\ Len(s) \in Nat \ {0} /\ s[1] = Block /\ Last(s) = s[Len(s)]
      /\ Len(s) > 1 /\ t \in Seq(Modes) /\ Len(t) = n
  BY ModeFacts DEF Last
<1> HIDE DEF Modes
<1>2. \A k \in 1..n : t[k] = s[k]
  BY <1>1 DEF Front
<1>3. n \in Nat \ {0} /\ Len(s) = n + 1 /\ Last(t) = s[n]
  BY <1>1, <1>2 DEF Last
<1> HIDE DEF t, n
<1>4. \A k \in 1..(n - 1) : k \in 1..(Len(s) - 1) /\ k \in 1..n /\ k + 1 \in 1..n
  BY <1>3
<1>5. \A k \in 1..(n - 1) : t[k].m \in TextModes => t[k + 1].m = "StrExpr"
  BY <1>2, <1>4 DEF ModeStack
<1>6. ModeStack(t)
  BY <1>1, <1>2, <1>3, <1>5 DEF ModeStack
<1>7. /\ BlockStrings(t) \in Nat
      /\ BlockStrings(s) = BlockStrings(t) + (IF s[n + 1].m = "StrBlock" THEN 1 ELSE 0)
  BY <1>1, <1>2, <1>3, BlockStringsStep
<1>8. Owed(t) = Owed(s) - (IF Last(s).m = "StrBlock" THEN 5 ELSE 2)
  BY <1>1, <1>3, <1>7 DEF Owed
<1>9. n \in 1..(Len(s) - 1) /\ n + 1 = Len(s)
  BY <1>3
<1>10. Last(s).m # "StrExpr" => Last(t).m \notin TextModes
  BY <1>1, <1>3, <1>9 DEF ModeStack
<1> QED BY <1>6, <1>8, <1>10 DEF t

-----------------------------------------------------------------------------
(* A step that hands out or buffers the tokens u *)

Adds(u) == /\ u \in Seq(Tokens_) /\ toks' \in Seq(Tokens_) /\ pending' \in Seq(Tokens_)
           /\ Made' = toks \o u

LEMMA GaveOne ==
  ASSUME toks \in Seq(Tokens_), pending = <<>>, NEW t \in Tokens_, Give(t), pending' = pending
  PROVE  Adds(<<t>>)
<1> HIDE DEF Tokens_
<1>1. toks' = Append(toks, t) /\ toks' \in Seq(Tokens_) /\ toks' = toks \o <<t>>
  BY DEF Give
<1>2. Made' = toks' /\ <<t>> \in Seq(Tokens_) /\ pending' \in Seq(Tokens_)
  BY <1>1 DEF Made
<1> QED BY <1>1, <1>2 DEF Adds

LEMMA GaveFirst ==
  ASSUME toks \in Seq(Tokens_), NEW t \in Tokens_, NEW w \in Seq(Tokens_), Give(t), pending' = w
  PROVE  Adds(<<t>> \o w)
<1> HIDE DEF Tokens_
<1>1. toks' = Append(toks, t) /\ toks' \in Seq(Tokens_) /\ toks' = toks \o <<t>>
  BY DEF Give
<1>2. <<t>> \in Seq(Tokens_) /\ <<t>> \o w \in Seq(Tokens_)
  OBVIOUS
<1>3. (toks \o <<t>>) \o w = toks \o (<<t>> \o w)
  BY <1>2
<1> QED BY <1>1, <1>2, <1>3 DEF Adds, Made

LEMMA GaveAll ==
  ASSUME toks \in Seq(Tokens_), NEW ts \in Seq(Tokens_), ts # <<>>, Queue(ts)
  PROVE  Adds(ts)
<1> HIDE DEF Tokens_
<1> DEFINE t == Head(ts)
           w == Tail(ts)
<1>1. t \in Tokens_ /\ w \in Seq(Tokens_) /\ ts = <<t>> \o w
  OBVIOUS
<1>2. Give(t) /\ pending' = w
  BY DEF Queue
<1> HIDE DEF t, w
<1> QED BY <1>1, <1>2, GaveFirst

LEMMA GaveNone ==
  ASSUME toks \in Seq(Tokens_), pending = <<>>, UNCHANGED <<toks, pending>>
  PROVE  Adds(<<>>)
<1> HIDE DEF Tokens_
<1> QED BY DEF Adds, Made

LEMMA NoEnd ==
  ASSUME LexInv, Reading
  PROVE  /\ toks \in Seq(Tokens_) /\ pending = <<>> /\ Made = toks /\ started
         /\ \A k \in 1..Len(toks) : toks[k].kind # "EOF"
<1>1. toks \in Seq(Tokens_) /\ pending = <<>> /\ started /\ ~Done
  BY DEF LexInv, Typed, Reading
<1> HIDE DEF Tokens_
<1>2. Made = toks
  BY <1>1 DEF Made
<1>3. ASSUME NEW k \in 1..Len(toks), toks[k].kind = "EOF" PROVE FALSE
  <2>1. k = Len(toks)
    BY <1>2, <1>3 DEF LexInv, EndsOnce
  <2> QED BY <1>1, <1>3, <2>1 DEF Done, Last
<1> QED BY <1>1, <1>2, <1>3

\* What a step owes to the invariant.
LEMMA Keeps ==
  ASSUME LexInv, Reading, NEW u, Adds(u),
         UNCHANGED <<src, started, panicked>>,
         pos' \in Place, pos'.idx <= Len(src), Counted', ModeStack(mode'), Stack(ind'),
         \A k \in 1..Len(u) : u[k].kind # "EOF",
         \/ /\ \A k \in 1..Len(u) : u[k].kind # "BlockStart"
            /\ Num("BlockEnd", u, Len(u)) = Len(ind) - Len(ind')
         \/ \E t \in Tokens_ : u = <<t>> /\ t.kind = "BlockStart" /\ Len(ind') = Len(ind) + 1,
         Len(u) + Len(ind') + Owed(mode') - 3 * pos'.idx <= Len(ind) + Owed(mode) - 3 * pos.idx
  PROVE  LexInv'
<1>1. /\ toks \in Seq(Tokens_) /\ pending = <<>> /\ Made = toks /\ started
      /\ \A k \in 1..Len(toks) : toks[k].kind # "EOF"
  BY NoEnd
<1>2. u \in Seq(Tokens_) /\ toks' \in Seq(Tokens_) /\ pending' \in Seq(Tokens_) /\ Made' = toks \o u
  BY DEF Adds
<1>3. Typed'
  BY <1>2 DEF LexInv, Typed
<1> HIDE DEF Tokens_
<1>4. Len(toks) \in Nat /\ Len(u) \in Nat /\ Len(Made') = Len(toks) + Len(u)
  BY <1>1, <1>2
<1>5. ASSUME NEW k \in 1..Len(Made') PROVE Made'[k].kind # "EOF"
  <2>1. CASE k <= Len(toks)
    BY <1>1, <1>2, <1>4, <2>1
  <2>2. CASE ~(k <= Len(toks))
    <3>1. k - Len(toks) \in 1..Len(u) /\ (toks \o u)[k] = u[k - Len(toks)]
      BY <1>1, <1>2, <1>4, <2>2
    <3> QED BY <1>2, <3>1
  <2> QED BY <2>1, <2>2
<1>6. EndsOnce'
  BY <1>5 DEF EndsOnce
<1>7. ~Done /\ ~Done'
  <2>1. ASSUME Done' PROVE FALSE
    <3>1. toks' # <<>> /\ toks'[Len(toks')].kind = "EOF" /\ Len(toks') \in Nat \ {0}
      BY <1>2, <2>1 DEF Done, Last
    <3>2. Len(toks') \in 1..Len(Made') /\ Made'[Len(toks')] = toks'[Len(toks')]
      BY <1>2, <3>1 DEF Made
    <3> QED BY <1>5, <3>1, <3>2
  <2> QED BY <2>1 DEF Reading
<1>8. Len(ind) \in Nat /\ Len(ind') \in Nat /\ pos.idx \in Nat /\ pos'.idx \in Nat
  <2>1. Stack(ind) /\ pos \in Place
    BY DEF LexInv, Typed
  <2> QED BY <2>1 DEF Stack, Place
<1>9. Owed(mode) \in Int /\ Owed(mode') \in Int
  <2>1. \A s : ModeStack(s) => Owed(s) \in Int
    <3>1. SUFFICES ASSUME NEW s, ModeStack(s) PROVE Owed(s) \in Int
      OBVIOUS
    <3>2. Len(s) \in Nat
      BY ModeFacts
    <3>3. {k \in 1..Len(s) : s[k].m = "StrBlock"} \subseteq 0..Len(s)
      BY <3>2
    <3>4. BlockStrings(s) \in Nat
      BY <3>2, <3>3, CountRange DEF BlockStrings
    <3> QED BY <3>2, <3>4 DEF Owed
  <2> QED BY <1>3, <2>1 DEF LexInv, Typed
<1>10. Paid'
  <2>1. Len(toks) + Len(ind) + Owed(mode) <= 3 * pos.idx + 5
    BY <1>1, <1>7, <1>4, <1>8, <1>9 DEF LexInv, Paid
  <2> DEFINE a == Len(toks)  b == Len(u)  m == Len(ind)  n == Len(ind')
             c == Owed(mode)  d == Owed(mode')  i == pos.idx  j == pos'.idx
  <2>2. /\ a \in Nat /\ b \in Nat /\ m \in Nat /\ n \in Nat /\ i \in Nat /\ j \in Nat
        /\ c \in Int /\ d \in Int
        /\ a + m + c <= 3 * i + 5 /\ b + n + d - 3 * j <= m + c - 3 * i
    BY <2>1, <1>4, <1>8, <1>9
  <2> HIDE DEF a, b, m, n, c, d, i, j
  <2>3. a + b + n + d <= 3 * j + 5
    BY <2>2
  <2> USE DEF a, b, m, n, c, d, i, j
  <2>4. Len(Made') + Len(ind') + Owed(mode') <= 3 * pos'.idx + 5
    BY <2>3, <1>4
  <2>5. started' /\ ~Done'
    BY <1>1, <1>7
  <2>6. 3 * pos'.idx + 5 + 0 = 3 * pos'.idx + 5
    BY <1>8
  <2> QED BY <2>4, <2>5, <2>6 DEF Paid
<1>11. Nested(toks) /\ Depth(toks) = Len(ind) - 1
  BY <1>1 DEF LexInv, Balanced
<1>12. Nested(toks \o u) /\ Depth(toks \o u) = Len(ind') - 1
  <2>1. CASE /\ \A k \in 1..Len(u) : u[k].kind # "BlockStart"
             /\ Num("BlockEnd", u, Len(u)) = Len(ind) - Len(ind')
    <3>1. Len(ind') >= 1
      BY <1>3, <1>8 DEF Typed, Stack
    <3>2. Num("BlockEnd", u, Len(u)) <= Depth(toks)
      BY <1>8, <1>11, <2>1, <3>1
    <3>3. Nested(toks \o u) /\ Depth(toks \o u) = Depth(toks) - Num("BlockEnd", u, Len(u))
      BY <1>1, <1>2, <1>11, <2>1, <3>2, AddedClosers
    <3> QED BY <1>8, <1>11, <2>1, <3>3
  <2>2. ASSUME NEW t \in Tokens_, u = <<t>>, t.kind = "BlockStart", Len(ind') = Len(ind) + 1
        PROVE  Nested(toks \o u) /\ Depth(toks \o u) = Len(ind') - 1
    <3>1. Nested(toks \o <<t>>) /\ Depth(toks \o <<t>>) = Depth(toks) + 1
      BY <1>1, <1>11, <2>2, AddedOpener
    <3> QED BY <1>8, <1>11, <2>2, <3>1
  <2> QED BY <2>1, <2>2
<1>13. Balanced'
  BY <1>1, <1>2, <1>12 DEF Balanced
<1> QED BY <1>1, <1>3, <1>6, <1>10, <1>13 DEF LexInv, Fresh

-----------------------------------------------------------------------------
(* The steps of one token, or of none *)

Other == Kinds \ {"BlockStart", "BlockEnd", "EOF"}

LEMMA InvFacts ==
  ASSUME LexInv
  PROVE  /\ src \in Sources /\ Len(src) \in Nat
         /\ pos \in Place /\ pos.idx \in Nat /\ pos.line \in Nat /\ pos.col \in Nat
         /\ pos.idx <= Len(src)
         /\ At(pos.idx) # NoByte <=> pos.idx < Len(src)
         /\ At(pos.idx) # "\n" => pos.line > 0
         /\ Top.m \in TextModes => pos.line > 0
         /\ ModeStack(mode) /\ Owed(mode) \in Int
         /\ Stack(ind) /\ Len(ind) \in Nat \ {0} /\ toks \in Seq(Tokens_)
<1>1. /\ src \in Sources /\ pos \in Place /\ pos.idx <= Len(src) /\ Counted
      /\ ModeStack(mode) /\ Stack(ind) /\ toks \in Seq(Tokens_)
  BY DEF LexInv, Typed
<1>2. pos.idx \in Nat /\ pos.line \in Nat /\ pos.col \in Nat
  BY <1>1 DEF Place
<1>3. Len(src) \in Nat /\ \A i \in Int : At(i) # NoByte <=> i \in 0..(Len(src) - 1)
  BY <1>1, SourceFacts
<1>4. At(pos.idx) # NoByte <=> pos.idx < Len(src)
  BY <1>2, <1>3
<1>5. Len(mode) \in Nat
  BY <1>1, ModeFacts
<1>6. {k \in 1..Len(mode) : mode[k].m = "StrBlock"} \subseteq 0..Len(mode)
  BY <1>5
<1>7. BlockStrings(mode) \in Nat
  BY <1>5, <1>6, CountRange DEF BlockStrings
<1>8. Owed(mode) \in Int
  BY <1>5, <1>7 DEF Owed
<1>9. Len(ind) \in Nat \ {0}
  BY <1>1 DEF Stack
<1> QED BY <1>1, <1>2, <1>3, <1>4, <1>8, <1>9 DEF Counted

LEMMA OneStep ==
  ASSUME LexInv, Reading, NEW t \in Tokens_, t.kind \in Other, Give(t),
         UNCHANGED <<src, ind, started, pending, panicked>>,
         pos' \in Place, pos'.idx <= Len(src), Counted', ModeStack(mode'), Owed(mode') \in Int,
         1 + Owed(mode') - 3 * pos'.idx <= Owed(mode) - 3 * pos.idx
  PROVE  LexInv'
<1> DEFINE u == <<t>>
<1>1. pending = <<>> /\ toks \in Seq(Tokens_)
  BY NoEnd
<1>2. Adds(u)
  BY <1>1, GaveOne
<1>3. t.kind \notin {"BlockStart", "BlockEnd", "EOF"}
  BY DEF Other
<1>4. Len(u) = 1 /\ \A k \in 1..Len(u) : u[k] = t
  OBVIOUS
<1>5. Stack(ind) /\ Len(ind) \in Nat /\ pos.idx \in Nat /\ Owed(mode) \in Int
  BY InvFacts
<1>6. pos'.idx \in Nat
  BY DEF Place
<1> HIDE DEF u
<1>7. Num("BlockEnd", u, Len(u)) = 0
  BY <1>3, <1>4, NumNone
<1>8. Len(ind) - Len(ind') = 0 /\ Len(ind') = Len(ind) /\ Stack(ind')
  BY <1>5
<1>9. Len(u) + Len(ind') + Owed(mode') - 3 * pos'.idx <= Len(ind) + Owed(mode) - 3 * pos.idx
  <2> DEFINE m == Len(ind)  c == Owed(mode)  d == Owed(mode')  i == pos.idx  j == pos'.idx
  <2>1. /\ m \in Nat /\ c \in Int /\ d \in Int /\ i \in Nat /\ j \in Nat
        /\ 1 + d - 3 * j <= c - 3 * i
    BY <1>5, <1>6
  <2> HIDE DEF m, c, d, i, j
  <2>2. 1 + m + d - 3 * j <= m + c - 3 * i
    BY <2>1
  <2> USE DEF m, c, d, i, j
  <2> QED BY <1>4, <1>8, <2>2
<1> HIDE DEF Reading, LexInv, Counted
<1> QED BY <1>2, <1>3, <1>4, <1>7, <1>8, <1>9, Keeps

LEMMA Consumed ==
  ASSUME LexInv, Reading, NEW j \in Nat, NEW kind \in Other, Consume(j, kind),
         UNCHANGED <<src, ind, started, pending, panicked>>,
         pos.idx < j, j <= Len(src), pos.line > 0,
         ModeStack(mode'), Owed(mode') \in Int, Owed(mode') <= Owed(mode) + 2
  PROVE  LexInv'
<1>1. src \in Sources /\ pos \in Place /\ pos.idx \in Nat /\ Owed(mode) \in Int
  BY InvFacts
<1>2. pos' \in Place /\ pos'.idx = j /\ pos'.line = pos.line /\ pos' = Moved(pos, j)
  BY <1>1, MovedFacts DEF Consume
<1>3. kind \in Kinds
  BY DEF Other
<1>4. Token(kind, pos, Moved(pos, j)) \in Tokens_ /\ Token(kind, pos, Moved(pos, j)).kind = kind
  BY <1>1, <1>2, <1>3, TokenFacts
<1>5. Give(Token(kind, pos, Moved(pos, j)))
  BY DEF Consume
<1>6. Counted'
  BY <1>2 DEF Counted
<1>7. 1 + Owed(mode') - 3 * pos'.idx <= Owed(mode) - 3 * pos.idx
  <2> DEFINE c == Owed(mode)  d == Owed(mode')  i == pos.idx
  <2>1. c \in Int /\ d \in Int /\ i \in Nat /\ i < j /\ d <= c + 2
    BY <1>1
  <2> HIDE DEF c, d, i
  <2>2. 1 + d - 3 * j <= c - 3 * i
    BY <2>1
  <2> USE DEF c, d, i
  <2> QED BY <1>2, <2>2
<1> HIDE DEF Reading, LexInv, Counted
<1> QED BY <1>2, <1>4, <1>5, <1>6, <1>7, OneStep

LEMMA ModesNamed ==
  /\ StrText \in Modes /\ StrText.m = "StrText" /\ StrExpr \in Modes /\ StrExpr.m = "StrExpr"
  /\ \A d \in Nat, o \in Opening : d > 0 => Bracket(o, d) \in Modes /\ Bracket(o, d).m = "Bracket"
  /\ \A f \in Nat : StrBlock(f) \in Modes /\ StrBlock(f).m = "StrBlock"
<1>1. StrText \in Modes /\ StrText.m = "StrText" /\ StrExpr \in Modes /\ StrExpr.m = "StrExpr"
  BY DEF Modes, StrText, StrExpr
<1>2. \A d \in Nat, o \in Opening : d > 0 => Bracket(o, d) \in Modes /\ Bracket(o, d).m = "Bracket"
  BY DEF Modes, Bracket
<1>3. \A f \in Nat : StrBlock(f) \in Modes /\ StrBlock(f).m = "StrBlock"
  BY DEF Modes, StrBlock
<1> QED BY <1>1, <1>2, <1>3

LEMMA OpenKeeps == LexInv /\ Open => LexInv'
<1> SUFFICES ASSUME LexInv, Open PROVE LexInv'
  OBVIOUS
<1>1. /\ Reading /\ Top.m \notin TextModes /\ At(pos.idx) \in Opening
      /\ mode' = Append(mode, Bracket(At(pos.idx), Len(ind)))
      /\ Consume(pos.idx + 1, "BracketOpen")
      /\ UNCHANGED <<src, ind, started, pending, panicked>>
  BY DEF Open, InCode, TextModes
<1>2. At(pos.idx) # NoByte /\ At(pos.idx) # "\n"
  BY <1>1, NotTheEnd, Zenon DEF Opening, OpenBrace
<1>3. /\ pos.idx \in Nat /\ Len(src) \in Nat /\ pos.idx < Len(src) /\ pos.line > 0
      /\ ModeStack(mode) /\ Owed(mode) \in Int /\ Len(ind) \in Nat \ {0}
  BY <1>2, InvFacts
<1> DEFINE m == Bracket(At(pos.idx), Len(ind))
<1>4. m \in Modes /\ m.m = "Bracket"
  BY <1>1, <1>3, ModesNamed
<1>5. ModeStack(mode') /\ Owed(mode') = Owed(mode) + 2
  <2> HIDE DEF m
  <2>1. ModeStack(Append(mode, m)) /\ Owed(Append(mode, m)) = Owed(mode) + (IF m.m = "StrBlock" THEN 5 ELSE 2)
    BY <1>1, <1>3, <1>4, Pushed DEF Top
  <2> QED BY <1>1, <1>4, <2>1 DEF m
<1>6. "BracketOpen" \in Other
  BY DEF Other, Kinds
<1> HIDE DEF LexInv, Reading
<1>7. pos.idx + 1 \in Nat /\ pos.idx < pos.idx + 1 /\ pos.idx + 1 <= Len(src) /\ Owed(mode') <= Owed(mode) + 2
  BY <1>3, <1>5
<1> QED BY <1>1, <1>3, <1>5, <1>6, <1>7, Consumed

LEMMA NotABreak ==
  /\ "\n" \notin Digits /\ "\n" \notin IdentBytes /\ "\n" \notin DOMAIN Mono
  /\ "\n" \notin Opening /\ "\n" \notin Closing /\ "\n" # Space /\ "\n" # Quote /\ "\n" # CloseBrace
BY Zenon DEF Space, Digits, IdentBytes, Letters, Mono, Opening, Closing, OpenBrace, CloseBrace, Quote

LEMMA MonoKinds == \A c \in DOMAIN Mono : Mono[c] \in Other
BY Zenon DEF Mono, Other, Kinds

\* A step that consumes bytes of the line in code and leaves the modes as they are.
LEMMA ConsumedInLine ==
  ASSUME LexInv, Reading, NEW j \in Nat, NEW kind \in Other, Consume(j, kind),
         UNCHANGED <<src, mode, ind, started, pending, panicked>>,
         pos.idx < j, j <= Len(src), At(pos.idx) # "\n"
  PROVE  LexInv'
<1>1. pos.line > 0 /\ ModeStack(mode) /\ Owed(mode) \in Int
  BY InvFacts
<1>2. ModeStack(mode') /\ Owed(mode') \in Int /\ Owed(mode') <= Owed(mode) + 2
  BY <1>1
<1> HIDE DEF LexInv, Reading
<1> QED BY <1>1, <1>2, Consumed

LEMMA PunctKeeps == LexInv /\ Punct => LexInv'
<1> SUFFICES ASSUME LexInv, Punct PROVE LexInv'
  OBVIOUS
<1>1. /\ Reading /\ At(pos.idx) \in DOMAIN Mono
      /\ Consume(pos.idx + 1, Mono[At(pos.idx)])
      /\ UNCHANGED <<src, mode, ind, started, pending, panicked>>
  BY Zenon DEF Punct, InCode
<1>2. At(pos.idx) # NoByte /\ At(pos.idx) # "\n"
  BY <1>1, NotTheEnd, NotABreak
<1>3. pos.idx + 1 \in Nat /\ pos.idx < pos.idx + 1 /\ pos.idx + 1 <= Len(src)
  BY <1>2, InvFacts
<1>4. Mono[At(pos.idx)] \in Other
  BY <1>1, MonoKinds
<1> HIDE DEF LexInv, Reading
<1> QED BY <1>1, <1>2, <1>3, <1>4, ConsumedInLine

LEMMA DecimalFacts ==
  ASSUME src \in Sources, NEW j \in Nat, At(j) # NoByte
  PROVE  DecimalFrom(j).kind = "Decimal" /\ DecimalFrom(j).end \in (j + 1)..Len(src)
<1>1. Len(src) \in Nat /\ \A i \in Int : At(i) # NoByte <=> i \in 0..(Len(src) - 1)
  BY SourceFacts
<1>2. j + 1 <= Len(src)
  BY <1>1
<1>3. CASE At(j + 1) \in {"-", "+"} /\ At(j + 2) \in Digits
  <2>1. At(j + 2) # NoByte
    BY <1>3, NotTheEnd
  <2>2. j + 2 \in Nat /\ j + 2 <= Len(src)
    BY <1>1, <2>1
  <2>3. Run(j + 2, DecDigits) \in (j + 2)..Len(src)
    BY <2>2, RunFacts, NotTheEnd
  <2>4. DecimalFrom(j) = Scanned("Decimal", Run(j + 2, DecDigits))
    BY <1>3 DEF DecimalFrom
  <2> QED BY <1>1, <2>3, <2>4 DEF Scanned
<1>4. CASE ~(At(j + 1) \in {"-", "+"} /\ At(j + 2) \in Digits)
  <2>1. DecimalFrom(j) = Scanned("Decimal", j + 1)
    BY <1>4 DEF DecimalFrom
  <2> QED BY <1>1, <1>2, <2>1 DEF Scanned
<1> QED BY <1>3, <1>4

LEMMA FractionFacts ==
  ASSUME src \in Sources, NEW j \in Nat, j <= Len(src)
  PROVE  FractionFrom(j).kind \in {"Float", "Decimal"} /\ FractionFrom(j).end \in j..Len(src)
<1> DEFINE k == Run(j, DecDigits)
           e == IF At(k + 1) \in {"+", "-"} THEN k + 2 ELSE k + 1
<1>1. Len(src) \in Nat /\ \A i \in Int : At(i) # NoByte <=> i \in 0..(Len(src) - 1)
  BY SourceFacts
<1>2. k \in j..Len(src) /\ k \in Nat
  BY RunFacts, NotTheEnd
<1> HIDE DEF k
<1>3. e \in Nat /\ e > k
  BY <1>2
<1>4. CASE At(k) = "e" /\ At(e) \in Digits
  <2>1. At(e) # NoByte
    BY <1>4, NotTheEnd
  <2>2. e <= Len(src)
    BY <1>1, <1>3, <2>1
  <2>3. Run(e, DecDigits) \in e..Len(src)
    BY <1>3, <2>2, RunFacts, NotTheEnd
  <2>4. FractionFrom(j) = Scanned("Float", Run(e, DecDigits))
    BY <1>4 DEF FractionFrom, k
  <2> HIDE DEF e
  <2> QED BY <1>1, <1>2, <1>3, <2>3, <2>4 DEF Scanned
<1>5. CASE ~(At(k) = "e" /\ At(e) \in Digits) /\ At(k) = "d"
  <2>1. At(k) # NoByte
    BY <1>5, Zenon DEF NoByte
  <2>2. DecimalFrom(k).kind = "Decimal" /\ DecimalFrom(k).end \in (k + 1)..Len(src)
    BY <1>2, <2>1, DecimalFacts
  <2>3. FractionFrom(j) = DecimalFrom(k)
    BY <1>5 DEF FractionFrom, k
  <2> QED BY <1>1, <1>2, <2>2, <2>3
<1>6. CASE ~(At(k) = "e" /\ At(e) \in Digits) /\ At(k) # "d"
  <2>1. FractionFrom(j) = Scanned("Float", k)
    BY <1>6 DEF FractionFrom, k
  <2> QED BY <1>1, <1>2, <2>1 DEF Scanned
<1> QED BY <1>4, <1>5, <1>6

LEMMA NumberFacts ==
  ASSUME src \in Sources, NEW i \in Nat, At(i) \in Digits
  PROVE  NumberFrom(i).kind \in {"Int", "Float", "Decimal"} /\ NumberFrom(i).end \in (i + 1)..Len(src)
<1> DEFINE j == Run(i, DecDigits)
           Based(c) == At(i) = "0" /\ At(i + 1) = c
<1>1. Len(src) \in Nat /\ \A k \in Int : At(k) # NoByte <=> k \in 0..(Len(src) - 1)
  BY SourceFacts
<1>2. At(i) # NoByte /\ i < Len(src)
  BY <1>1, NotTheEnd
<1>3. At(i) \in DecDigits
  BY DEF DecDigits
<1>4. j \in i..Len(src) /\ j \in Nat /\ At(j) \notin DecDigits
  BY <1>2, RunFacts, NotTheEnd
<1>5. j # i
  BY <1>3, <1>4
<1>6. j \in (i + 1)..Len(src)
  BY <1>1, <1>4, <1>5
<1> HIDE DEF j
<1>7. ASSUME NEW c \in {"x", "b", "o"}, Based(c), NEW class, NoByte \notin class
      PROVE  Run(i + 2, class) \in (i + 1)..Len(src)
  <2>1. At(i + 1) # NoByte
    BY <1>7, Zenon DEF NoByte
  <2>2. i + 2 \in Nat /\ i + 2 <= Len(src)
    BY <1>1, <2>1
  <2>3. Run(i + 2, class) \in (i + 2)..Len(src)
    BY <1>7, <2>2, RunFacts
  <2> QED BY <1>1, <2>3
<1>8. CASE Based("x")
  <2>1. NumberFrom(i) = Scanned("Int", Run(i + 2, HexDigits))
    BY <1>8 DEF NumberFrom
  <2>2. Run(i + 2, HexDigits) \in (i + 1)..Len(src)
    BY <1>7, <1>8, NotTheEnd
  <2> QED BY <2>1, <2>2 DEF Scanned
<1>9. CASE Based("b")
  <2>1. NumberFrom(i) = Scanned("Int", Run(i + 2, BinDigits))
    BY <1>9 DEF NumberFrom
  <2>2. Run(i + 2, BinDigits) \in (i + 1)..Len(src)
    BY <1>7, <1>9, NotTheEnd
  <2> QED BY <2>1, <2>2 DEF Scanned
<1>10. CASE Based("o")
  <2>1. NumberFrom(i) = Scanned("Int", Run(i + 2, OctDigits))
    BY <1>10 DEF NumberFrom
  <2>2. Run(i + 2, OctDigits) \in (i + 1)..Len(src)
    BY <1>7, <1>10, NotTheEnd
  <2> QED BY <2>1, <2>2 DEF Scanned
<1>11. CASE ~Based("x") /\ ~Based("b") /\ ~Based("o")
  <2>1. NumberFrom(i) = IF At(j) = "." /\ At(j + 1) \in Digits THEN FractionFrom(j + 1)
                        ELSE IF At(j) = "d" THEN DecimalFrom(j) ELSE Scanned("Int", j)
    BY <1>11 DEF NumberFrom, j
  <2>2. CASE At(j) = "." /\ At(j + 1) \in Digits
    <3>1. At(j + 1) # NoByte
      BY <2>2, NotTheEnd
    <3>2. j + 1 \in Nat /\ j + 1 <= Len(src)
      BY <1>1, <1>4, <3>1
    <3>3. FractionFrom(j + 1).kind \in {"Float", "Decimal"} /\ FractionFrom(j + 1).end \in (j + 1)..Len(src)
      BY <3>2, FractionFacts
    <3>4. FractionFrom(j + 1).end \in (i + 1)..Len(src)
      BY <1>1, <1>6, <3>3
    <3> QED BY <2>1, <2>2, <3>3, <3>4
  <2>3. CASE ~(At(j) = "." /\ At(j + 1) \in Digits) /\ At(j) = "d"
    <3>1. At(j) # NoByte
      BY <2>3, Zenon DEF NoByte
    <3>2. DecimalFrom(j).kind = "Decimal" /\ DecimalFrom(j).end \in (j + 1)..Len(src)
      BY <1>4, <3>1, DecimalFacts
    <3>3. DecimalFrom(j).end \in (i + 1)..Len(src)
      BY <1>1, <1>6, <3>2
    <3> QED BY <2>1, <2>3, <3>2, <3>3
  <2>4. CASE ~(At(j) = "." /\ At(j + 1) \in Digits) /\ At(j) # "d"
    BY <1>6, <2>1, <2>4 DEF Scanned
  <2> QED BY <2>2, <2>3, <2>4
<1> QED BY <1>8, <1>9, <1>10, <1>11

LEMMA NumberKeeps == LexInv /\ Number => LexInv'
<1> SUFFICES ASSUME LexInv, Number PROVE LexInv'
  OBVIOUS
<1> DEFINE i == IF At(pos.idx) = "-" THEN pos.idx + 1 ELSE pos.idx
           n == NumberFrom(i)
<1>1. /\ Reading /\ At(i) \in Digits /\ Consume(n.end, n.kind)
      /\ UNCHANGED <<src, mode, ind, started, pending, panicked>>
  BY DEF Number, InCode
<1>2. src \in Sources /\ pos.idx \in Nat /\ Len(src) \in Nat
  BY InvFacts
<1>3. i \in Nat /\ i >= pos.idx
  BY <1>2
<1>4. At(pos.idx) # "\n"
  BY <1>1, NotABreak
<1> HIDE DEF i
<1>5. n.kind \in {"Int", "Float", "Decimal"} /\ n.end \in (i + 1)..Len(src)
  BY <1>1, <1>2, <1>3, NumberFacts
<1> HIDE DEF n, LexInv, Reading
<1>6. n.end \in Nat /\ pos.idx < n.end /\ n.end <= Len(src)
  BY <1>2, <1>3, <1>5
<1>7. n.kind \in Other
  BY <1>5 DEF Other, Kinds
<1> QED BY <1>1, <1>4, <1>6, <1>7, ConsumedInLine

LEMMA OpKeeps == LexInv /\ Op => LexInv'
<1> SUFFICES ASSUME LexInv, Op PROVE LexInv'
  OBVIOUS
<1> DEFINE fits == {n \in 1..(Len(src) - pos.idx) : Text(pos.idx, pos.idx + n) \in Seps}
<1>1. /\ Reading /\ At(pos.idx) # NoByte /\ At(pos.idx) # "\n"
      /\ UNCHANGED <<src, mode, ind, started, pending, panicked>>
  BY Zenon DEF Op, InCode
<1>2. IF fits # {} THEN Consume(pos.idx + Max(fits), "Sep") ELSE Consume(pos.idx + 1, "Err")
  BY Zenon DEF Op
<1>3. pos.idx \in Nat /\ Len(src) \in Nat /\ pos.idx < Len(src)
  BY <1>1, InvFacts
<1>4. "Sep" \in Other /\ "Err" \in Other
  BY DEF Other, Kinds
<1>5. fits \subseteq 0..(Len(src) - pos.idx) /\ Len(src) - pos.idx \in Nat
  BY <1>3
<1>6. fits \subseteq 1..(Len(src) - pos.idx)
  OBVIOUS
<1> HIDE DEF fits, LexInv, Reading
<1>7. CASE fits # {}
  <2>1. Max(fits) \in fits
    BY <1>5, <1>7, MaxFacts
  <2>2. Max(fits) \in 1..(Len(src) - pos.idx)
    BY <1>6, <2>1
  <2>3. pos.idx + Max(fits) \in Nat /\ pos.idx < pos.idx + Max(fits) /\ pos.idx + Max(fits) <= Len(src)
    BY <1>3, <2>2
  <2> QED BY <1>1, <1>2, <1>4, <1>7, <2>3, ConsumedInLine
<1>8. CASE fits = {}
  <2>1. pos.idx + 1 \in Nat /\ pos.idx < pos.idx + 1 /\ pos.idx + 1 <= Len(src)
    BY <1>3
  <2> QED BY <1>1, <1>2, <1>4, <1>8, <2>1, ConsumedInLine
<1> QED BY <1>7, <1>8

LEMMA LineCommentKeeps == LexInv /\ LineComment => LexInv'
<1> SUFFICES ASSUME LexInv, LineComment PROVE LexInv'
  OBVIOUS
<1> DEFINE S == {j \in pos.idx..Len(src) : At(j) \in {"\n", NoByte}}
<1>1. /\ Reading /\ At(pos.idx) = "#" /\ Consume(Min(S), "Comment")
      /\ UNCHANGED <<src, mode, ind, started, pending, panicked>>
  BY Zenon DEF LineComment, InCode
<1>2. /\ pos.idx \in Nat /\ Len(src) \in Nat /\ pos.idx <= Len(src) /\ src \in Sources
  BY InvFacts
<1>3. At(Len(src)) = NoByte
  BY <1>2, SourceFacts
<1>4. Len(src) \in S /\ S \subseteq Nat
  BY <1>2, <1>3
<1>5. At(pos.idx) \notin {"\n", NoByte}
  BY <1>1, NotTheEnd
<1>6. pos.idx \notin S
  BY <1>5
<1>7. \A j \in S : j \in Nat /\ pos.idx <= j /\ j <= Len(src)
  BY <1>2
<1> HIDE DEF S, LexInv, Reading
<1>8. Min(S) \in S
  BY <1>4, MinFacts
<1>9. Min(S) \in Nat /\ pos.idx < Min(S) /\ Min(S) <= Len(src)
  BY <1>2, <1>6, <1>7, <1>8
<1>10. "Comment" \in Other
  BY DEF Other, Kinds
<1> QED BY <1>1, <1>5, <1>9, <1>10, ConsumedInLine

LEMMA OpenStringKeeps == LexInv /\ OpenString => LexInv'
<1> SUFFICES ASSUME LexInv, OpenString PROVE LexInv'
  OBVIOUS
<1>1. /\ Reading /\ Top.m \notin TextModes /\ At(pos.idx) = "'" /\ mode' = Append(mode, StrText)
      /\ Consume(pos.idx + 1, "StrStart")
      /\ UNCHANGED <<src, ind, started, pending, panicked>>
  BY DEF OpenString, InCode, TextModes
<1>2. At(pos.idx) # NoByte /\ At(pos.idx) # "\n"
  BY <1>1, NotTheEnd
<1>3. /\ pos.idx \in Nat /\ pos.idx < Len(src) /\ pos.line > 0 /\ Len(src) \in Nat
      /\ ModeStack(mode) /\ Owed(mode) \in Int
  BY <1>2, InvFacts
<1>4. ModeStack(mode') /\ Owed(mode') = Owed(mode) + 2
  <2>1. StrText \in Modes /\ StrText.m = "StrText"
    BY ModesNamed
  <2> HIDE DEF StrText
  <2>2. /\ ModeStack(Append(mode, StrText))
        /\ Owed(Append(mode, StrText)) = Owed(mode) + (IF StrText.m = "StrBlock" THEN 5 ELSE 2)
    BY <1>1, <1>3, <2>1, Pushed DEF Top
  <2> QED BY <1>1, <2>1, <2>2
<1>5. "StrStart" \in Other
  BY DEF Other, Kinds
<1> HIDE DEF LexInv, Reading
<1>6. pos.idx + 1 \in Nat /\ pos.idx < pos.idx + 1 /\ pos.idx + 1 <= Len(src) /\ Owed(mode') <= Owed(mode) + 2
  BY <1>3, <1>4
<1> QED BY <1>1, <1>3, <1>4, <1>5, <1>6, Consumed

LEMMA OpenInterpKeeps == LexInv /\ OpenInterp => LexInv'
<1> SUFFICES ASSUME LexInv, OpenInterp PROVE LexInv'
  OBVIOUS
<1>1. /\ Reading /\ At(pos.idx) = "$" /\ At(pos.idx + 1) = OpenBrace /\ mode' = Append(mode, StrExpr)
      /\ Consume(pos.idx + 2, "StrExprStart")
      /\ UNCHANGED <<src, ind, started, pending, panicked>>
  BY DEF OpenInterp, InterpAt
<1>2. At(pos.idx) # "\n" /\ At(pos.idx + 1) # NoByte
  BY <1>1, NotTheEnd
<1>3. /\ pos.idx \in Nat /\ pos.line > 0 /\ src \in Sources
      /\ ModeStack(mode) /\ Owed(mode) \in Int
  BY <1>2, InvFacts
<1>4. pos.idx + 1 < Len(src) /\ Len(src) \in Nat
  BY <1>2, <1>3, SourceFacts
<1>5. ModeStack(mode') /\ Owed(mode') = Owed(mode) + 2
  <2>1. StrExpr \in Modes /\ StrExpr.m = "StrExpr"
    BY ModesNamed
  <2> HIDE DEF StrExpr
  <2>2. /\ ModeStack(Append(mode, StrExpr))
        /\ Owed(Append(mode, StrExpr)) = Owed(mode) + (IF StrExpr.m = "StrBlock" THEN 5 ELSE 2)
    BY <1>1, <1>3, <2>1, Pushed DEF Top
  <2> QED BY <1>1, <2>1, <2>2
<1>6. "StrExprStart" \in Other
  BY DEF Other, Kinds
<1> HIDE DEF LexInv, Reading
<1>7. pos.idx + 2 \in Nat /\ pos.idx < pos.idx + 2 /\ pos.idx + 2 <= Len(src) /\ Owed(mode') <= Owed(mode) + 2
  BY <1>3, <1>4, <1>5
<1> QED BY <1>1, <1>3, <1>5, <1>6, <1>7, Consumed

\* Leaving what encloses the position.
LEMMA Left ==
  ASSUME LexInv, Top.m # "Block", mode' = Front(mode)
  PROVE  /\ ModeStack(mode') /\ Owed(mode') \in Int /\ Owed(mode') <= Owed(mode) - 2
         /\ Top.m = "StrBlock" => Owed(mode') = Owed(mode) - 5
         /\ Top.m # "StrExpr" => Last(mode').m \notin TextModes
<1>1. ModeStack(mode) /\ Owed(mode) \in Int
  BY InvFacts
<1>2. /\ ModeStack(Front(mode))
      /\ Owed(Front(mode)) = Owed(mode) - (IF Last(mode).m = "StrBlock" THEN 5 ELSE 2)
      /\ Last(mode).m # "StrExpr" => Last(Front(mode)).m \notin TextModes
  BY <1>1, Popped DEF Top
<1> QED BY <1>1, <1>2 DEF Top

LEMMA CloseInterpKeeps == LexInv /\ CloseInterp => LexInv'
<1> SUFFICES ASSUME LexInv, CloseInterp PROVE LexInv'
  OBVIOUS
<1>1. /\ Reading /\ Top.m = "StrExpr" /\ At(pos.idx) = CloseBrace /\ mode' = Front(mode)
      /\ Consume(pos.idx + 1, "StrExprEnd")
      /\ UNCHANGED <<src, ind, started, pending, panicked>>
  BY DEF CloseInterp
<1>2. At(pos.idx) # NoByte /\ At(pos.idx) # "\n"
  BY <1>1, NotTheEnd, NotABreak
<1>3. pos.idx \in Nat /\ pos.idx < Len(src) /\ pos.line > 0 /\ Len(src) \in Nat /\ Owed(mode) \in Int
  BY <1>2, InvFacts
<1>4. ModeStack(mode') /\ Owed(mode') \in Int /\ Owed(mode') <= Owed(mode) - 2
  BY <1>1, Left
<1>5. "StrExprEnd" \in Other
  BY DEF Other, Kinds
<1> HIDE DEF LexInv, Reading
<1>6. pos.idx + 1 \in Nat /\ pos.idx < pos.idx + 1 /\ pos.idx + 1 <= Len(src) /\ Owed(mode') <= Owed(mode) + 2
  BY <1>3, <1>4
<1> QED BY <1>1, <1>3, <1>4, <1>5, <1>6, Consumed

\* An error where the position stands: something that was not closed is left.
LEMMA LeftInError ==
  ASSUME LexInv, Reading, Top.m # "Block", mode' = Front(mode), pos.line > 0,
         Give(Mark("Err", pos)), UNCHANGED <<src, pos, ind, started, pending, panicked>>
  PROVE  LexInv'
<1>1. src \in Sources /\ pos \in Place /\ pos.idx <= Len(src) /\ pos.idx \in Nat /\ Owed(mode) \in Int
  BY InvFacts
<1>2. ModeStack(mode') /\ Owed(mode') \in Int /\ Owed(mode') <= Owed(mode) - 2
  BY Left
<1>3. "Err" \in Other /\ "Err" \in Kinds
  BY DEF Other, Kinds
<1>4. Mark("Err", pos) \in Tokens_ /\ Mark("Err", pos).kind = "Err"
  BY <1>1, <1>3, TokenFacts
<1>5. Counted' /\ pos' \in Place /\ pos'.idx <= Len(src)
  BY <1>1 DEF Counted
<1>6. 1 + Owed(mode') - 3 * pos'.idx <= Owed(mode) - 3 * pos.idx
  <2> DEFINE c == Owed(mode)  d == Owed(mode')  i == pos.idx
  <2>1. c \in Int /\ d \in Int /\ i \in Nat /\ d <= c - 2
    BY <1>1, <1>2
  <2> HIDE DEF c, d, i
  <2>2. 1 + d - 3 * i <= c - 3 * i
    BY <2>1
  <2> USE DEF c, d, i
  <2> QED BY <2>2
<1> HIDE DEF LexInv, Reading, Counted
<1> QED BY <1>2, <1>3, <1>4, <1>5, <1>6, OneStep

LEMMA CloseStringKeeps == LexInv /\ CloseString => LexInv'
<1> SUFFICES ASSUME LexInv, CloseString PROVE LexInv'
  OBVIOUS
<1>1. /\ Reading /\ Top.m = "StrText" /\ mode' = Front(mode)
      /\ UNCHANGED <<src, ind, started, pending, panicked>>
      /\ IF At(pos.idx) = "'" THEN Consume(pos.idx + 1, "StrEnd")
                              ELSE Give(Mark("Err", pos)) /\ UNCHANGED pos
  BY DEF CloseString
<1>2. /\ pos.idx \in Nat /\ pos.line > 0 /\ Len(src) \in Nat /\ Owed(mode) \in Int
      /\ At(pos.idx) # NoByte => pos.idx < Len(src)
  BY <1>1, InvFacts DEF TextModes
<1>3. CASE At(pos.idx) = "'"
  <2>1. At(pos.idx) # NoByte
    BY <1>3, NotTheEnd
  <2>2. ModeStack(mode') /\ Owed(mode') \in Int /\ Owed(mode') <= Owed(mode) - 2
    BY <1>1, Left
  <2>3. "StrEnd" \in Other
    BY DEF Other, Kinds
  <2> HIDE DEF LexInv, Reading
  <2>4. pos.idx + 1 \in Nat /\ pos.idx < pos.idx + 1 /\ pos.idx + 1 <= Len(src) /\ Owed(mode') <= Owed(mode) + 2
    BY <1>2, <2>1, <2>2
  <2> QED BY <1>1, <1>2, <1>3, <2>2, <2>3, <2>4, Consumed
<1>4. CASE At(pos.idx) # "'"
  <2> HIDE DEF LexInv, Reading
  <2>1. Top.m # "Block"
    BY <1>1
  <2> QED BY <1>1, <1>2, <1>4, <2>1, LeftInError
<1> QED BY <1>3, <1>4

-----------------------------------------------------------------------------
(* Indentation *)

LEMMA StackFacts ==
  ASSUME NEW s, Stack(s)
  PROVE  /\ Len(s) \in Nat \ {0} /\ Last(s) \in Nat /\ Last(s) = s[Len(s)]
         /\ Len(s) > 1 => Stack(Front(s)) /\ Len(Front(s)) = Len(s) - 1 /\ Last(Front(s)) <= Last(s)
         /\ Last(s) # 0 => Len(s) > 1
         /\ \A n \in Nat : Last(s) <= n => Stack(Append(s, n)) /\ Len(Append(s, n)) = Len(s) + 1
<1>1. /\ s \in Seq(Nat) /\ Len(s) \in Nat \ {0} /\ s[1] = 0 /\ \A k \in 2..Len(s) : s[k - 1] <= s[k]
      /\ Last(s) = s[Len(s)] /\ Last(s) \in Nat
  BY DEF Stack, Last
<1>2. ASSUME Len(s) > 1
      PROVE  Stack(Front(s)) /\ Len(Front(s)) = Len(s) - 1 /\ Last(Front(s)) <= Last(s)
  <2> DEFINE t == Front(s)
  <2>1. t \in Seq(Nat) /\ Len(t) = Len(s) - 1 /\ \A k \in 1..(Len(s) - 1) : t[k] = s[k]
    BY <1>1, <1>2 DEF Front
  <2> HIDE DEF t
  <2>0. 1 \in 1..(Len(s) - 1)
    BY <1>1, <1>2
  <2>2. t[1] = 0 /\ Len(t) > 0
    BY <1>1, <1>2, <2>0, <2>1
  <2>3. \A k \in 2..Len(t) : k - 1 \in 1..(Len(s) - 1) /\ k \in 1..(Len(s) - 1) /\ k \in 2..Len(s)
    BY <1>1, <2>1
  <2>4. \A k \in 2..Len(t) : t[k - 1] <= t[k]
    BY <1>1, <2>1, <2>3
  <2>5. Last(t) = s[Len(s) - 1] /\ Len(s) \in 2..Len(s)
    BY <1>1, <1>2, <2>1 DEF Last
  <2> QED BY <1>1, <2>1, <2>2, <2>4, <2>5 DEF Stack, t
<1>3. Last(s) # 0 => Len(s) > 1
  BY <1>1
<1>4. ASSUME NEW n \in Nat, Last(s) <= n
      PROVE  Stack(Append(s, n)) /\ Len(Append(s, n)) = Len(s) + 1
  <2> DEFINE t == Append(s, n)
  <2>1. t \in Seq(Nat) /\ Len(t) = Len(s) + 1 /\ t[Len(s) + 1] = n /\ \A k \in 1..Len(s) : t[k] = s[k]
    BY <1>1
  <2> HIDE DEF t
  <2>2. ASSUME NEW k \in 2..Len(t) PROVE t[k - 1] <= t[k]
    <3>1. CASE k \in 2..Len(s)
      <4>1. k \in 1..Len(s) /\ k - 1 \in 1..Len(s)
        BY <1>1, <3>1
      <4> QED BY <1>1, <2>1, <3>1, <4>1
    <3>2. CASE k = Len(s) + 1
      <4>1. k - 1 = Len(s) /\ Len(s) \in 1..Len(s)
        BY <1>1, <3>2
      <4>2. t[k - 1] = Last(s) /\ t[k] = n
        BY <1>1, <2>1, <3>2, <4>1
      <4> QED BY <1>4, <4>2
    <3> QED BY <1>1, <2>1, <3>1, <3>2
  <2> QED BY <1>1, <2>1, <2>2 DEF Stack, t
<1> QED BY <1>1, <1>2, <1>3, <1>4

\* A step that hands out one token and leaves what encloses the position as it is.
LEMMA LayoutStep ==
  ASSUME LexInv, Reading, NEW t \in Tokens_, t.kind # "EOF", Give(t),
         UNCHANGED <<src, mode, started, pending, panicked>>,
         pos' \in Place, pos'.idx <= Len(src), Counted', Stack(ind'),
         \/ t.kind = "BlockStart" /\ Len(ind') = Len(ind) + 1 /\ pos'.idx > pos.idx
         \/ t.kind = "BlockEnd" /\ Len(ind') = Len(ind) - 1 /\ pos'.idx >= pos.idx
         \/ t.kind \in Other /\ Len(ind') = Len(ind) /\ pos'.idx > pos.idx
  PROVE  LexInv'
<1> DEFINE u == <<t>>
<1>1. pending = <<>> /\ toks \in Seq(Tokens_)
  BY NoEnd
<1>2. Adds(u)
  BY <1>1, GaveOne
<1>3. Len(u) = 1 /\ \A k \in 1..Len(u) : u[k] = t
  OBVIOUS
<1>4. /\ Len(ind) \in Nat /\ pos.idx \in Nat /\ Owed(mode) \in Int /\ ModeStack(mode) /\ pos'.idx \in Nat
      /\ Len(ind') \in Nat
  BY InvFacts, StackFacts DEF Place
<1>5. Len(u) + Len(ind') + Owed(mode') - 3 * pos'.idx <= Len(ind) + Owed(mode) - 3 * pos.idx
  <2> DEFINE m == Len(ind)  n == Len(ind')  c == Owed(mode)  i == pos.idx  j == pos'.idx
  <2>1. /\ m \in Nat /\ n \in Nat /\ c \in Int /\ i \in Nat /\ j \in Nat
        /\ \/ n = m + 1 /\ j > i
           \/ n = m - 1 /\ j >= i
           \/ n = m /\ j > i
    BY <1>4
  <2> HIDE DEF m, n, c, i, j
  <2>2. 1 + n + c - 3 * j <= m + c - 3 * i
    BY <2>1
  <2>3. Owed(mode') = c
    BY DEF c
  <2> USE DEF m, n, c, i, j
  <2> QED BY <1>3, <2>2, <2>3
<1>6. ModeStack(mode')
  BY <1>4
<1>7. \A k \in 1..Len(u) : u[k].kind # "EOF"
  BY <1>3
<1>8. CASE t.kind = "BlockStart" /\ Len(ind') = Len(ind) + 1
  <2> HIDE DEF LexInv, Reading, Counted
  <2> QED BY <1>2, <1>5, <1>6, <1>7, <1>8, Keeps
<1>9. CASE t.kind = "BlockEnd" /\ Len(ind') = Len(ind) - 1
  <2> HIDE DEF u
  <2>1. Num("BlockEnd", u, Len(u)) = Len(u)
    BY <1>3, <1>9, NumAll
  <2>2. Num("BlockEnd", u, Len(u)) = Len(ind) - Len(ind') /\ \A k \in 1..Len(u) : u[k].kind # "BlockStart"
    BY <1>3, <1>4, <1>9, <2>1
  <2> HIDE DEF LexInv, Reading, Counted
  <2> QED BY <1>2, <1>5, <1>6, <1>7, <2>2, Keeps
<1>10. CASE t.kind \in Other /\ Len(ind') = Len(ind)
  <2> HIDE DEF u
  <2>1. \A k \in 1..Len(u) : u[k].kind # "BlockEnd" /\ u[k].kind # "BlockStart"
    BY <1>3, <1>10 DEF Other
  <2>2. Num("BlockEnd", u, Len(u)) = 0
    BY <1>3, <2>1, NumNone
  <2>3. Num("BlockEnd", u, Len(u)) = Len(ind) - Len(ind')
    BY <1>4, <1>10, <2>2
  <2> HIDE DEF LexInv, Reading, Counted
  <2> QED BY <1>2, <1>5, <1>6, <1>7, <2>1, <2>3, Keeps
<1> QED BY <1>8, <1>9, <1>10

LEMMA EndsBlock ==
  ASSUME LexInv, Reading, Len(ind) > 1, ind' = Front(ind), Give(Mark("BlockEnd", pos)),
         UNCHANGED <<src, pos, mode, started, pending, panicked>>
  PROVE  LexInv'
<1>1. /\ src \in Sources /\ pos \in Place /\ pos.idx <= Len(src) /\ pos.idx \in Nat /\ Stack(ind)
      /\ Counted
  BY InvFacts DEF LexInv, Typed
<1>2. Stack(ind') /\ Len(ind') = Len(ind) - 1
  BY <1>1, StackFacts
<1>3. "BlockEnd" \in Kinds
  BY DEF Kinds
<1>4. Mark("BlockEnd", pos) \in Tokens_ /\ Mark("BlockEnd", pos).kind = "BlockEnd"
  BY <1>1, <1>3, TokenFacts
<1>5. Counted'
  BY <1>1 DEF Counted, Top, At
<1>6. pos' \in Place /\ pos'.idx <= Len(src) /\ pos'.idx >= pos.idx
  BY <1>1
<1> HIDE DEF LexInv, Reading, Counted
<1> QED BY <1>2, <1>4, <1>5, <1>6, LayoutStep

LEMMA BracketFacts ==
  ASSUME LexInv, Top.m = "Bracket"
  PROVE  Top.depth \in Nat \ {0} /\ Top.open \in Opening
<1>1. Top \in Modes
  BY InvFacts, ModeFacts DEF Top
<1> QED BY <1>1 DEF Modes, Block, StrText, StrExpr

LEMMA CloseKeeps == LexInv /\ Close => LexInv'
<1> SUFFICES ASSUME LexInv, Close PROVE LexInv'
  OBVIOUS
<1>1. Reading /\ At(pos.idx) \in Closing /\ UNCHANGED <<src, started, pending, panicked>>
  BY DEF Close, InCode
<1>2. At(pos.idx) # NoByte /\ At(pos.idx) # "\n"
  BY <1>1, NotTheEnd, NotABreak
<1>3. /\ pos.idx \in Nat /\ pos.idx < Len(src) /\ pos.line > 0 /\ Len(src) \in Nat /\ Owed(mode) \in Int
      /\ Len(ind) \in Nat
  BY <1>2, InvFacts
<1>4. pos.idx + 1 \in Nat /\ pos.idx < pos.idx + 1 /\ pos.idx + 1 <= Len(src)
  BY <1>3
<1>5. "BracketClose" \in Other /\ "Err" \in Other
  BY DEF Other, Kinds
<1>6. CASE /\ Top.m = "Bracket" /\ Len(ind) > Top.depth /\ ind' = Front(ind)
           /\ Give(Mark("BlockEnd", pos)) /\ UNCHANGED <<pos, mode>>
  <2>1. Top.depth \in Nat \ {0}
    BY <1>6, BracketFacts
  <2>2. Len(ind) > 1
    BY <1>3, <1>6, <2>1
  <2> HIDE DEF LexInv, Reading
  <2> QED BY <1>1, <1>6, <2>2, EndsBlock
<1>7. CASE Top.m = "Bracket" /\ mode' = Front(mode) /\ Consume(pos.idx + 1, "BracketClose") /\ UNCHANGED ind
  <2>1. ModeStack(mode') /\ Owed(mode') \in Int /\ Owed(mode') <= Owed(mode) - 2
    BY <1>7, Left
  <2>2. Owed(mode') <= Owed(mode) + 2
    BY <1>3, <2>1
  <2> HIDE DEF LexInv, Reading
  <2> QED BY <1>1, <1>3, <1>4, <1>5, <1>7, <2>1, <2>2, Consumed
<1>8. CASE Consume(pos.idx + 1, "Err") /\ UNCHANGED <<mode, ind>>
  <2> HIDE DEF LexInv, Reading
  <2> QED BY <1>1, <1>2, <1>4, <1>5, <1>8, ConsumedInLine
<1> QED BY <1>6, <1>7, <1>8 DEF Close

\* A step that reads on and hands nothing out.
LEMMA SilentStep ==
  ASSUME LexInv, Reading, UNCHANGED <<src, mode, ind, started, pending, toks, panicked>>,
         pos' \in Place, pos'.idx <= Len(src), pos'.idx > pos.idx, Counted'
  PROVE  LexInv'
<1> DEFINE u == <<>>
<1>1. pending = <<>> /\ toks \in Seq(Tokens_)
  BY NoEnd
<1>2. Adds(u)
  BY <1>1, GaveNone
<1>3. Len(u) = 0 /\ \A k \in 1..Len(u) : FALSE
  OBVIOUS
<1>4. /\ Len(ind) \in Nat /\ pos.idx \in Nat /\ Owed(mode) \in Int /\ ModeStack(mode) /\ pos'.idx \in Nat
      /\ Stack(ind)
  BY InvFacts DEF Place
<1>5. Len(u) + Len(ind') + Owed(mode') - 3 * pos'.idx <= Len(ind) + Owed(mode) - 3 * pos.idx
  <2> DEFINE m == Len(ind)  c == Owed(mode)  i == pos.idx  j == pos'.idx
  <2>1. m \in Nat /\ c \in Int /\ i \in Nat /\ j \in Nat /\ j > i
    BY <1>4
  <2> HIDE DEF m, c, i, j
  <2>2. 0 + m + c - 3 * j <= m + c - 3 * i
    BY <2>1
  <2>3. Owed(mode') = c /\ Len(ind') = m
    BY DEF c, m
  <2> USE DEF m, c, i, j
  <2> QED BY <1>3, <2>2, <2>3
<1> HIDE DEF u
<1>6. Num("BlockEnd", u, Len(u)) = 0
  BY <1>3, NumZero
<1>7. Num("BlockEnd", u, Len(u)) = Len(ind) - Len(ind') /\ Stack(ind') /\ ModeStack(mode')
  BY <1>4, <1>6
<1> HIDE DEF LexInv, Reading, Counted
<1> QED BY <1>2, <1>3, <1>5, <1>7, Keeps

LEMMA PastBlankFacts ==
  ASSUME src \in Sources, NEW q \in Place, q.idx <= Len(src), At(q.idx) = "\n"
  PROVE  /\ PastBlank(q) \in Place /\ PastBlank(q).idx \in q.idx..Len(src)
         /\ At(PastBlank(q).idx) \in {"\n", NoByte}
         /\ PastBlank(q) = q \/ PastBlank(q).line > 0
         /\ White(q.idx, PastBlank(q).idx)
<1> DEFINE class == {"\n", Space}
           e == Run(q.idx, class)
           breaks == {k \in q.idx..(e - 1) : At(k) = "\n"}
           stop == IF At(e) = NoByte THEN e ELSE Max(breaks)
           passed == {k \in q.idx..(stop - 1) : At(k) = "\n"}
<1>1. /\ q.idx \in Nat /\ q.line \in Nat /\ q.col \in Nat /\ Len(src) \in Nat
      /\ \A i \in Int : At(i) # NoByte <=> i \in 0..(Len(src) - 1)
  BY SourceFacts DEF Place
<1>2. /\ e \in q.idx..Len(src) /\ e \in Nat /\ At(e) \notin class
      /\ \A k \in q.idx..(e - 1) : At(k) \in class
  BY <1>1, RunFacts, NotTheEnd
<1>3. PastBlank(q) = IF passed = {} THEN q
                     ELSE Pos(stop, q.line + Cardinality(passed), stop - Max(passed) - 1)
  BY DEF PastBlank
<1>4. q.idx # e
  BY <1>2
<1> HIDE DEF e
<1>5. q.idx \in breaks /\ breaks \subseteq 0..e
  BY <1>1, <1>2, <1>4
<1>6. stop \in q.idx..e /\ At(stop) \in {"\n", NoByte} /\ stop \in Nat
  <2>1. CASE At(e) = NoByte
    BY <1>1, <1>2, <2>1
  <2>2. CASE At(e) # NoByte
    <3>1. \A k \in breaks : k \in q.idx..e /\ At(k) = "\n" /\ k \in Nat
      BY <1>1, <1>2
    <3>2. Max(breaks) \in breaks
      <4> HIDE DEF breaks
      <4> QED BY <1>2, <1>5, MaxFacts
    <3> HIDE DEF breaks
    <3> QED BY <2>2, <3>1, <3>2
  <2> QED BY <2>1, <2>2
<1> HIDE DEF stop
<1>7. White(q.idx, stop)
  <2>1. \A b \in q.idx..(stop - 1) : b \in q.idx..(e - 1)
    BY <1>1, <1>2, <1>6
  <2> QED BY <1>2, <2>1 DEF White
<1>8. passed \subseteq 0..stop /\ passed \subseteq q.idx..(stop - 1)
  BY <1>1, <1>6
<1>9. CASE passed = {}
  <2>1. PastBlank(q) = q
    BY <1>3, <1>9
  <2>2. \A b \in q.idx..(q.idx - 1) : FALSE
    BY <1>1
  <2>3. q.idx \in q.idx..Len(src)
    BY <1>1
  <2> QED BY <2>1, <2>2, <2>3 DEF White
<1>10. CASE passed # {}
  <2> DEFINE n == Cardinality(passed)
             m == Max(passed)
  <2> HIDE DEF passed
  <2>1. IsFiniteSet(passed) /\ n \in Nat
    BY <1>6, <1>8, CountRange
  <2>2. n # 0
    BY <1>10, <2>1, FS_EmptySet
  <2>3. m \in passed
    BY <1>6, <1>8, <1>10, MaxFacts
  <2>4. m \in q.idx..(stop - 1)
    BY <1>8, <2>3
  <2> HIDE DEF n, m
  <2>a. q.line + n \in Nat /\ q.line + n > 0
    BY <1>1, <2>1, <2>2
  <2>b. m \in Int /\ m <= stop - 1
    BY <1>1, <1>6, <2>4
  <2>c. stop - m - 1 \in Nat
    BY <1>6, <2>b
  <2>5. q.line + n \in Nat /\ q.line + n > 0 /\ stop - m - 1 \in Nat
    BY <2>a, <2>c
  <2>6. PastBlank(q) = [idx |-> stop, line |-> q.line + n, col |-> stop - m - 1]
    BY <1>3, <1>10 DEF Pos, n, m
  <2>7. stop \in q.idx..Len(src)
    BY <1>1, <1>2, <1>6
  <2> QED BY <1>6, <1>7, <2>5, <2>6, <2>7 DEF Place
<1> QED BY <1>9, <1>10

LEMMA NewlineKeeps == LexInv /\ Newline => LexInv'
<1> SUFFICES ASSUME LexInv, Newline PROVE LexInv'
  OBVIOUS
<1> DEFINE p == PastBlank(pos)
           n == IF At(p.idx) = "\n" THEN Spaces(p.idx + 1) ELSE 0
           after == IF At(p.idx) = "\n" THEN NextLine(p.idx + 1 + n, p, n) ELSE p
           outer == Front(ind)
<1>1. /\ Reading /\ At(pos.idx) = "\n" /\ Top.m \notin TextModes
      /\ UNCHANGED <<src, mode, started, pending, panicked>>
  BY DEF Newline, InCode, TextModes
<1>2. /\ src \in Sources /\ Len(src) \in Nat /\ pos \in Place /\ pos.idx \in Nat /\ pos.idx <= Len(src)
      /\ Stack(ind) /\ Len(ind) \in Nat
  BY InvFacts
<1>3. /\ p \in Place /\ p.idx \in pos.idx..Len(src) /\ At(p.idx) \in {"\n", NoByte}
      /\ p = pos \/ p.line > 0
  BY <1>1, <1>2, PastBlankFacts
<1>4. p.idx \in Nat /\ p.line \in Nat /\ p.col \in Nat
  BY <1>3 DEF Place
<1>5. \/ /\ n > Last(ind) /\ ind' = Append(ind, n) /\ pos' = after
         /\ Give(Token("BlockStart", pos, after))
      \/ /\ n < Last(ind) /\ Last(outer) < n /\ ind' = Append(outer, n) /\ pos' = after
         /\ Give(Token("Err", pos, after))
      \/ /\ n < Last(ind) /\ ind' = outer /\ pos' = p /\ Give(Mark("BlockEnd", pos))
      \/ /\ n = Last(ind) /\ pos' = after /\ UNCHANGED ind
         /\ UNCHANGED toks \/ Give(Token("BlockCont", pos, after))
  BY DEF Newline
<1> HIDE DEF p
<1>6. n \in Nat /\ (At(p.idx) = "\n" => p.idx + 1 + n <= Len(src)) /\ (At(p.idx) # "\n" => n = 0)
  <2>1. CASE At(p.idx) = "\n"
    <3>1. p.idx + 1 \in Nat /\ p.idx + 1 <= Len(src)
      <4>1. At(p.idx) # NoByte
        BY <2>1, NotTheEnd
      <4> QED BY <1>2, <1>4, <4>1, SourceFacts
    <3>2. Spaces(p.idx + 1) \in Nat /\ p.idx + 1 + Spaces(p.idx + 1) <= Len(src)
      BY <1>2, <3>1, SpacesFacts
    <3> QED BY <2>1, <3>2
  <2>2. CASE At(p.idx) # "\n"
    BY <2>2
  <2> QED BY <2>1, <2>2
<1>7. /\ after \in Place /\ after.line > 0 /\ after.idx > pos.idx /\ after.idx <= Len(src)
  <2>1. CASE At(p.idx) = "\n"
    <3> DEFINE j == p.idx + 1 + n
    <3> HIDE DEF n
    <3>1. j \in Nat /\ j > pos.idx /\ j <= Len(src)
      BY <1>2, <1>3, <1>4, <1>6, <2>1
    <3> HIDE DEF j
    <3>2. after = NextLine(j, p, n)
      BY <2>1 DEF j
    <3>3. NextLine(j, p, n) \in Place /\ NextLine(j, p, n).idx = j
      BY <1>3, <1>6, <3>1, NextLineFacts
    <3>4. NextLine(j, p, n).line = p.line + 1
      BY DEF NextLine, Pos
    <3> QED BY <1>4, <3>1, <3>2, <3>3, <3>4
  <2>2. CASE At(p.idx) # "\n"
    <3>1. after = p /\ p # pos
      BY <1>1, <2>2
    <3>2. p.idx # pos.idx
      BY <1>1, <2>2
    <3> QED BY <1>2, <1>3, <1>4, <3>1, <3>2
  <2> QED BY <2>1, <2>2
<1> HIDE DEF n, after
<1>8. after.idx \in Nat
  BY <1>7 DEF Place
<1>9. ASSUME NEW kind \in Kinds
      PROVE  Token(kind, pos, after) \in Tokens_ /\ Token(kind, pos, after).kind = kind
  BY <1>2, <1>7, TokenFacts
<1>10. ASSUME pos' = after PROVE pos' \in Place /\ pos'.idx <= Len(src) /\ pos'.idx > pos.idx /\ Counted'
  BY <1>7, <1>10 DEF Counted
<1>11. "BlockStart" \in Kinds /\ "BlockEnd" \in Kinds /\ "Err" \in Other /\ "BlockCont" \in Other
  BY DEF Other, Kinds
<1>12. Other \subseteq Kinds
  BY DEF Other
<1>a. Last(ind) \in Nat
  BY <1>2, StackFacts
<1>13. CASE /\ n > Last(ind) /\ ind' = Append(ind, n) /\ pos' = after
            /\ Give(Token("BlockStart", pos, after))
  <2>1. Last(ind) <= n
    BY <1>6, <1>13, <1>a
  <2>2. Stack(ind') /\ Len(ind') = Len(ind) + 1
    BY <1>2, <1>6, <1>13, <2>1, StackFacts
  <2>3. Token("BlockStart", pos, after) \in Tokens_ /\ Token("BlockStart", pos, after).kind = "BlockStart"
    BY <1>9, <1>11
  <2> HIDE DEF LexInv, Reading, Counted
  <2> QED BY <1>1, <1>10, <1>13, <2>2, <2>3, LayoutStep
<1>14. CASE /\ n < Last(ind) /\ Last(outer) < n /\ ind' = Append(outer, n) /\ pos' = after
            /\ Give(Token("Err", pos, after))
  <2>1. Len(ind) > 1
    BY <1>2, <1>6, <1>14, <1>a, StackFacts
  <2>2. Stack(outer) /\ Len(outer) = Len(ind) - 1
    BY <1>2, <2>1, StackFacts
  <2> HIDE DEF outer
  <2>3. Last(outer) <= n
    BY <1>6, <1>14, <2>2, StackFacts
  <2>4. Stack(ind') /\ Len(ind') = Len(ind)
    BY <1>2, <1>6, <1>14, <2>2, <2>3, StackFacts
  <2>5. Token("Err", pos, after) \in Tokens_ /\ Token("Err", pos, after).kind \in Other /\ "Err" # "EOF"
    BY <1>9, <1>11, <1>12
  <2>6. Token("Err", pos, after).kind # "EOF"
    BY <2>5 DEF Other
  <2> HIDE DEF LexInv, Reading, Counted
  <2> QED BY <1>1, <1>10, <1>14, <2>4, <2>5, <2>6, LayoutStep
<1>15. CASE n < Last(ind) /\ ind' = outer /\ pos' = p /\ Give(Mark("BlockEnd", pos))
  <2>1. Len(ind) > 1
    BY <1>2, <1>6, <1>15, <1>a, StackFacts
  <2>2. Stack(ind') /\ Len(ind') = Len(ind) - 1
    BY <1>2, <1>15, <2>1, StackFacts
  <2>3. Mark("BlockEnd", pos) \in Tokens_ /\ Mark("BlockEnd", pos).kind = "BlockEnd"
    BY <1>2, <1>11, TokenFacts
  <2>4. Counted'
    <3>1. CASE p = pos
      BY <1>1, <1>15, <3>1 DEF Counted, Top, At
    <3>2. CASE p.line > 0
      BY <1>15, <3>2 DEF Counted
    <3> QED BY <1>3, <3>1, <3>2
  <2>5. pos' \in Place /\ pos'.idx <= Len(src) /\ pos'.idx >= pos.idx
    BY <1>2, <1>3, <1>4, <1>15
  <2> HIDE DEF LexInv, Reading, Counted
  <2> QED BY <1>1, <1>15, <2>2, <2>3, <2>4, <2>5, LayoutStep
<1>16. CASE pos' = after /\ UNCHANGED ind /\ Give(Token("BlockCont", pos, after))
  <2>1. Stack(ind') /\ Len(ind') = Len(ind)
    BY <1>2, <1>16
  <2>2. Token("BlockCont", pos, after) \in Tokens_ /\ Token("BlockCont", pos, after).kind \in Other
    BY <1>9, <1>11, <1>12
  <2>3. Token("BlockCont", pos, after).kind # "EOF"
    BY <2>2 DEF Other
  <2> HIDE DEF LexInv, Reading, Counted
  <2> QED BY <1>1, <1>10, <1>16, <2>1, <2>2, <2>3, LayoutStep
<1>17. CASE pos' = after /\ UNCHANGED ind /\ UNCHANGED toks
  BY <1>1, <1>2, <1>7, <1>10, <1>17, SilentStep
<1> QED BY <1>5, <1>13, <1>14, <1>15, <1>16, <1>17

-----------------------------------------------------------------------------
(* The rest of the steps outside text *)

LEMMA BlankKeeps == LexInv /\ Blank => LexInv'
<1> SUFFICES ASSUME LexInv, Blank PROVE LexInv'
  OBVIOUS
<1>1. /\ Reading /\ At(pos.idx) = Space /\ pos' = Moved(pos, pos.idx + 1)
      /\ UNCHANGED <<src, mode, ind, started, pending, toks, panicked>>
  BY DEF Blank, InCode
<1>2. At(pos.idx) # NoByte /\ At(pos.idx) # "\n"
  BY <1>1, NotTheEnd, NotABreak
<1>3. /\ pos \in Place /\ pos.idx \in Nat /\ pos.idx < Len(src) /\ pos.line > 0 /\ Len(src) \in Nat
  BY <1>2, InvFacts
<1>j. pos.idx + 1 \in Nat
  BY <1>3
<1>4. pos' \in Place /\ pos'.idx = pos.idx + 1 /\ pos'.line = pos.line
  BY <1>1, <1>3, <1>j, MovedFacts
<1>5. Counted' /\ pos'.idx <= Len(src) /\ pos'.idx > pos.idx
  BY <1>3, <1>4 DEF Counted
<1> HIDE DEF LexInv, Reading, Counted
<1> QED BY <1>1, <1>4, <1>5, SilentStep

LEMMA EndOfText ==
  ASSUME LexInv, Reading, Top.m = "Block", Len(ind) = 1, pos.line > 0, Give(Mark("EOF", pos)),
         UNCHANGED <<src, pos, mode, ind, started, pending, panicked>>
  PROVE  LexInv'
<1> DEFINE t == Mark("EOF", pos)
           u == <<t>>
<1>1. /\ toks \in Seq(Tokens_) /\ pending = <<>> /\ Made = toks /\ started
      /\ \A k \in 1..Len(toks) : toks[k].kind # "EOF"
  BY NoEnd
<1>2. /\ src \in Sources /\ pos \in Place /\ pos.idx <= Len(src) /\ pos.idx \in Nat
      /\ Owed(mode) \in Int /\ ModeStack(mode) /\ Stack(ind)
  BY InvFacts
<1>3. "EOF" \in Kinds
  BY DEF Kinds
<1>4. t \in Tokens_ /\ t.kind = "EOF"
  BY <1>2, <1>3, TokenFacts
<1>5. Counted'
  BY DEF Counted
<1>6. ~Done
  BY DEF Reading
<1> HIDE DEF t, Tokens_
<1>7. Adds(u)
  <2>1. Give(t)
    BY DEF t
  <2> QED BY <1>1, <1>4, <2>1, GaveOne
<1>8. u \in Seq(Tokens_) /\ toks' \in Seq(Tokens_) /\ Made' = toks \o u /\ pending' = <<>>
  BY <1>1, <1>7 DEF Adds
<1>9. toks' = Made'
  BY <1>8 DEF Made
<1>10. Typed'
  BY <1>2, <1>5, <1>8 DEF LexInv, Typed
<1>11. /\ Len(toks) \in Nat /\ Len(Made') = Len(toks) + 1 /\ Made'[Len(toks) + 1] = t
       /\ \A k \in 1..Len(toks) : Made'[k] = toks[k]
  BY <1>1, <1>4, <1>8
<1>12. EndsOnce'
  BY <1>1, <1>8, <1>11 DEF EndsOnce
<1>13. Done'
  BY <1>4, <1>9, <1>11 DEF Done, Last
<1>14. Paid'
  <2>1. Len(toks) + 1 + Owed(mode) <= 3 * pos.idx + 5
    BY <1>1, <1>2, <1>6, <1>11 DEF LexInv, Paid
  <2>2. Len(Made') + 1 + Owed(mode) <= 3 * pos.idx + 5 + 1
    BY <1>2, <1>11, <2>1
  <2> QED BY <1>1, <1>13, <2>2 DEF Paid
<1>15. Nested(toks) /\ Depth(toks) = 0
  BY <1>1 DEF LexInv, Balanced
<1>16. Nested(toks \o u) /\ Depth(toks \o u) = 0
  <2>1. Len(u) = 1 /\ \A k \in 1..Len(u) : u[k].kind # "BlockStart" /\ u[k].kind # "BlockEnd"
    BY <1>4
  <2> HIDE DEF u
  <2>2. Num("BlockEnd", u, Len(u)) = 0
    BY <2>1, NumNone
  <2>3. Num("BlockEnd", u, Len(u)) <= Depth(toks)
    BY <1>15, <2>2
  <2>4. Nested(toks \o u) /\ Depth(toks \o u) = Depth(toks) - Num("BlockEnd", u, Len(u))
    BY <1>1, <1>8, <1>15, <2>1, <2>3, AddedClosers
  <2> QED BY <1>15, <2>2, <2>4
<1>17. Balanced'
  BY <1>1, <1>8, <1>16 DEF Balanced
<1> QED BY <1>1, <1>10, <1>12, <1>14, <1>17 DEF LexInv, Fresh

LEMMA AtEndKeeps == LexInv /\ AtEnd => LexInv'
<1> SUFFICES ASSUME LexInv, AtEnd PROVE LexInv'
  OBVIOUS
<1>1. Reading /\ At(pos.idx) = NoByte /\ UNCHANGED <<src, pos, started, pending, panicked>>
  BY DEF AtEnd, InCode
<1>2. At(pos.idx) # "\n"
  BY <1>1, NotTheEnd
<1>3. pos.line > 0 /\ Len(ind) \in Nat
  BY <1>2, InvFacts
<1>4. CASE /\ Top.m \in {"StrExpr", "Bracket"} /\ mode' = Front(mode) /\ Give(Mark("Err", pos))
           /\ UNCHANGED ind
  <2>1. Top.m # "Block"
    BY <1>4
  <2> HIDE DEF LexInv, Reading
  <2> QED BY <1>1, <1>3, <1>4, <2>1, LeftInError
<1>5. CASE /\ Len(ind) > 1 /\ ind' = Front(ind) /\ Give(Mark("BlockEnd", pos)) /\ UNCHANGED mode
  <2> HIDE DEF LexInv, Reading
  <2> QED BY <1>1, <1>5, EndsBlock
<1>6. CASE Top.m = "Block" /\ Len(ind) = 1 /\ Give(Mark("EOF", pos)) /\ UNCHANGED <<mode, ind>>
  <2> HIDE DEF LexInv, Reading
  <2> QED BY <1>1, <1>3, <1>6, EndOfText
<1> QED BY <1>4, <1>5, <1>6 DEF AtEnd

LEMMA OpenBlockStringKeeps == LexInv /\ OpenBlockString => LexInv'
<1> SUFFICES ASSUME LexInv, OpenBlockString PROVE LexInv'
  OBVIOUS
<1> DEFINE p == Moved(pos, pos.idx + 2)
           q == IF At(p.idx) = "\n" THEN NextLine(p.idx + 1, p, 0) ELSE p
           m == StrBlock(Last(ind))
           t == Token("StrStart", pos, p)
<1>1. /\ Reading /\ Top.m \notin TextModes /\ At(pos.idx) = Quote /\ At(pos.idx + 1) = ":"
      /\ mode' = Append(mode, m) /\ Give(t) /\ pos' = q
      /\ UNCHANGED <<src, ind, started, pending, panicked>>
  BY DEF OpenBlockString, InCode, TextModes
<1>2. At(pos.idx) # "\n" /\ At(pos.idx + 1) # NoByte
  BY <1>1, NotTheEnd, NotABreak
<1>3. /\ src \in Sources /\ pos \in Place /\ pos.idx \in Nat /\ pos.line > 0 /\ pos.line \in Nat
      /\ ModeStack(mode) /\ Owed(mode) \in Int /\ Last(ind) \in Nat
  BY <1>2, InvFacts, StackFacts
<1>4. Len(src) \in Nat /\ pos.idx + 2 <= Len(src) /\ \A i \in Nat : At(i) # NoByte => i + 1 <= Len(src)
  BY <1>2, <1>3, SourceFacts
<1>j. pos.idx + 2 \in Nat
  BY <1>3
<1>5. p \in Place /\ p.idx = pos.idx + 2 /\ p.line = pos.line
  BY <1>3, <1>j, MovedFacts
<1> HIDE DEF p
<1>6. q \in Place /\ q.idx >= pos.idx + 2 /\ q.idx <= Len(src) /\ q.line > 0 /\ q.idx \in Nat
  <2>1. CASE At(p.idx) = "\n"
    <3>1. p.idx + 1 <= Len(src) /\ p.idx + 1 \in Nat
      BY <1>3, <1>4, <1>5, <2>1, NotTheEnd
    <3>2. NextLine(p.idx + 1, p, 0) \in Place /\ NextLine(p.idx + 1, p, 0).idx = p.idx + 1
      BY <1>5, <3>1, NextLineFacts
    <3>3. NextLine(p.idx + 1, p, 0).line = p.line + 1
      BY DEF NextLine, Pos
    <3> QED BY <1>3, <1>5, <2>1, <3>1, <3>2, <3>3
  <2>2. CASE At(p.idx) # "\n"
    BY <1>3, <1>4, <1>5, <2>2
  <2> QED BY <2>1, <2>2
<1>7. t \in Tokens_ /\ t.kind = "StrStart"
  <2>1. "StrStart" \in Kinds
    BY DEF Kinds
  <2> QED BY <1>3, <1>4, <1>5, <2>1, TokenFacts
<1>8. t.kind \in Other
  BY <1>7 DEF Other, Kinds
<1>9. ModeStack(mode') /\ Owed(mode') = Owed(mode) + 5
  <2>1. m \in Modes /\ m.m = "StrBlock"
    BY <1>3, ModesNamed
  <2> HIDE DEF m
  <2>2. /\ ModeStack(Append(mode, m))
        /\ Owed(Append(mode, m)) = Owed(mode) + (IF m.m = "StrBlock" THEN 5 ELSE 2)
    BY <1>1, <1>3, <2>1, Pushed DEF Top
  <2> QED BY <1>1, <2>1, <2>2
<1> HIDE DEF q, t, LexInv, Reading
<1>10. pos' \in Place /\ pos'.idx <= Len(src) /\ Counted'
  BY <1>1, <1>6 DEF Counted
<1>11. 1 + Owed(mode') - 3 * pos'.idx <= Owed(mode) - 3 * pos.idx
  <2> DEFINE c == Owed(mode)  d == Owed(mode')  i == pos.idx  j == q.idx
  <2>1. c \in Int /\ d \in Int /\ i \in Nat /\ j \in Nat /\ d = c + 5 /\ j >= i + 2
    BY <1>3, <1>6, <1>9
  <2> HIDE DEF c, d, i, j
  <2>2. 1 + d - 3 * j <= c - 3 * i
    BY <2>1
  <2> USE DEF c, d, i, j
  <2> QED BY <1>1, <2>2
<1>12. Owed(mode') \in Int
  BY <1>3, <1>9
<1> QED BY <1>1, <1>7, <1>8, <1>9, <1>10, <1>11, <1>12, OneStep

LEMMA StartKeeps == LexInv /\ Start => LexInv'
<1> SUFFICES ASSUME LexInv, Start PROVE LexInv'
  OBVIOUS
<1> DEFINE t == Mark("BlockStart", pos)
           u == <<t>>
<1>1. ~started /\ started' /\ Give(t) /\ UNCHANGED <<src, pos, mode, ind, pending, panicked>>
  BY DEF Start
<1>2. /\ src \in Sources /\ pos \in Place /\ pos.idx <= Len(src) /\ pos.idx \in Nat
      /\ Owed(mode) \in Int /\ ModeStack(mode) /\ Stack(ind) /\ Len(ind) \in Nat
  BY InvFacts
<1>3. toks = <<>> /\ pending = <<>> /\ Made = <<>>
  BY <1>1 DEF LexInv, Fresh, Made
<1>4. t \in Tokens_ /\ t.kind = "BlockStart"
  <2>1. "BlockStart" \in Kinds
    BY DEF Kinds
  <2> QED BY <1>2, <2>1, TokenFacts
<1> HIDE DEF t, Tokens_
<1>5. toks' = <<t>> /\ pending' = <<>> /\ Made' = <<t>> /\ Made' = Made \o u
  BY <1>1, <1>3 DEF Give, Made
<1>6. toks' \in Seq(Tokens_) /\ pending' \in Seq(Tokens_)
  BY <1>4, <1>5
<1>7. Counted' /\ Typed'
  <2>1. Counted
    BY DEF LexInv, Typed
  <2>2. Counted'
    BY <1>1, <2>1 DEF Counted, Top, At
  <2> QED BY <1>1, <1>2, <1>6, <2>2 DEF LexInv, Typed
<1>8. /\ Len(Made') = 1 /\ Made'[1] = t /\ \A k \in 1..Len(Made') : k = 1
  BY <1>5
<1>9. EndsOnce' /\ ~Done'
  BY <1>4, <1>5, <1>8 DEF EndsOnce, Done, Last
<1>10. Nested(Made') /\ Depth(Made') = Len(ind) - 1
  <2>1. Made \in Seq(Tokens_)
    BY <1>3
  <2>2. Nested(Made) /\ Depth(Made) = Len(ind) - 2
    BY <1>1 DEF LexInv, Balanced
  <2>3. Nested(Made \o <<t>>) /\ Depth(Made \o <<t>>) = Depth(Made) + 1
    BY <1>4, <2>1, <2>2, AddedOpener
  <2>4. Depth(Made \o <<t>>) = Len(ind) - 1
    BY <1>2, <2>2, <2>3
  <2>5. Made' = Made \o <<t>>
    BY <1>5
  <2> QED BY <2>3, <2>4, <2>5
<1>11. Balanced'
  BY <1>1, <1>10 DEF Balanced
<1>12. Paid'
  <2>1. ~Done /\ Len(Made) = 0
    BY <1>3 DEF Done
  <2>2. Len(ind) + Owed(mode) <= 3 * pos.idx + 4
    BY <1>1, <1>2, <2>1 DEF LexInv, Paid
  <2>3. Len(Made') + Len(ind) + Owed(mode) <= 3 * pos.idx + 5
    BY <1>2, <1>8, <2>2
  <2>4. 3 * pos.idx + 5 + 0 = 3 * pos.idx + 5
    BY <1>2
  <2> QED BY <1>1, <1>9, <2>3, <2>4 DEF Paid
<1> QED BY <1>1, <1>7, <1>9, <1>11, <1>12 DEF LexInv, Fresh

LEMMA DrainKeeps == LexInv /\ Drain => LexInv'
<1> SUFFICES ASSUME LexInv, Drain PROVE LexInv'
  OBVIOUS
<1>1. /\ pending # <<>> /\ toks' = Append(toks, Head(pending)) /\ pending' = Tail(pending)
      /\ UNCHANGED <<src, pos, mode, ind, started, panicked>>
  BY DEF Drain, Queue, Give
<1>2. toks \in Seq(Tokens_) /\ pending \in Seq(Tokens_) /\ Counted
  BY DEF LexInv, Typed
<1> HIDE DEF Tokens_
<1>3. toks' \in Seq(Tokens_) /\ pending' \in Seq(Tokens_)
  BY <1>1, <1>2
<1>4. Made' = Made
  BY <1>1, <1>2 DEF Made
<1>5. Counted'
  BY <1>1, <1>2 DEF Counted, Top, At
<1>6. Typed'
  BY <1>1, <1>3, <1>5 DEF LexInv, Typed
<1>7. ASSUME NEW k \in 1..Len(Made), Made[k].kind = "EOF" PROVE FALSE
  BY <1>1, <1>7 DEF LexInv, EndsOnce
<1>8. EndsOnce'
  BY <1>4, <1>7 DEF EndsOnce
<1>9. ~Done
  <2>1. ASSUME Done PROVE FALSE
    <3>1. toks # <<>> /\ toks[Len(toks)].kind = "EOF"
      BY <2>1 DEF Done, Last
    <3>2. Len(toks) \in 1..Len(Made) /\ Made[Len(toks)] = toks[Len(toks)]
      BY <1>2, <3>1 DEF Made
    <3> QED BY <1>7, <3>1, <3>2
  <2> QED BY <2>1
<1>10. started /\ started'
  BY <1>1 DEF LexInv, Fresh
<1>11. Balanced'
  BY <1>1, <1>4, <1>10 DEF LexInv, Balanced
<1>12. Paid'
  <2>1. pos.idx \in Nat /\ Owed(mode) \in Int /\ Len(ind) \in Nat /\ Len(Made) \in Nat
    BY <1>2, InvFacts DEF Made
  <2>2. Len(Made) + Len(ind) + Owed(mode) <= 3 * pos.idx + 5
    BY <1>9, <1>10, <2>1 DEF LexInv, Paid
  <2>3. Len(Made) + Len(ind) + Owed(mode) <= 3 * pos.idx + 5 + (IF Done' THEN 1 ELSE 0)
    <3> HIDE DEF Made, Done
    <3> QED BY <2>1, <2>2
  <2> QED BY <1>1, <1>4, <1>10, <2>3 DEF Paid
<1> QED BY <1>6, <1>8, <1>10, <1>11, <1>12 DEF LexInv, Fresh

LEMMA SameKeeps ==
  ASSUME LexInv, UNCHANGED <<src, pos, mode, ind, started, pending, toks>>, panicked' \in BOOLEAN
  PROVE  LexInv'
<1>1. Made' = Made /\ (Done' <=> Done)
  BY DEF Made, Done
<1>2. Counted'
  BY DEF LexInv, Typed, Counted, Top, At
<1>3. Typed'
  BY <1>2 DEF LexInv, Typed
<1>4. Balanced' /\ EndsOnce' /\ Fresh'
  BY <1>1 DEF LexInv, Balanced, EndsOnce, Fresh
<1>5. Paid'
  BY <1>1 DEF LexInv, Paid
<1> QED BY <1>3, <1>4, <1>5 DEF LexInv

LEMMA PanicKeeps == LexInv /\ Panic => LexInv'
BY SameKeeps DEF Panic

\* A step that hands out or buffers tokens and leaves the blocks as they are.
LEMMA SeveralStep ==
  ASSUME LexInv, Reading, NEW u, Adds(u), \A k \in 1..Len(u) : u[k].kind \in Other,
         UNCHANGED <<src, ind, started, panicked>>,
         pos' \in Place, pos'.idx <= Len(src), Counted', ModeStack(mode'), Owed(mode') \in Int,
         Len(u) + Owed(mode') - 3 * pos'.idx <= Owed(mode) - 3 * pos.idx
  PROVE  LexInv'
<1>1. Len(u) \in Nat
  BY DEF Adds
<1>2. \A k \in 1..Len(u) : u[k].kind # "EOF" /\ u[k].kind # "BlockStart" /\ u[k].kind # "BlockEnd"
  BY DEF Other
<1>3. /\ Len(ind) \in Nat /\ pos.idx \in Nat /\ Owed(mode) \in Int /\ pos'.idx \in Nat /\ Stack(ind)
  BY InvFacts DEF Place
<1>4. Len(u) + Len(ind') + Owed(mode') - 3 * pos'.idx <= Len(ind) + Owed(mode) - 3 * pos.idx
  <2> DEFINE l == Len(u)  m == Len(ind)  c == Owed(mode)  d == Owed(mode')  i == pos.idx  j == pos'.idx
  <2>1. /\ l \in Nat /\ m \in Nat /\ c \in Int /\ d \in Int /\ i \in Nat /\ j \in Nat
        /\ l + d - 3 * j <= c - 3 * i
    BY <1>1, <1>3
  <2> HIDE DEF l, m, c, d, i, j
  <2>2. l + m + d - 3 * j <= m + c - 3 * i
    BY <2>1
  <2>3. Len(ind') = m
    BY DEF m
  <2> USE DEF l, m, c, d, i, j
  <2> QED BY <2>2, <2>3
<1>5. Num("BlockEnd", u, Len(u)) = 0
  BY <1>1, <1>2, NumNone
<1>6. Num("BlockEnd", u, Len(u)) = Len(ind) - Len(ind') /\ Stack(ind')
  BY <1>3, <1>5
<1> HIDE DEF LexInv, Reading, Counted
<1> QED BY <1>2, <1>4, <1>6, Keeps

LEMMA IdentEndFacts ==
  ASSUME src \in Sources, NEW i \in Nat, At(i) \in IdentBytes
  PROVE  IdentEnd(i) \in (i + 1)..Len(src)
<1> DEFINE S == {j \in i..Len(src) : /\ At(j) \notin IdentBytes
                                     /\ At(j) = "-" => At(j + 1) \notin IdentBytes}
<1>1. Len(src) \in Nat /\ At(Len(src)) = NoByte /\ \A k \in Int : At(k) # NoByte <=> k \in 0..(Len(src) - 1)
  BY SourceFacts
<1>2. At(i) # NoByte /\ i < Len(src)
  BY <1>1, NotTheEnd
<1>3. Len(src) \in S
  BY <1>1, <1>2, NotTheEnd
<1>4. S \subseteq Nat /\ i \notin S /\ S \subseteq i..Len(src)
  BY <1>1
<1>5. IdentEnd(i) = Min(S)
  BY DEF IdentEnd
<1> HIDE DEF S
<1>6. Min(S) \in S
  BY <1>3, <1>4, MinFacts
<1>7. Min(S) \in i..Len(src) /\ Min(S) # i
  BY <1>4, <1>6
<1> QED BY <1>1, <1>5, <1>7

LEMMA IdentKeeps == LexInv /\ Ident => LexInv'
<1> SUFFICES ASSUME LexInv, Ident PROVE LexInv'
  OBVIOUS
<1> DEFINE j == IdentEnd(pos.idx)
           end == Moved(pos, j)
           past == Moved(pos, j + 1)
           t == Token("Ident", pos, end)
           e == Token("Err", end, past)
<1>1. /\ Reading /\ At(pos.idx) \in IdentBytes /\ Give(t)
      /\ IF At(j) = "-" THEN pos' = past /\ pending' = <<e>> ELSE pos' = end /\ UNCHANGED pending
      /\ UNCHANGED <<src, mode, ind, started, panicked>>
  BY DEF Ident, InCode
<1>2. At(pos.idx) # "\n"
  BY <1>1, NotABreak
<1>3. /\ src \in Sources /\ pos \in Place /\ pos.idx \in Nat /\ pos.line > 0 /\ Len(src) \in Nat
      /\ ModeStack(mode) /\ Owed(mode) \in Int /\ toks \in Seq(Tokens_)
  BY <1>2, InvFacts
<1>4. j \in (pos.idx + 1)..Len(src)
  BY <1>1, <1>3, IdentEndFacts
<1>5. j \in Nat /\ j > pos.idx /\ j <= Len(src)
  BY <1>3, <1>4
<1>6. "Ident" \in Other /\ "Err" \in Other /\ "Ident" \in Kinds /\ "Err" \in Kinds
  BY DEF Other, Kinds
<1> HIDE DEF j
<1>7. CASE At(j) = "-"
  <2>1. j + 1 \in Nat /\ j + 1 <= Len(src) /\ j + 1 > pos.idx
    <3>1. At(j) # NoByte
      BY <1>7, NotTheEnd
    <3> QED BY <1>3, <1>5, <3>1, SourceFacts
  <2>2. /\ end \in Place /\ end.idx = j /\ past \in Place /\ past.idx = j + 1 /\ past.line = pos.line
    BY <1>3, <1>5, <2>1, MovedFacts
  <2> HIDE DEF end, past
  <2>3. t \in Tokens_ /\ t.kind = "Ident" /\ e \in Tokens_ /\ e.kind = "Err"
    BY <1>3, <1>5, <1>6, <2>1, <2>2, TokenFacts
  <2> DEFINE u == <<t>> \o <<e>>
  <2> HIDE DEF t, e
  <2>4. Adds(u)
    <3>1. <<e>> \in Seq(Tokens_) /\ pending' = <<e>>
      BY <1>1, <1>7, <2>3
    <3> HIDE DEF Tokens_
    <3> QED BY <1>1, <1>3, <2>3, <3>1, GaveFirst
  <2>5. Len(u) = 2 /\ \A k \in 1..Len(u) : u[k].kind \in Other
    <3>1. Len(u) = 2 /\ u[1] = t /\ u[2] = e /\ \A k \in 1..2 : k = 1 \/ k = 2
      OBVIOUS
    <3> HIDE DEF u
    <3> QED BY <1>6, <2>3, <3>1
  <2>6. pos' = past /\ pos' \in Place /\ pos'.idx <= Len(src) /\ Counted' /\ ModeStack(mode') /\ Owed(mode') \in Int
    BY <1>1, <1>3, <1>7, <2>1, <2>2 DEF Counted
  <2>7. Len(u) + Owed(mode') - 3 * pos'.idx <= Owed(mode) - 3 * pos.idx
    <3> DEFINE c == Owed(mode)  i == pos.idx
    <3>1. c \in Int /\ i \in Nat /\ j \in Nat /\ j + 1 > i
      BY <1>3, <1>5, <2>1
    <3>2. Owed(mode') = c
      BY <1>1
    <3> HIDE DEF c, i
    <3>3. 2 + c - 3 * (j + 1) <= c - 3 * i
      BY <3>1
    <3> USE DEF c, i
    <3> QED BY <2>2, <2>5, <2>6, <3>2, <3>3
  <2> HIDE DEF LexInv, Reading, Counted, u
  <2> QED BY <1>1, <2>4, <2>5, <2>6, <2>7, SeveralStep
<1>8. CASE At(j) # "-"
  <2>1. Consume(j, "Ident") /\ UNCHANGED pending
    BY <1>1, <1>8 DEF Consume
  <2> HIDE DEF LexInv, Reading
  <2> QED BY <1>1, <1>2, <1>5, <1>6, <2>1, ConsumedInLine
<1> QED BY <1>7, <1>8

-----------------------------------------------------------------------------
(* The lines of a text *)

LEMMA InOrderGrows ==
  ASSUME NEW n \in Nat, NEW S, S \subseteq 0..n,
         NEW k \in 1..Cardinality(S), NEW m \in 1..Cardinality(S), k < m
  PROVE  InOrder(S)[k] < InOrder(S)[m]
<1> DEFINE x == InOrder(S)[k]
           y == InOrder(S)[m]
<1>1. IsFiniteSet(S) /\ Cardinality(S) \in Nat
  BY CountRange
<1>2. x \in S /\ y \in S /\ Rank(S, x) = k /\ Rank(S, y) = m
  BY InOrderFacts
<1> HIDE DEF x, y
<1>3. x \in Nat /\ y \in Nat /\ k \in Nat /\ m \in Nat /\ \A v \in S : v \in Nat
  BY <1>1, <1>2
<1>4. ASSUME y <= x PROVE FALSE
  <2> DEFINE A == {v \in S : v <= x}
             B == {v \in S : v <= y}
  <2>1. \A v \in S : v <= y => v <= x
    BY <1>3, <1>4
  <2>2. B \subseteq A
    BY <2>1
  <2>3. IsFiniteSet(A)
    BY <1>1, FS_Subset
  <2>4. Rank(S, x) = Cardinality(A) /\ Rank(S, y) = Cardinality(B)
    BY DEF Rank
  <2> HIDE DEF A, B
  <2>5. Cardinality(B) <= Cardinality(A)
    BY <2>2, <2>3, FS_Subset
  <2> QED BY <1>2, <1>3, <2>4, <2>5
<1>5. x < y
  BY <1>3, <1>4
<1> QED BY <1>5 DEF x, y

\* A set of indices from i on: the k-th is k - 1 or more behind i.
LEMMA InOrderFrom ==
  ASSUME NEW n \in Nat, NEW i \in Nat, NEW S, S \subseteq i..n, NEW k \in 1..Cardinality(S)
  PROVE  InOrder(S)[k] \in S /\ InOrder(S)[k] >= i + k - 1
<1> DEFINE x == InOrder(S)[k]
           T == {v \in S : v <= x}
<1>1. S \subseteq 0..n
  OBVIOUS
<1>2. Cardinality(S) \in Nat
  BY <1>1, CountRange
<1>3. x \in S /\ Rank(S, x) = k
  BY <1>1, InOrderFacts
<1>c. Cardinality(T) = k
  BY <1>3 DEF Rank
<1> HIDE DEF x
<1>4. x \in i..n /\ x \in Nat /\ x >= i
  BY <1>3
<1>t. \A v \in S : v <= x => v \in i..x
  BY <1>4
<1>s. T \subseteq i..x
  BY <1>t
<1> HIDE DEF T
<1>5. IsFiniteSet(i..x) /\ Cardinality(i..x) = x - i + 1
  BY <1>4, FS_Interval
<1>6. Cardinality(T) <= Cardinality(i..x)
  BY <1>s, <1>5, FS_Subset
<1>7. k \in Nat
  BY <1>2
<1>8. x >= i + k - 1
  BY <1>4, <1>c, <1>5, <1>6, <1>7
<1> QED BY <1>3, <1>8 DEF x

LEMMA TextEndFacts ==
  ASSUME src \in Sources, NEW kind, NEW i \in Nat, i <= Len(src)
  PROVE  /\ TextEnd(kind, i) \in i..(Len(src) + 1)
         /\ kind = "comment" => TextEnd(kind, i) <= Len(src)
         /\ TextEnd(kind, i) >= Len(src) \/ Closes(kind, TextEnd(kind, i))
         /\ ~Taken(kind, i, TextEnd(kind, i))
<1> DEFINE S == {j \in i..(Len(src) + 1) : ~Taken(kind, i, j) /\ (j >= Len(src) \/ Closes(kind, j))}
           n == Len(src) + 1
           K == {i} \cup {k \in (i + 1)..n : At(k - 1) # "\\"}
<1>1. Len(src) \in Nat /\ At(Len(src)) = NoByte
  BY SourceFacts
<1>2. NoByte # "\\"
  BY Zenon DEF NoByte
<1>3. n \in Nat /\ n - 1 = Len(src) /\ n \in (i + 1)..n
  BY <1>1
<1>4. n \in K /\ K \subseteq 0..n
  BY <1>1, <1>2, <1>3
<1>5. Max(K) = n
  <2> HIDE DEF K
  <2>1. Max(K) \in K /\ \A y \in K : y <= Max(K)
    BY <1>3, <1>4, MaxFacts
  <2>2. Max(K) \in 0..n /\ n <= Max(K)
    BY <1>4, <2>1
  <2> HIDE DEF n
  <2> QED BY <1>3, <2>2
<1>6. ~Taken(kind, i, n)
  <2>1. Taken(kind, i, n) => (n - Max(K)) % 2 = 1
    BY DEF Taken
  <2>2. n - Max(K) = 0
    BY <1>3, <1>5
  <2>3. 0 % 2 # 1
    OBVIOUS
  <2> HIDE DEF K, n
  <2> QED BY <2>1, <2>2, <2>3
<1>7. n \in S
  BY <1>1, <1>6
<1>8. kind = "comment" => Len(src) \in S
  BY <1>1 DEF Taken
<1>9. TextEnd(kind, i) = Min(S)
  BY DEF TextEnd
<1>10. S \subseteq Nat /\ \A j \in S : j \in i..n /\ ~Taken(kind, i, j) /\ (j >= Len(src) \/ Closes(kind, j))
  BY <1>1
<1> HIDE DEF S
<1>11. Min(S) \in S /\ \A y \in S : Min(S) <= y
  BY <1>7, <1>10, MinFacts
<1> QED BY <1>8, <1>9, <1>10, <1>11

Lines_ == [start : Place, indent : Nat, end : Place, blank : BOOLEAN, at : Byte \cup {NoByte}]

\* The lines of a text that starts at p: each starts where the one before it ends.
LinesFrom(p, ls) ==
  /\ ls \in Seq(Lines_) /\ Len(ls) > 0 /\ ls[1].start = p
  /\ \A k \in 1..Len(ls) :
       LET l == ls[k] IN
       /\ l.start.idx <= Len(src) /\ l.start.idx >= p.idx + k - 1 /\ l.start.idx <= l.end.idx
       /\ l.start.line >= p.line /\ l.end.line >= p.line
       /\ l.indent = Spaces(l.start.idx)
       /\ ~l.blank => l.start.idx + l.indent < l.end.idx
       /\ l.blank => White(l.start.idx, l.end.idx)
  /\ \A k \in 1..(Len(ls) - 1) :
       /\ ls[k].end = ls[k + 1].start /\ ls[k].start.idx < ls[k].end.idx
       /\ ls[k].end.idx <= Len(src) /\ ls[k].at = "\n"

LEMMA AtType ==
  ASSUME src \in Sources, NEW i \in Int
  PROVE  At(i) \in Byte \cup {NoByte}
<1>1. src \in Seq(Byte) /\ Len(src) \in Nat
  BY SourceFacts
<1>2. CASE i \in 0..(Len(src) - 1)
  <2>1. i + 1 \in 1..Len(src)
    BY <1>1, <1>2
  <2> QED BY <1>1, <1>2, <2>1 DEF At
<1>3. CASE i \notin 0..(Len(src) - 1)
  BY <1>3 DEF At
<1> QED BY <1>2, <1>3

LEMMA RawLinesFacts ==
  ASSUME src \in Sources, NEW kind, NEW p \in Place, p.idx <= Len(src)
  PROVE  /\ LinesFrom(p, RawLines(kind, p))
         /\ Last(RawLines(kind, p)).end.idx = TextEnd(kind, p.idx)
         /\ Last(RawLines(kind, p)).at = At(TextEnd(kind, p.idx))
<1> DEFINE raw == RawLines(kind, p)
           last == TextEnd(kind, p.idx)
           B == {k \in p.idx..(last - 1) : At(k) = "\n" /\ ~Taken(kind, p.idx, k)}
           breaks == InOrder(B)
           C == Cardinality(B)
           Start_(k) == IF k = 1 THEN p ELSE Pos(breaks[k - 1] + 1, p.line + k - 1, 0)
           Stop(k) == IF k \in DOMAIN breaks THEN breaks[k] ELSE last
           End_(k) == IF k \in DOMAIN breaks THEN Start_(k + 1) ELSE Moved(Start_(k), last)
           Blank_(k) == \A b \in Start_(k).idx..(Stop(k) - 1) : At(b) = Space
<1>1. /\ p.idx \in Nat /\ p.line \in Nat /\ p.col \in Nat /\ Len(src) \in Nat
      /\ \A i \in Int : At(i) # NoByte <=> i \in 0..(Len(src) - 1)
  BY SourceFacts DEF Place
<1>2. last \in p.idx..(Len(src) + 1) /\ last \in Nat
  BY <1>1, TextEndFacts
<1> HIDE DEF last
<1>3. B \subseteq p.idx..last /\ B \subseteq 0..last
  BY <1>1, <1>2
<1>4. ASSUME NEW b \in B PROVE b \in Nat /\ b < last /\ At(b) = "\n" /\ b + 1 <= Len(src) /\ b >= p.idx
  <2>1. b \in p.idx..(last - 1) /\ At(b) = "\n"
    OBVIOUS
  <2>2. b \in Nat
    BY <1>1, <2>1
  <2> QED BY <1>1, <1>2, <2>1, <2>2, NotTheEnd
<1>5. raw = [k \in 1..(Len(breaks) + 1) |->
              [start |-> Start_(k), indent |-> Spaces(Start_(k).idx), end |-> End_(k),
               blank |-> Blank_(k), at |-> At(Stop(k))]]
  BY DEF RawLines, last
<1> HIDE DEF B
<1>6. C \in Nat /\ Len(breaks) = C /\ DOMAIN breaks = 1..C
  BY <1>2, <1>3, CountRange, InOrderFacts
<1>7. \A k \in 1..C : breaks[k] \in B /\ breaks[k] >= p.idx + k - 1
  BY <1>1, <1>2, <1>3, InOrderFrom
<1>8. \A k, m \in 1..C : k < m => breaks[k] < breaks[m]
  BY <1>2, <1>3, InOrderGrows
<1> HIDE DEF breaks, C
<1>9. ASSUME NEW k \in 1..(C + 1)
      PROVE  /\ Start_(k) \in Place /\ Start_(k).idx <= Len(src) /\ Start_(k).idx >= p.idx + k - 1
             /\ Start_(k).line >= p.line /\ Start_(k).idx <= last
  <2>1. CASE k = 1
    BY <1>1, <1>2, <2>1
  <2>2. CASE k # 1
    <3>1. k - 1 \in 1..C /\ k \in Nat
      BY <1>6, <2>2
    <3>2. breaks[k - 1] \in B /\ breaks[k - 1] >= p.idx + (k - 1) - 1
      BY <1>7, <3>1
    <3> DEFINE b == breaks[k - 1]
    <3>3. b \in Nat /\ b < last /\ b + 1 <= Len(src) /\ b >= p.idx + (k - 1) - 1
      BY <1>4, <3>2
    <3>4. Start_(k) = [idx |-> b + 1, line |-> p.line + k - 1, col |-> 0]
      BY <2>2 DEF Pos
    <3> HIDE DEF b, Start_
    <3>a. k >= 2
      BY <1>6, <3>1
    <3>b. p.line + k - 1 \in Nat /\ p.line + k - 1 >= p.line
      BY <1>1, <3>1, <3>a
    <3>c. b + 1 \in Nat /\ b + 1 >= p.idx + k - 1 /\ b + 1 <= last
      BY <1>1, <1>2, <3>1, <3>3
    <3>5. b + 1 \in Nat /\ p.line + k - 1 \in Nat /\ p.line + k - 1 >= p.line /\ b + 1 >= p.idx + k - 1 /\ b + 1 <= last
      BY <3>b, <3>c
    <3> QED BY <3>3, <3>4, <3>5 DEF Place
  <2> QED BY <2>1, <2>2
<1>10. ASSUME NEW k \in 1..C
       PROVE  /\ Stop(k) = breaks[k] /\ Start_(k).idx <= breaks[k] /\ breaks[k] \in Nat
              /\ End_(k) = Start_(k + 1) /\ Start_(k + 1).idx = breaks[k] + 1
              /\ At(breaks[k]) = "\n" /\ breaks[k] + 1 <= Len(src) /\ breaks[k] + 1 <= last
  <2>1. breaks[k] \in B /\ k \in Nat /\ k + 1 # 1 /\ (k + 1) - 1 = k /\ k \in DOMAIN breaks
    BY <1>6, <1>7
  <2>2. breaks[k] \in Nat /\ At(breaks[k]) = "\n" /\ breaks[k] + 1 <= Len(src) /\ breaks[k] < last
        /\ breaks[k] >= p.idx
    BY <1>4, <2>1
  <2>3. Start_(k + 1).idx = breaks[k] + 1
    BY <2>1 DEF Pos
  <2>4. Start_(k).idx <= breaks[k]
    <3>1. CASE k = 1
      BY <2>2, <3>1
    <3>2. CASE k # 1
      <4>1. k - 1 \in 1..C /\ k - 1 < k
        BY <1>6, <2>1, <3>2
      <4>2. breaks[k - 1] < breaks[k] /\ breaks[k - 1] \in Nat
        BY <1>4, <1>7, <1>8, <4>1
      <4>3. Start_(k).idx = breaks[k - 1] + 1
        BY <3>2 DEF Pos
      <4> QED BY <2>2, <4>2, <4>3
    <3> QED BY <3>1, <3>2
  <2> QED BY <1>2, <2>1, <2>2, <2>3, <2>4
<1>11. /\ Stop(C + 1) = last /\ End_(C + 1) = Moved(Start_(C + 1), last)
       /\ End_(C + 1) \in Place /\ End_(C + 1).idx = last /\ End_(C + 1).line = Start_(C + 1).line
  <2>1. C + 1 \notin DOMAIN breaks /\ C + 1 \in 1..(C + 1)
    BY <1>6
  <2>2. Start_(C + 1) \in Place
    BY <1>9, <2>1
  <2> HIDE DEF Start_
  <2> QED BY <1>2, <2>1, <2>2, MovedFacts
<1>12. ASSUME NEW k \in 1..(C + 1)
       PROVE  /\ End_(k) \in Place /\ End_(k).line >= p.line /\ Start_(k).idx <= Stop(k)
              /\ Stop(k) <= End_(k).idx /\ Stop(k) \in Nat
              /\ \A b \in Stop(k)..(End_(k).idx - 1) : At(b) = "\n"
  <2>1. CASE k \in 1..C
    <3>1. k + 1 \in 1..(C + 1)
      BY <1>6, <2>1
    <3>2. Start_(k + 1) \in Place /\ Start_(k + 1).line >= p.line
      BY <1>9, <3>1
    <3>3. /\ Stop(k) = breaks[k] /\ Start_(k).idx <= breaks[k] /\ breaks[k] \in Nat
          /\ End_(k) = Start_(k + 1) /\ Start_(k + 1).idx = breaks[k] + 1 /\ At(breaks[k]) = "\n"
      BY <1>10, <2>1
    <3> HIDE DEF Start_, Stop, End_
    <3>4. \A b \in Stop(k)..(End_(k).idx - 1) : b = breaks[k]
      BY <3>3
    <3> QED BY <3>2, <3>3, <3>4
  <2>2. CASE k = C + 1
    <3>1. Start_(k) \in Place /\ Start_(k).line >= p.line /\ Start_(k).idx <= last
      BY <1>9
    <3>2. Stop(k) = last /\ End_(k) \in Place /\ End_(k).idx = last /\ End_(k).line = Start_(k).line
      BY <1>11, <2>2
    <3> HIDE DEF Start_, Stop, End_
    <3>3. \A b \in Stop(k)..(End_(k).idx - 1) : FALSE
      BY <1>2, <3>2
    <3> QED BY <1>2, <3>1, <3>2, <3>3
  <2> QED BY <1>6, <2>1, <2>2
<1>13. ASSUME NEW k \in 1..(C + 1)
       PROVE  /\ Spaces(Start_(k).idx) \in Nat
              /\ ~Blank_(k) => Start_(k).idx + Spaces(Start_(k).idx) < End_(k).idx
              /\ Blank_(k) => White(Start_(k).idx, End_(k).idx)
  <2> DEFINE i == Start_(k).idx
             j == Stop(k)
             e == End_(k).idx
  <2>1. /\ Start_(k) \in Place /\ i <= Len(src) /\ End_(k) \in Place /\ j \in Nat /\ i <= j /\ j <= e
        /\ \A b \in j..(e - 1) : At(b) = "\n"
    BY <1>9, <1>12
  <2>2. i \in Nat /\ e \in Nat
    BY <2>1 DEF Place
  <2>3. Blank_(k) <=> \A b \in i..(j - 1) : At(b) = Space
    OBVIOUS
  <2> HIDE DEF i, j, e, Blank_
  <2>4. Spaces(i) \in Nat /\ \A b \in i..(i + Spaces(i) - 1) : At(b) = Space
    BY <2>1, <2>2, SpacesFacts
  <2>5. ASSUME ~Blank_(k) PROVE i + Spaces(i) < e
    <3>1. PICK b \in i..(j - 1) : At(b) # Space
      BY <2>3, <2>5
    <3>2. b \notin i..(i + Spaces(i) - 1)
      BY <2>4, <3>1
    <3> QED BY <2>1, <2>2, <2>4, <3>2
  <2>6. ASSUME Blank_(k) PROVE White(i, e)
    <3>1. \A b \in i..(e - 1) : b \in i..(j - 1) \/ b \in j..(e - 1)
      BY <2>1, <2>2
    <3> QED BY <2>1, <2>3, <2>6, <3>1 DEF White
  <2> QED BY <2>4, <2>5, <2>6 DEF i, j, e
<1>14. \A k \in 1..(C + 1) : At(Stop(k)) \in Byte \cup {NoByte}
  BY <1>12, AtType
<1>15. \A k \in 1..(C + 1) : Blank_(k) \in BOOLEAN
  OBVIOUS
<1>16. /\ C + 1 \in Nat /\ Len(raw) = C + 1 /\ DOMAIN raw = 1..(C + 1)
       /\ \A k \in 1..(C + 1) :
            raw[k] = [start |-> Start_(k), indent |-> Spaces(Start_(k).idx), end |-> End_(k),
                      blank |-> Blank_(k), at |-> At(Stop(k))]
  <2> HIDE DEF Start_, Stop, End_, Blank_
  <2> QED BY <1>5, <1>6
<1>e. C \in Nat
  BY <1>6
<1> HIDE DEF raw, Start_, Stop, End_, Blank_
<1>17. \A k \in 1..(C + 1) : raw[k] \in Lines_
  BY <1>9, <1>12, <1>13, <1>14, <1>15, <1>16 DEF Lines_
<1>18. raw \in Seq(Lines_)
  <2>1. raw = [k \in 1..(C + 1) |-> raw[k]]
    BY <1>5, <1>6
  <2> HIDE DEF Lines_
  <2> QED BY <1>16, <1>17, <2>1
<1>19. Start_(1) = p /\ 1 \in 1..(C + 1)
  BY <1>e DEF Start_
<1>20. ASSUME NEW k \in 1..(C + 1)
       PROVE  /\ raw[k].start.idx <= Len(src) /\ raw[k].start.idx >= p.idx + k - 1
              /\ raw[k].start.idx <= raw[k].end.idx
              /\ raw[k].start.line >= p.line /\ raw[k].end.line >= p.line
              /\ raw[k].indent = Spaces(raw[k].start.idx)
              /\ ~raw[k].blank => raw[k].start.idx + raw[k].indent < raw[k].end.idx
              /\ raw[k].blank => White(raw[k].start.idx, raw[k].end.idx)
  <2>1. /\ raw[k].start = Start_(k) /\ raw[k].indent = Spaces(Start_(k).idx) /\ raw[k].end = End_(k)
        /\ raw[k].blank = Blank_(k)
    BY <1>16
  <2>2. Start_(k).idx <= End_(k).idx
    <3>1. Start_(k) \in Place /\ End_(k) \in Place /\ Start_(k).idx <= Stop(k) /\ Stop(k) <= End_(k).idx /\ Stop(k) \in Nat
      BY <1>9, <1>12
    <3> QED BY <3>1 DEF Place
  <2> QED BY <1>9, <1>12, <1>13, <2>1, <2>2
<1>21. ASSUME NEW k \in 1..C
       PROVE  /\ raw[k].end = raw[k + 1].start /\ raw[k].start.idx < raw[k].end.idx
              /\ raw[k].end.idx <= Len(src) /\ raw[k].at = "\n"
  <2>1. k \in 1..(C + 1) /\ k + 1 \in 1..(C + 1)
    BY <1>e
  <2>2. /\ raw[k].start = Start_(k) /\ raw[k].end = End_(k) /\ raw[k].at = At(Stop(k))
        /\ raw[k + 1].start = Start_(k + 1)
    BY <1>16, <2>1
  <2>3. /\ Stop(k) = breaks[k] /\ Start_(k).idx <= breaks[k] /\ breaks[k] \in Nat
        /\ End_(k) = Start_(k + 1) /\ Start_(k + 1).idx = breaks[k] + 1
        /\ At(breaks[k]) = "\n" /\ breaks[k] + 1 <= Len(src)
    BY <1>10
  <2>4. Start_(k) \in Place
    BY <1>9, <2>1
  <2>5. Start_(k).idx < Start_(k + 1).idx
    BY <2>3, <2>4 DEF Place
  <2> QED BY <2>2, <2>3, <2>5
<1>22. LinesFrom(p, raw)
  <2>1. Len(raw) - 1 = C /\ Len(raw) > 0
    BY <1>e, <1>16
  <2> HIDE DEF Lines_, Place
  <2> QED BY <1>16, <1>18, <1>19, <1>20, <1>21, <2>1 DEF LinesFrom
<1>23. Last(raw) = raw[C + 1] /\ C + 1 \in 1..(C + 1)
  BY <1>e, <1>16 DEF Last
<1>24. Last(raw).end.idx = last /\ Last(raw).at = At(last)
  BY <1>11, <1>16, <1>23
<1> QED BY <1>22, <1>24 DEF raw, last

LEMMA LinesPrefix ==
  ASSUME NEW p, NEW ls, LinesFrom(p, ls), NEW n \in 1..Len(ls)
  PROVE  /\ LinesFrom(p, SubSeq(ls, 1, n)) /\ Len(SubSeq(ls, 1, n)) = n
         /\ \A k \in 1..n : SubSeq(ls, 1, n)[k] = ls[k]
<1> DEFINE t == SubSeq(ls, 1, n)
<1>1. ls \in Seq(Lines_) /\ Len(ls) \in Nat /\ n \in Nat /\ n >= 1
  BY DEF LinesFrom
<1> HIDE DEF Lines_
<1>2. t \in Seq(Lines_) /\ Len(t) = n /\ \A k \in 1..n : t[k] = ls[k]
  BY <1>1
<1> HIDE DEF t
<1>3. \A k \in 1..n : k \in 1..Len(ls)
  BY <1>1
<1>4. \A k \in 1..(n - 1) : k \in 1..n /\ k + 1 \in 1..n /\ k \in 1..(Len(ls) - 1)
  BY <1>1
<1>5. 1 \in 1..n /\ Len(t) > 0
  BY <1>1, <1>2
<1>6. t[1].start = p
  BY <1>2, <1>5 DEF LinesFrom
<1>7. \A k \in 1..Len(t) :
       LET l == t[k] IN
       /\ l.start.idx <= Len(src) /\ l.start.idx >= p.idx + k - 1 /\ l.start.idx <= l.end.idx
       /\ l.start.line >= p.line /\ l.end.line >= p.line
       /\ l.indent = Spaces(l.start.idx)
       /\ ~l.blank => l.start.idx + l.indent < l.end.idx
       /\ l.blank => White(l.start.idx, l.end.idx)
  BY <1>2, <1>3 DEF LinesFrom
<1>8. \A k \in 1..(Len(t) - 1) :
       /\ t[k].end = t[k + 1].start /\ t[k].start.idx < t[k].end.idx
       /\ t[k].end.idx <= Len(src) /\ t[k].at = "\n"
  BY <1>2, <1>4 DEF LinesFrom
<1>9. LinesFrom(p, t)
  BY <1>2, <1>5, <1>6, <1>7, <1>8 DEF LinesFrom
<1> QED BY <1>2, <1>9 DEF t

LEMMA LineTypes ==
  ASSUME NEW p \in Place, NEW ls, LinesFrom(p, ls), NEW k \in 1..Len(ls)
  PROVE  /\ Len(ls) \in Nat \ {0} /\ ls[k] \in Lines_ /\ DOMAIN ls = 1..Len(ls)
         /\ ls[k].start \in Place /\ ls[k].end \in Place /\ ls[k].indent \in Nat /\ ls[k].blank \in BOOLEAN
         /\ ls[k].start.idx \in Nat /\ ls[k].end.idx \in Nat
         /\ ls[k].start.line \in Nat /\ ls[k].end.line \in Nat
<1>1. ls \in Seq(Lines_) /\ Len(ls) \in Nat /\ Len(ls) > 0
  BY DEF LinesFrom
<1>2. ls[k] \in Lines_ /\ DOMAIN ls = 1..Len(ls)
  BY <1>1
<1>3. ls[k].start \in Place /\ ls[k].end \in Place /\ ls[k].indent \in Nat /\ ls[k].blank \in BOOLEAN
  BY <1>2 DEF Lines_
<1> QED BY <1>1, <1>2, <1>3 DEF Place

LEMMA CutFacts ==
  ASSUME NEW kind, NEW raw, Len(raw) \in Nat, NEW floor
  PROVE  CutAt(kind, raw, floor) = 0 \/ CutAt(kind, raw, floor) \in 2..Len(raw)
<1> DEFINE low == {k \in 2..Len(raw) : /\ ~raw[k].blank \/ (kind = "comment" /\ ClosingOnly(kind, raw[k]))
                                       /\ raw[k].indent < floor}
<1>1. CutAt(kind, raw, floor) = IF low = {} THEN 0 ELSE Min(low)
  BY DEF CutAt
<1>2. low \subseteq 2..Len(raw) /\ low \subseteq Nat
  OBVIOUS
<1> HIDE DEF low
<1>3. low # {} => Min(low) \in low
  BY <1>2, MinFacts
<1> QED BY <1>1, <1>2, <1>3

LEMMA LeastOfTwo ==
  ASSUME NEW a \in Nat, NEW b \in Nat
  PROVE  Min({a, b}) \in Nat /\ Min({a, b}) <= a /\ Min({a, b}) <= b
<1>1. {a, b} \subseteq Nat /\ {a, b} # {}
  OBVIOUS
<1>2. Min({a, b}) \in {a, b} /\ \A y \in {a, b} : Min({a, b}) <= y
  BY <1>1, MinFacts
<1> QED BY <1>2

LEMMA LevelFacts ==
  ASSUME NEW S, S \subseteq Nat
  PROVE  StripLevel(S) \in Nat
<1>1. S # {} => Min(S) \in S
  BY MinFacts
<1> QED BY <1>1 DEF StripLevel

LEMMA ContentFacts ==
  ASSUME NEW l, l.start \in Place, NEW skip \in Nat, NEW first \in BOOLEAN
  PROVE  /\ Content(l, skip, first) \in Place /\ Content(l, skip, first).idx = l.start.idx + skip
<1>1. l.start.idx \in Nat /\ l.start.line \in Nat /\ l.start.col \in Nat
  BY DEF Place
<1>2. l.start.idx + skip \in Nat /\ l.start.col + skip \in Nat
  BY <1>1
<1> QED BY <1>1, <1>2 DEF Content, Pos, Place

LEMMA PiecesFacts ==
  ASSUME src \in Sources, NEW token \in Kinds, NEW n \in Nat, NEW lines, NEW from,
         DOMAIN lines = 1..n,
         \A k \in 1..n : lines[k].end \in Place /\ lines[k].end.idx <= Len(src) /\ from[k] \in Place
  PROVE  /\ Pieces(token, lines, from) \in Seq(Tokens_)
         /\ Len(Pieces(token, lines, from)) <= n
         /\ \A k \in 1..Len(Pieces(token, lines, from)) : Pieces(token, lines, from)[k].kind = token
         /\ (\E k \in 1..n : from[k].idx # lines[k].end.idx) => Pieces(token, lines, from) # <<>>
<1> DEFINE S == {k \in DOMAIN lines : from[k].idx # lines[k].end.idx}
           shown == InOrder(S)
           C == Cardinality(S)
           t == Pieces(token, lines, from)
<1>1. S \subseteq 0..n /\ S \subseteq 1..n
  OBVIOUS
<1>2. (\E k \in 1..n : from[k].idx # lines[k].end.idx) => S # {}
  OBVIOUS
<1>3. t = [m \in DOMAIN shown |-> Token(token, from[shown[m]], lines[shown[m]].end)]
  BY DEF Pieces
<1> HIDE DEF S, t
<1>4. DOMAIN shown = 1..C /\ \A m \in 1..C : shown[m] \in S
  BY <1>1, InOrderFacts
<1>5. IsFiniteSet(S) /\ C \in Nat
  BY <1>1, CountRange
<1>6. C <= n
  <2>1. IsFiniteSet(1..n) /\ Cardinality(1..n) = n
    BY FS_Interval
  <2>2. Cardinality(S) <= Cardinality(1..n)
    BY <1>1, <2>1, FS_Subset
  <2> QED BY <2>1, <2>2
<1>7. S # {} => C # 0
  BY <1>5, FS_EmptySet
<1> HIDE DEF shown, C
<1>8. \A m \in 1..C : shown[m] \in 1..n
  BY <1>1, <1>4
<1>9. ASSUME NEW m \in 1..C
      PROVE  t[m] \in Tokens_ /\ t[m].kind = token
  <2>1. from[shown[m]] \in Place /\ lines[shown[m]].end \in Place /\ lines[shown[m]].end.idx <= Len(src)
    BY <1>8
  <2>2. t[m] = Token(token, from[shown[m]], lines[shown[m]].end)
    BY <1>3, <1>4
  <2> QED BY <2>1, <2>2, TokenFacts
<1>10. t \in Seq(Tokens_) /\ Len(t) = C
  <2>1. t = [m \in 1..C |-> t[m]]
    BY <1>3, <1>4
  <2> HIDE DEF Tokens_
  <2>2. t \in [1..C -> Tokens_]
    BY <1>9, <2>1
  <2> QED BY <1>5, <2>2
<1>11. (\E k \in 1..n : from[k].idx # lines[k].end.idx) => t # <<>>
  BY <1>2, <1>5, <1>7, <1>10
<1> QED BY <1>6, <1>9, <1>10, <1>11 DEF t

\* The lines that TextTokens keeps.
LinesKept(raw, cut) == IF cut = 0 THEN raw ELSE SubSeq(raw, 1, cut - 1)

LEMMA KeptFacts ==
  ASSUME NEW kind, NEW p \in Place, NEW raw, LinesFrom(p, raw), NEW cut, cut = 0 \/ cut \in 2..Len(raw)
  PROVE  /\ LinesFrom(p, LinesKept(raw, cut))
         /\ cut = 0 => Len(LinesKept(raw, cut)) = Len(raw)
         /\ cut # 0 => Len(LinesKept(raw, cut)) = cut - 1
         /\ \A k \in 1..Len(LinesKept(raw, cut)) : k \in 1..Len(raw) /\ LinesKept(raw, cut)[k] = raw[k]
<1>1. Len(raw) \in Nat \ {0}
  BY DEF LinesFrom
<1>2. CASE cut = 0
  BY <1>2 DEF LinesKept
<1>3. CASE cut # 0
  <2>1. cut - 1 \in 1..Len(raw) /\ cut \in Nat
    BY <1>1, <1>3
  <2>2. LinesKept(raw, cut) = SubSeq(raw, 1, cut - 1)
    BY <1>3 DEF LinesKept
  <2>3. /\ LinesFrom(p, SubSeq(raw, 1, cut - 1)) /\ Len(SubSeq(raw, 1, cut - 1)) = cut - 1
        /\ \A k \in 1..(cut - 1) : SubSeq(raw, 1, cut - 1)[k] = raw[k]
    BY <2>1, LinesPrefix
  <2>4. \A k \in 1..(cut - 1) : k \in 1..Len(raw)
    BY <1>1, <1>3
  <2> QED BY <1>3, <2>2, <2>3, <2>4
<1> QED BY <1>2, <1>3

LEMMA TextTokensFacts ==
  ASSUME src \in Sources, NEW kind, NEW token \in Kinds, NEW p \in Place,
         NEW raw, LinesFrom(p, raw), Last(raw).end.idx <= Len(src) \/ CutAt(kind, raw, Last(ind)) # 0
  PROVE  LET cut == CutAt(kind, raw, Last(ind))
             t == TextTokens(kind, raw, token)
         IN /\ t \in Seq(Tokens_) /\ \A k \in 1..Len(t) : t[k].kind = token
            /\ cut = 0 \/ cut \in 2..Len(raw)
            /\ Len(t) <= Len(raw)
            /\ cut # 0 => Len(t) <= cut - 1
<1> DEFINE cut == CutAt(kind, raw, Last(ind))
           lines == LinesKept(raw, cut)
           deep == {m \in 2..Len(lines) : ~lines[m].blank \/ (kind = "comment" /\ ClosingOnly(kind, lines[m]))}
           level == StripLevel({lines[k].indent : k \in deep})
           skip(k) == IF k = 1 \/ lines[k].blank THEN 0 ELSE Min({level, lines[k].indent})
           from == [k \in DOMAIN lines |->
                     IF ClosingOnly(kind, lines[k]) THEN lines[k].end ELSE Content(lines[k], skip(k), k = 1)]
           n == Len(lines)
<1>1. Len(raw) \in Nat \ {0} /\ Last(raw) = raw[Len(raw)]
  BY DEF LinesFrom, Last
<1>2. cut = 0 \/ cut \in 2..Len(raw)
  BY <1>1, CutFacts
<1>3. TextTokens(kind, raw, token) = Pieces(token, lines, from)
  BY DEF TextTokens, LinesKept
<1>c. Last(raw).end.idx <= Len(src) \/ cut # 0
  OBVIOUS
<1> HIDE DEF cut
<1>4. /\ LinesFrom(p, lines) /\ (cut = 0 => n = Len(raw)) /\ (cut # 0 => n = cut - 1)
      /\ \A k \in 1..n : k \in 1..Len(raw) /\ lines[k] = raw[k]
  BY <1>2, KeptFacts
<1> HIDE DEF lines
<1>5. n \in Nat \ {0} /\ DOMAIN lines = 1..n
  BY <1>4, LineTypes DEF LinesFrom
<1>6. \A k \in 1..n : /\ lines[k].start \in Place /\ lines[k].end \in Place /\ lines[k].indent \in Nat
  BY <1>4, LineTypes
<1>7. \A k \in 1..n : lines[k].end.idx <= Len(src)
  <2> SUFFICES ASSUME NEW k \in 1..n PROVE lines[k].end.idx <= Len(src)
    OBVIOUS
  <2>1. CASE k \in 1..(Len(raw) - 1)
    BY <1>4, <2>1 DEF LinesFrom
  <2>2. CASE k = Len(raw)
    <3>1. ASSUME cut # 0 PROVE FALSE
      <4>1. n = cut - 1 /\ cut \in 2..Len(raw)
        BY <1>2, <1>4, <3>1
      <4>2. cut \in Nat /\ cut <= Len(raw) /\ k <= n
        BY <1>1, <1>5, <4>1
      <4> QED BY <1>1, <2>2, <4>1, <4>2
    <3> QED BY <1>1, <1>4, <1>c, <2>2, <3>1
  <2> QED BY <1>1, <1>4, <2>1, <2>2
<1>8. level \in Nat
  <2>1. deep \subseteq 1..n
    BY <1>5
  <2>2. {lines[k].indent : k \in deep} \subseteq Nat
    BY <1>6, <2>1
  <2> HIDE DEF deep
  <2> QED BY <2>2, LevelFacts
<1> HIDE DEF level
<1>9. \A k \in 1..n : skip(k) \in Nat
  BY <1>6, <1>8, LeastOfTwo
<1>10. \A k \in 1..n : from[k] \in Place
  <2> SUFFICES ASSUME NEW k \in 1..n PROVE from[k] \in Place
    OBVIOUS
  <2>1. from[k] = IF ClosingOnly(kind, lines[k]) THEN lines[k].end ELSE Content(lines[k], skip(k), k = 1)
    BY <1>5
  <2>2. skip(k) \in Nat /\ lines[k].start \in Place /\ lines[k].end \in Place /\ (k = 1) \in BOOLEAN
    BY <1>6, <1>9
  <2> HIDE DEF skip, from
  <2>3. Content(lines[k], skip(k), k = 1) \in Place
    BY <2>2, ContentFacts
  <2> QED BY <2>1, <2>2, <2>3
<1> HIDE DEF from
<1> DEFINE t == Pieces(token, lines, from)
<1>11. /\ t \in Seq(Tokens_) /\ Len(t) <= n /\ \A k \in 1..Len(t) : t[k].kind = token
  BY <1>5, <1>6, <1>7, <1>10, PiecesFacts
<1> HIDE DEF Tokens_, t
<1>12. Len(t) \in Nat
  BY <1>11
<1>13. Len(t) <= Len(raw) /\ (cut # 0 => Len(t) <= cut - 1)
  BY <1>1, <1>2, <1>4, <1>5, <1>11, <1>12
<1> QED BY <1>2, <1>3, <1>11, <1>13 DEF t, cut

LEMMA ShallowerFacts ==
  ASSUME Stack(ind), NEW col \in Nat
  PROVE  Stack(Shallower(col)) /\ Len(Shallower(col)) \in 1..Len(ind)
<1> DEFINE I == {i \in 1..Len(ind) : ind[i] > col}
<1>1. /\ ind \in Seq(Nat) /\ Len(ind) \in Nat \ {0} /\ ind[1] = 0
      /\ \A k \in 2..Len(ind) : ind[k - 1] <= ind[k]
  BY DEF Stack
<1>2. Kept(col) = IF I # {} THEN Min(I) ELSE 0
  BY DEF Kept, SelectInSeq
<1>3. I \subseteq 2..Len(ind) /\ I \subseteq Nat
  BY <1>1
<1> HIDE DEF I
<1>4. I # {} => Min(I) \in I
  BY <1>3, MinFacts
<1>5. Kept(col) = 0 \/ Kept(col) \in 2..Len(ind)
  BY <1>2, <1>3, <1>4
<1>6. CASE Kept(col) = 0
  <2>1. Shallower(col) = ind
    BY <1>6 DEF Shallower
  <2> QED BY <1>1, <2>1
<1>7. CASE Kept(col) \in 2..Len(ind)
  <2> DEFINE n == Kept(col) - 1
             t == SubSeq(ind, 1, n)
  <2>1. n \in 1..Len(ind) /\ n \in Nat /\ n > 0 /\ Kept(col) # 0
    BY <1>1, <1>7
  <2>2. Shallower(col) = t
    BY <2>1 DEF Shallower
  <2> HIDE DEF n
  <2>3. t \in Seq(Nat) /\ Len(t) = n /\ \A k \in 1..n : t[k] = ind[k]
    BY <1>1, <2>1
  <2> HIDE DEF t
  <2>4. \A k \in 2..n : k \in 1..n /\ k - 1 \in 1..n /\ k \in 2..Len(ind)
    BY <1>1, <2>1
  <2>5. 1 \in 1..n
    BY <2>1
  <2>6. \A k \in 2..Len(t) : t[k - 1] <= t[k]
    BY <1>1, <2>3, <2>4
  <2> QED BY <1>1, <2>1, <2>2, <2>3, <2>5, <2>6 DEF Stack
<1> QED BY <1>5, <1>6, <1>7

LEMMA BlockEndsFacts ==
  ASSUME src \in Sources, Stack(ind), NEW col \in Nat, NEW p \in Place, p.idx <= Len(src)
  PROVE  /\ BlockEnds(col, p) \in Seq(Tokens_)
         /\ Len(BlockEnds(col, p)) = Len(ind) - Len(Shallower(col))
         /\ \A k \in 1..Len(BlockEnds(col, p)) : BlockEnds(col, p)[k] = Mark("BlockEnd", p)
         /\ Mark("BlockEnd", p).kind = "BlockEnd"
<1> DEFINE n == Len(ind) - Len(Shallower(col))
           t == Mark("BlockEnd", p)
<1>1. Len(ind) \in Nat
  BY DEF Stack
<1>2. n \in Nat
  BY <1>1, ShallowerFacts
<1>3. t \in Tokens_ /\ t.kind = "BlockEnd"
  <2>1. "BlockEnd" \in Kinds
    BY DEF Kinds
  <2> QED BY <2>1, TokenFacts
<1>4. BlockEnds(col, p) = [k \in 1..n |-> t]
  BY DEF BlockEnds
<1> HIDE DEF n, t, Tokens_
<1> QED BY <1>2, <1>3, <1>4 DEF n, t

\* Tokens of three parts, of which the second ends blocks.
LEMMA Layers ==
  ASSUME NEW a \in Seq(Tokens_), NEW b \in Seq(Tokens_), NEW c \in Seq(Tokens_),
         \A k \in 1..Len(a) : a[k].kind \in Other, \A k \in 1..Len(b) : b[k].kind = "BlockEnd",
         \A k \in 1..Len(c) : c[k].kind \in Other
  PROVE  /\ a \o b \o c \in Seq(Tokens_) /\ Len(a \o b \o c) = Len(a) + Len(b) + Len(c)
         /\ \A k \in 1..Len(a \o b \o c) : (a \o b \o c)[k].kind # "EOF" /\ (a \o b \o c)[k].kind # "BlockStart"
         /\ Num("BlockEnd", a \o b \o c, Len(a \o b \o c)) = Len(b)
<1> DEFINE ab == a \o b
           abc == ab \o c
<1> HIDE DEF Tokens_
<1>1. Len(a) \in Nat /\ Len(b) \in Nat /\ Len(c) \in Nat
  OBVIOUS
<1>2. /\ ab \in Seq(Tokens_) /\ Len(ab) = Len(a) + Len(b)
      /\ \A k \in 1..Len(ab) : (k <= Len(a) /\ k \in 1..Len(a) /\ ab[k] = a[k])
                               \/ (k > Len(a) /\ k - Len(a) \in 1..Len(b) /\ ab[k] = b[k - Len(a)])
  <2>1. ab \in Seq(Tokens_) /\ Len(ab) = Len(a) + Len(b)
    OBVIOUS
  <2>2. \A k \in 1..(Len(a) + Len(b)) : k <= Len(a) => ab[k] = a[k] /\ k \in 1..Len(a)
    BY <1>1
  <2>3. \A k \in 1..(Len(a) + Len(b)) : k > Len(a) => ab[k] = b[k - Len(a)] /\ k - Len(a) \in 1..Len(b)
    BY <1>1
  <2>4. \A k \in 1..(Len(a) + Len(b)) : k <= Len(a) \/ k > Len(a)
    BY <1>1
  <2> QED BY <2>1, <2>2, <2>3, <2>4
<1>3. \A k \in 1..Len(ab) : ab[k].kind # "EOF" /\ ab[k].kind # "BlockStart"
  BY <1>2 DEF Other
<1>4. Len(a) \in 0..Len(a) /\ Len(b) \in 0..Len(b) /\ Len(c) \in 0..Len(c)
  BY <1>1
<1>5. Num("BlockEnd", ab, Len(a) + Len(b)) = Num("BlockEnd", a, Len(a)) + Num("BlockEnd", b, Len(b))
  BY <1>4, NumConcat
<1>6. \A k \in 1..Len(a) : a[k].kind # "BlockEnd"
  BY DEF Other
<1>7. \A k \in 1..Len(c) : c[k].kind # "BlockEnd" /\ c[k].kind # "EOF" /\ c[k].kind # "BlockStart"
  BY DEF Other
<1>8. Num("BlockEnd", a, Len(a)) = 0 /\ Num("BlockEnd", b, Len(b)) = Len(b) /\ Num("BlockEnd", c, Len(c)) = 0
  BY <1>1, <1>6, <1>7, NumNone, NumAll
<1>9. Num("BlockEnd", ab, Len(ab)) = Len(b)
  BY <1>1, <1>2, <1>5, <1>8
<1> HIDE DEF ab
<1>10. Num("BlockEnd", abc, Len(ab) + Len(c)) = Num("BlockEnd", ab, Len(ab)) + Num("BlockEnd", c, Len(c))
  BY <1>2, <1>4, NumConcat
<1>11. abc \in Seq(Tokens_) /\ Len(abc) = Len(a) + Len(b) + Len(c) /\ Len(abc) = Len(ab) + Len(c)
  <2>0. ab \in Seq(Tokens_)
    BY <1>2
  <2>a. \A s, v \in Seq(Tokens_) : s \o v \in Seq(Tokens_) /\ Len(s \o v) = Len(s) + Len(v)
    OBVIOUS
  <2>1. abc \in Seq(Tokens_) /\ Len(abc) = Len(ab) + Len(c)
    BY <2>0, <2>a
  <2> HIDE DEF abc
  <2> QED BY <1>1, <1>2, <2>1
<1>12. ASSUME NEW k \in 1..Len(abc) PROVE abc[k].kind # "EOF" /\ abc[k].kind # "BlockStart"
  <2>1. CASE k <= Len(ab)
    <3>1. abc[k] = ab[k] /\ k \in 1..Len(ab)
      BY <1>1, <1>2, <1>11, <2>1
    <3> QED BY <1>3, <3>1
  <2>2. CASE k > Len(ab)
    <3>1. abc[k] = c[k - Len(ab)] /\ k - Len(ab) \in 1..Len(c)
      BY <1>1, <1>2, <1>11, <2>2
    <3> QED BY <1>7, <3>1
  <2> QED BY <1>1, <1>2, <1>11, <2>1, <2>2
<1>13. Num("BlockEnd", abc, Len(abc)) = Len(b)
  BY <1>1, <1>8, <1>9, <1>10, <1>11
<1> HIDE DEF abc
<1> QED BY <1>11, <1>12, <1>13 DEF abc, ab

-----------------------------------------------------------------------------
(* The steps that read text *)

LEMMA TextStep ==
  ASSUME LexInv, Reading, NEW a \in Seq(Tokens_), NEW b \in Seq(Tokens_), NEW c \in Seq(Tokens_),
         \A k \in 1..Len(a) : a[k].kind \in Other, \A k \in 1..Len(b) : b[k].kind = "BlockEnd",
         \A k \in 1..Len(c) : c[k].kind \in Other,
         Adds(a \o b \o c), UNCHANGED <<src, started, panicked>>,
         Stack(ind'), Len(ind') = Len(ind) - Len(b),
         pos' \in Place, pos'.idx <= Len(src), Counted', ModeStack(mode'), Owed(mode') \in Int,
         Len(a) + Len(c) + Owed(mode') - 3 * pos'.idx <= Owed(mode) - 3 * pos.idx
  PROVE  LexInv'
<1> DEFINE u == a \o b \o c
<1>1. /\ Len(u) = Len(a) + Len(b) + Len(c) /\ Num("BlockEnd", u, Len(u)) = Len(b)
      /\ \A k \in 1..Len(u) : u[k].kind # "EOF" /\ u[k].kind # "BlockStart"
  BY Layers
<1>2. Len(a) \in Nat /\ Len(b) \in Nat /\ Len(c) \in Nat
  OBVIOUS
<1>3. Len(ind) \in Nat /\ pos.idx \in Nat /\ Owed(mode) \in Int /\ pos'.idx \in Nat
  BY InvFacts DEF Place
<1>4. Num("BlockEnd", u, Len(u)) = Len(ind) - Len(ind')
  BY <1>1, <1>2, <1>3
<1> HIDE DEF u
<1>5. Len(u) + Len(ind') + Owed(mode') - 3 * pos'.idx <= Len(ind) + Owed(mode) - 3 * pos.idx
  <2> DEFINE x == Len(a)  y == Len(b)  z == Len(c)  m == Len(ind)  v == Owed(mode)  w == Owed(mode')
             i == pos.idx  j == pos'.idx
  <2>1. /\ x \in Nat /\ y \in Nat /\ z \in Nat /\ m \in Nat /\ v \in Int /\ w \in Int /\ i \in Nat /\ j \in Nat
        /\ x + z + w - 3 * j <= v - 3 * i
    BY <1>2, <1>3
  <2> HIDE DEF x, y, z, m, v, w, i, j
  <2>2. (x + y + z) + (m - y) + w - 3 * j <= m + v - 3 * i
    BY <2>1
  <2> USE DEF x, y, z, m, v, w, i, j
  <2> QED BY <1>1, <2>2
<1>6. Adds(u)
  BY DEF u
<1> HIDE DEF LexInv, Reading, Counted
<1> QED BY <1>1, <1>4, <1>5, <1>6, Keeps

LEMMA Assoc ==
  ASSUME NEW x \in Seq(Tokens_), NEW y \in Seq(Tokens_), NEW z \in Seq(Tokens_)
  PROVE  x \o (y \o z) = (x \o y) \o z
<1> HIDE DEF Tokens_
<1> QED OBVIOUS

LEMMA OneOther ==
  ASSUME NEW t \in Tokens_, t.kind \in Other
  PROVE  <<t>> \in Seq(Tokens_) /\ Len(<<t>>) = 1 /\ \A k \in 1..Len(<<t>>) : <<t>>[k].kind \in Other
<1> HIDE DEF Tokens_
<1> QED OBVIOUS

LEMMA NoTokens ==
  <<>> \in Seq(Tokens_) /\ Len(<<>>) = 0 /\ \A k \in 1..Len(<<>>) : FALSE
<1> HIDE DEF Tokens_
<1> QED OBVIOUS

\* Where a text that is cut off, or read to its end, leaves the lexer.
LEMMA TextReaches ==
  ASSUME src \in Sources, NEW q \in Place, NEW raw, LinesFrom(q, raw),
         NEW cut, cut = 0 \/ cut \in 2..Len(raw), NEW n \in Nat, n <= Len(raw), cut # 0 => n <= cut - 1,
         cut = 0 => Last(raw).end.idx <= Len(src)
  PROVE  LET p == IF cut # 0 THEN raw[cut].start ELSE Last(raw).end
         IN /\ p \in Place /\ p.idx <= Len(src) /\ p.line >= q.line /\ n <= p.idx - q.idx + 1
            /\ p.idx \in Nat /\ p.line \in Nat /\ p.col \in Nat
            /\ cut # 0 => p.idx > q.idx
            /\ p.idx >= q.idx
<1> DEFINE p == IF cut # 0 THEN raw[cut].start ELSE Last(raw).end
<1>1. Len(raw) \in Nat \ {0} /\ Last(raw) = raw[Len(raw)] /\ Len(raw) \in 1..Len(raw)
  BY DEF LinesFrom, Last
<1>2. q.idx \in Nat
  BY DEF Place
<1>3. CASE cut # 0
  <2>1. cut \in 1..Len(raw) /\ cut \in Nat /\ cut >= 2 /\ p = raw[cut].start
    BY <1>1, <1>3
  <2>2. /\ raw[cut].start \in Place /\ raw[cut].start.idx <= Len(src) /\ raw[cut].start.idx >= q.idx + cut - 1
        /\ raw[cut].start.line >= q.line
    BY <2>1, LineTypes DEF LinesFrom
  <2>3. p \in Place /\ p.idx >= q.idx + cut - 1 /\ p.idx <= Len(src) /\ p.line >= q.line /\ n <= cut - 1
    BY <1>3, <2>1, <2>2
  <2>4. p.idx \in Nat /\ p.line \in Nat /\ p.col \in Nat
    BY <2>3 DEF Place
  <2> HIDE DEF p
  <2>5. p.idx > q.idx /\ p.idx >= q.idx /\ n <= p.idx - q.idx + 1
    BY <1>2, <2>1, <2>3, <2>4
  <2> QED BY <2>3, <2>4, <2>5 DEF p
<1>4. CASE cut = 0
  <2>1. p = raw[Len(raw)].end
    BY <1>1, <1>4
  <2>2. /\ raw[Len(raw)].end \in Place /\ raw[Len(raw)].start.idx >= q.idx + Len(raw) - 1
        /\ raw[Len(raw)].start.idx <= raw[Len(raw)].end.idx /\ raw[Len(raw)].end.line >= q.line
        /\ raw[Len(raw)].start.idx \in Nat
    BY <1>1, LineTypes DEF LinesFrom
  <2>3. p \in Place /\ p.line >= q.line /\ raw[Len(raw)].end.idx = p.idx /\ p.idx <= Len(src)
    BY <1>1, <1>4, <2>1, <2>2
  <2>4. p.idx \in Nat /\ p.line \in Nat /\ p.col \in Nat
    BY <2>3 DEF Place
  <2> HIDE DEF p
  <2>5. p.idx >= q.idx /\ n <= p.idx - q.idx + 1
    BY <1>1, <1>2, <2>2, <2>3, <2>4
  <2> QED BY <1>4, <2>3, <2>4, <2>5 DEF p
<1> QED BY <1>3, <1>4

LEMMA StringTextKeeps == LexInv /\ StringText => LexInv'
<1> SUFFICES ASSUME LexInv, StringText PROVE LexInv'
  OBVIOUS
<1> DEFINE raw == RawLines("text", pos)
           cut == CutAt("text", raw, Last(ind))
           p == IF cut # 0 THEN raw[cut].start ELSE Last(raw).end
           low == cut # 0 \/ (Unended(raw) /\ p.col < Last(ind))
           stop == cut # 0 \/ Unended(raw)
           a == TextTokens("text", raw, "StrText")
           b == IF low THEN BlockEnds(p.col, p) ELSE <<>>
           c == IF stop THEN <<Mark("Err", p)>> ELSE <<>>
           last == TextEnd("text", pos.idx)
<1>1. /\ Reading /\ Top.m = "StrText" /\ At(pos.idx) \notin {"'", NoByte} /\ ~InterpAt(pos.idx)
      /\ ~Overrun(raw) /\ pos' = p
      /\ mode' = IF stop THEN Front(mode) ELSE mode
      /\ ind' = IF low THEN Shallower(p.col) ELSE ind
      /\ IF a \o b \o c = <<>> THEN Give(Mark("StrText", p)) /\ UNCHANGED pending ELSE Queue(a \o b \o c)
      /\ UNCHANGED <<src, started, panicked>>
  BY DEF StringText, ReadText
<1>2. /\ src \in Sources /\ Len(src) \in Nat /\ pos \in Place /\ pos.idx \in Nat /\ pos.idx < Len(src)
      /\ pos.line \in Nat /\ pos.line > 0 /\ Owed(mode) \in Int /\ ModeStack(mode)
      /\ Stack(ind) /\ Len(ind) \in Nat \ {0} /\ toks \in Seq(Tokens_)
  BY <1>1, InvFacts DEF TextModes
<1>3. LinesFrom(pos, raw) /\ Last(raw).end.idx = last
  BY <1>2, RawLinesFacts
<1>4. last > pos.idx /\ last <= Len(src) /\ last \in Nat
  <2>1. last \in pos.idx..(Len(src) + 1) /\ (last >= Len(src) \/ Closes("text", last))
    BY <1>2, TextEndFacts
  <2>2. ~Closes("text", pos.idx)
    BY <1>1 DEF Closes
  <2>3. last # pos.idx
    BY <1>2, <2>1, <2>2
  <2>4. ~(last > Len(src))
    BY <1>1, <1>3 DEF Overrun
  <2> HIDE DEF last
  <2> QED BY <1>2, <2>1, <2>3, <2>4
<1>5. Len(raw) \in Nat \ {0} /\ Last(raw) = raw[Len(raw)] /\ Len(raw) \in 1..Len(raw)
  BY <1>3 DEF LinesFrom, Last
<1>6. "StrText" \in Kinds /\ "StrText" \in Other /\ "Err" \in Kinds /\ "Err" \in Other
  BY DEF Other, Kinds
<1>7. /\ a \in Seq(Tokens_) /\ \A k \in 1..Len(a) : a[k].kind = "StrText"
      /\ cut = 0 \/ cut \in 2..Len(raw)
      /\ Len(a) <= Len(raw) /\ (cut # 0 => Len(a) <= cut - 1)
  <2>1. Last(raw).end.idx <= Len(src)
    BY <1>3, <1>4
  <2> HIDE DEF raw
  <2> QED BY <1>2, <1>3, <1>6, <2>1, TextTokensFacts
<1> HIDE DEF a, raw, last
<1>8. /\ p \in Place /\ p.idx > pos.idx /\ p.idx <= Len(src) /\ p.line >= pos.line
      /\ p.idx \in Nat /\ p.line \in Nat /\ p.col \in Nat
      /\ Len(a) <= p.idx - pos.idx + 1
  <2>1. Len(a) \in Nat
    BY <1>7
  <2>2. Last(raw).end.idx <= Len(src)
    BY <1>3, <1>4
  <2>3. /\ p \in Place /\ p.idx <= Len(src) /\ p.line >= pos.line /\ Len(a) <= p.idx - pos.idx + 1
        /\ p.idx \in Nat /\ p.line \in Nat /\ p.col \in Nat
        /\ cut # 0 => p.idx > pos.idx
    BY <1>2, <1>3, <1>7, <2>1, <2>2, TextReaches
  <2>4. cut = 0 => p.idx = last
    BY <1>3
  <2> HIDE DEF p, cut
  <2> QED BY <1>4, <2>3, <2>4
<1>9. low => stop
  OBVIOUS
<1>10. /\ b \in Seq(Tokens_) /\ \A k \in 1..Len(b) : b[k].kind = "BlockEnd"
       /\ Stack(ind') /\ Len(ind') = Len(ind) - Len(b)
  <2>1. CASE low
    <3>1. b = BlockEnds(p.col, p) /\ ind' = Shallower(p.col)
      BY <1>1, <2>1
    <3> HIDE DEF p, low, b
    <3>2. /\ BlockEnds(p.col, p) \in Seq(Tokens_)
          /\ Len(BlockEnds(p.col, p)) = Len(ind) - Len(Shallower(p.col))
          /\ \A k \in 1..Len(BlockEnds(p.col, p)) : BlockEnds(p.col, p)[k].kind = "BlockEnd"
      BY <1>2, <1>8, BlockEndsFacts
    <3>3. Stack(Shallower(p.col)) /\ Len(Shallower(p.col)) \in 1..Len(ind)
      BY <1>2, <1>8, ShallowerFacts
    <3>4. Len(Shallower(p.col)) \in Nat
      BY <1>2, <3>3
    <3>5. b \in Seq(Tokens_) /\ Len(b) = Len(ind) - Len(ind')
      BY <3>1, <3>2
    <3>6. \A k \in 1..Len(b) : b[k].kind = "BlockEnd"
      BY <3>1, <3>2
    <3>7. Len(ind') = Len(ind) - Len(b)
      BY <1>2, <3>1, <3>4, <3>5
    <3> QED BY <3>1, <3>3, <3>5, <3>6, <3>7
  <2>2. CASE ~low
    <3>1. b = <<>> /\ ind' = ind
      BY <1>1, <2>2
    <3> HIDE DEF b, low, p
    <3>2. b \in Seq(Tokens_) /\ Len(b) = 0 /\ \A k \in 1..Len(b) : FALSE
      BY <3>1, NoTokens
    <3>3. Stack(ind')
      BY <1>2, <3>1
    <3>4. Len(ind') = Len(ind) - Len(b)
      BY <1>2, <3>1, <3>2
    <3> QED BY <3>2, <3>3, <3>4
  <2> QED BY <2>1, <2>2
<1>11. /\ c \in Seq(Tokens_) /\ \A k \in 1..Len(c) : c[k].kind \in Other
       /\ Len(c) = IF stop THEN 1 ELSE 0
  <2>1. Mark("Err", p) \in Tokens_ /\ Mark("Err", p).kind \in Other
    BY <1>2, <1>6, <1>8, TokenFacts
  <2> HIDE DEF p, stop
  <2> QED BY <2>1, OneOther, NoTokens
<1>12. /\ ModeStack(mode') /\ Owed(mode') \in Int
       /\ Owed(mode') <= Owed(mode) - (IF stop THEN 2 ELSE 0)
  <2>1. CASE stop
    <3>1. mode' = Front(mode) /\ Top.m # "Block"
      BY <1>1, <2>1
    <3>2. ModeStack(mode') /\ Owed(mode') \in Int /\ Owed(mode') <= Owed(mode) - 2
      BY <3>1, Left
    <3> HIDE DEF stop
    <3> QED BY <2>1, <3>2
  <2>2. CASE ~stop
    <3>1. mode' = mode
      BY <1>1, <2>2
    <3> HIDE DEF stop
    <3> QED BY <1>2, <2>2, <3>1
  <2> QED BY <2>1, <2>2
<1>13. pos' = p /\ pos' \in Place /\ pos'.idx <= Len(src) /\ Counted'
  <2>1. p.line > 0
    BY <1>2, <1>8
  <2> QED BY <1>1, <1>8, <2>1 DEF Counted
<1>14. Len(a) \in Nat /\ Len(b) \in Nat
  BY <1>7, <1>10
<1> HIDE DEF b, c, p, stop, low, cut
<1>15. Len(a) + Len(c) + Owed(mode') - 3 * pos'.idx <= Owed(mode) - 3 * pos.idx
  <2> DEFINE x == Len(a)  z == Len(c)  v == Owed(mode)  w == Owed(mode')  i == pos.idx  j == p.idx
             s == IF stop THEN 1 ELSE 0
  <2>1. /\ x \in Nat /\ v \in Int /\ w \in Int /\ i \in Nat /\ j \in Nat /\ s \in {0, 1} /\ j > i
        /\ x <= j - i + 1 /\ z = s /\ w <= v - 2 * s
    BY <1>2, <1>8, <1>11, <1>12, <1>14
  <2> HIDE DEF x, z, v, w, i, j, s
  <2>2. x + z + w - 3 * j <= v - 3 * i
    BY <2>1
  <2> USE DEF x, z, v, w, i, j
  <2> QED BY <1>13, <2>2
<1>16. \A k \in 1..Len(a) : a[k].kind \in Other
  BY <1>6, <1>7
<1>17. CASE a \o b \o c # <<>>
  <2>1. a \o b \o c \in Seq(Tokens_)
    BY <1>7, <1>10, <1>11, <1>16, Layers
  <2> DEFINE u == a \o b \o c
  <2>2. Queue(u) /\ u \in Seq(Tokens_) /\ u # <<>>
    BY <1>1, <1>17, <2>1
  <2>3. Adds(u)
    <3> HIDE DEF u
    <3> QED BY <1>2, <2>2, GaveAll
  <2> HIDE DEF LexInv, Reading, Counted
  <2> QED BY <1>1, <1>7, <1>10, <1>11, <1>12, <1>13, <1>15, <1>16, <2>3, TextStep
<1>18. CASE a \o b \o c = <<>>
  <2>1. Len(a \o b \o c) = Len(a) + Len(b) + Len(c)
    BY <1>7, <1>10, <1>11, <1>16, Layers
  <2>2. Len(a) = 0 /\ Len(b) = 0 /\ Len(c) = 0 /\ ~stop
    <3>1. Len(a \o b \o c) = 0
      BY <1>18
    <3>2. Len(c) \in {0, 1} /\ (Len(c) = 0 => ~stop)
      BY <1>11
    <3>3. Len(a) + Len(b) + Len(c) = 0
      BY <2>1, <3>1
    <3> QED BY <1>14, <3>2, <3>3
  <2> DEFINE t == Mark("StrText", p)
  <2>3. t \in Tokens_ /\ t.kind \in Other
    BY <1>2, <1>6, <1>8, TokenFacts
  <2>4. Give(t) /\ UNCHANGED pending
    BY <1>1, <1>18
  <2>5. ind' = ind /\ mode' = mode
    BY <1>1, <1>9, <2>2 DEF stop, low
  <2>6. 1 + Owed(mode') - 3 * pos'.idx <= Owed(mode) - 3 * pos.idx
    <3> DEFINE v == Owed(mode)  i == pos.idx  j == p.idx
    <3>1. v \in Int /\ i \in Nat /\ j \in Nat /\ j > i /\ Owed(mode') = v
      BY <1>2, <1>8, <2>5
    <3>2. 1 + v - 3 * j <= v - 3 * i
      <4> HIDE DEF v, i, j
      <4> QED BY <3>1
    <3> QED BY <1>13, <3>1, <3>2
  <2> HIDE DEF LexInv, Reading, Counted, t
  <2> QED BY <1>1, <1>12, <1>13, <2>3, <2>4, <2>5, <2>6, OneStep
<1> QED BY <1>17, <1>18

LEMMA BlockCommentKeeps == LexInv /\ BlockComment => LexInv'
<1> SUFFICES ASSUME LexInv, BlockComment PROVE LexInv'
  OBVIOUS
<1> DEFINE p0 == Moved(pos, pos.idx + 3)
           raw == RawLines("comment", p0)
           cut == CutAt("comment", raw, Last(ind))
           p == IF cut # 0 THEN raw[cut].start ELSE Last(raw).end
           close == Moved(p, p.idx + 3)
           t == Token("CommentStart", pos, p0)
           texts == TextTokens("comment", raw, "CommentText")
           b == IF cut # 0 THEN BlockEnds(p.col, p) ELSE <<>>
           closed == cut = 0 /\ ~Unended(raw)
           e == IF closed THEN Token("CommentEnd", p, close) ELSE Mark("Err", p)
           last == TextEnd("comment", p0.idx)
<1>1. /\ Reading /\ Fence(pos.idx) /\ Give(t)
      /\ pending' = texts \o (IF cut # 0 THEN Append(BlockEnds(p.col, p), Mark("Err", p))
                              ELSE IF Unended(raw) THEN <<Mark("Err", p)>>
                              ELSE <<Token("CommentEnd", p, close)>>)
      /\ ind' = IF cut # 0 THEN Shallower(p.col) ELSE ind
      /\ pos' = IF closed THEN close ELSE p
      /\ UNCHANGED <<src, mode, started, panicked>>
  BY DEF BlockComment, ReadComment, InCode
<1>2. At(pos.idx) = "-" /\ At(pos.idx + 1) = "-" /\ At(pos.idx + 2) = "-"
  BY <1>1 DEF Fence
<1>3. /\ src \in Sources /\ Len(src) \in Nat /\ pos \in Place /\ pos.idx \in Nat /\ pos.idx < Len(src)
      /\ pos.line \in Nat /\ pos.line > 0 /\ Owed(mode) \in Int /\ ModeStack(mode)
      /\ Stack(ind) /\ Len(ind) \in Nat \ {0} /\ toks \in Seq(Tokens_)
  <2>1. At(pos.idx) # NoByte /\ At(pos.idx) # "\n"
    BY <1>2, NotTheEnd
  <2> QED BY <2>1, InvFacts
<1>4. pos.idx + 3 \in Nat /\ pos.idx + 3 <= Len(src)
  <2>1. At(pos.idx + 2) # NoByte /\ pos.idx + 2 \in Int
    BY <1>2, <1>3, NotTheEnd
  <2>2. pos.idx + 2 \in 0..(Len(src) - 1)
    BY <1>3, <2>1, SourceFacts
  <2> QED BY <1>3, <2>2
<1>5. p0 \in Place /\ p0.idx = pos.idx + 3 /\ p0.line = pos.line
  BY <1>3, <1>4, MovedFacts
<1>6. "CommentStart" \in Other /\ "CommentText" \in Other /\ "CommentEnd" \in Other /\ "Err" \in Other
      /\ "CommentStart" \in Kinds /\ "CommentText" \in Kinds /\ "CommentEnd" \in Kinds /\ "Err" \in Kinds
  BY DEF Other, Kinds
<1>7. t \in Tokens_ /\ t.kind = "CommentStart"
  BY <1>3, <1>4, <1>5, <1>6, TokenFacts
<1> HIDE DEF p0
<1>8. LinesFrom(p0, raw) /\ Last(raw).end.idx = last /\ Last(raw).at = At(last)
  BY <1>3, <1>4, <1>5, RawLinesFacts
<1>9. last \in Nat /\ last <= Len(src) /\ (last < Len(src) => Fence(last))
  <2>1. /\ last \in p0.idx..(Len(src) + 1) /\ last <= Len(src)
        /\ last >= Len(src) \/ Closes("comment", last)
    BY <1>3, <1>4, <1>5, TextEndFacts
  <2>2. Closes("comment", last) => Fence(last)
    BY DEF Closes
  <2> HIDE DEF last
  <2> QED BY <1>3, <1>4, <1>5, <2>1, <2>2
<1>10. Len(raw) \in Nat \ {0}
  BY <1>8 DEF LinesFrom
<1>11. /\ texts \in Seq(Tokens_) /\ \A k \in 1..Len(texts) : texts[k].kind = "CommentText"
       /\ cut = 0 \/ cut \in 2..Len(raw)
       /\ Len(texts) <= Len(raw) /\ (cut # 0 => Len(texts) <= cut - 1)
  <2> HIDE DEF raw, last
  <2> QED BY <1>3, <1>5, <1>6, <1>8, <1>9, TextTokensFacts
<1> HIDE DEF raw, last, texts
<1>12. Len(texts) \in Nat
  BY <1>11
<1>13. /\ p \in Place /\ p.idx <= Len(src) /\ p.line >= p0.line /\ Len(texts) <= p.idx - p0.idx + 1
       /\ p.idx \in Nat /\ p.line \in Nat /\ p.col \in Nat /\ p.idx >= p0.idx
  BY <1>3, <1>5, <1>8, <1>9, <1>11, <1>12, TextReaches
<1>14. ASSUME closed PROVE p.idx + 3 \in Nat /\ p.idx + 3 <= Len(src)
  <2>1. p.idx = last /\ At(last) # NoByte
    BY <1>8, <1>14 DEF Unended
  <2>2. last < Len(src)
    BY <1>3, <1>9, <2>1, SourceFacts
  <2>3. At(last + 2) = "-"
    BY <1>9, <2>2 DEF Fence
  <2>4. At(last + 2) # NoByte /\ last + 2 \in Int
    BY <1>9, <2>3, NotTheEnd
  <2>5. last + 2 \in 0..(Len(src) - 1)
    BY <1>3, <2>4, SourceFacts
  <2> HIDE DEF p
  <2> QED BY <1>3, <1>9, <1>13, <2>1, <2>5
<1> HIDE DEF p
<1>15. /\ e \in Tokens_ /\ e.kind \in Other
       /\ pos' \in Place /\ pos'.idx <= Len(src) /\ pos'.line > 0 /\ pos'.idx >= p.idx
  <2>0. p.line > 0
    BY <1>3, <1>5, <1>13
  <2>1. CASE closed
    <3>1. close \in Place /\ close.idx = p.idx + 3 /\ close.line = p.line
      BY <1>3, <1>13, <1>14, <2>1, MovedFacts
    <3> HIDE DEF close
    <3>2. Token("CommentEnd", p, close) \in Tokens_ /\ Token("CommentEnd", p, close).kind = "CommentEnd"
      BY <1>3, <1>6, <1>13, <1>14, <2>1, <3>1, TokenFacts
    <3>3. e = Token("CommentEnd", p, close) /\ pos' = close
      BY <1>1, <2>1
    <3> HIDE DEF e, closed
    <3>4. close.idx <= Len(src) /\ close.idx >= p.idx
      BY <1>13, <1>14, <2>1, <3>1
    <3> QED BY <1>6, <2>0, <3>1, <3>2, <3>3, <3>4
  <2>2. CASE ~closed
    <3>1. Mark("Err", p) \in Tokens_ /\ Mark("Err", p).kind = "Err"
      BY <1>3, <1>6, <1>13, TokenFacts
    <3>2. e = Mark("Err", p) /\ pos' = p
      BY <1>1, <2>2
    <3> HIDE DEF e, closed
    <3> QED BY <1>6, <1>13, <2>0, <3>1, <3>2
  <2> QED BY <2>1, <2>2
<1>16. /\ b \in Seq(Tokens_) /\ \A k \in 1..Len(b) : b[k].kind = "BlockEnd"
       /\ Stack(ind') /\ Len(ind') = Len(ind) - Len(b)
  <2>1. CASE cut # 0
    <3>1. b = BlockEnds(p.col, p) /\ ind' = Shallower(p.col)
      BY <1>1, <2>1
    <3> HIDE DEF b, cut
    <3>2. /\ BlockEnds(p.col, p) \in Seq(Tokens_)
          /\ Len(BlockEnds(p.col, p)) = Len(ind) - Len(Shallower(p.col))
          /\ \A k \in 1..Len(BlockEnds(p.col, p)) : BlockEnds(p.col, p)[k].kind = "BlockEnd"
      BY <1>3, <1>13, BlockEndsFacts
    <3>3. Stack(Shallower(p.col)) /\ Len(Shallower(p.col)) \in 1..Len(ind)
      BY <1>3, <1>13, ShallowerFacts
    <3>4. Len(Shallower(p.col)) \in Nat
      BY <1>3, <3>3
    <3>5. b \in Seq(Tokens_) /\ Len(b) = Len(ind) - Len(ind')
      BY <3>1, <3>2
    <3>6. \A k \in 1..Len(b) : b[k].kind = "BlockEnd"
      BY <3>1, <3>2
    <3>7. Len(ind') = Len(ind) - Len(b)
      BY <1>3, <3>1, <3>4, <3>5
    <3> QED BY <3>1, <3>3, <3>5, <3>6, <3>7
  <2>2. CASE cut = 0
    <3>1. b = <<>> /\ ind' = ind
      BY <1>1, <2>2
    <3> HIDE DEF b, cut
    <3>2. b \in Seq(Tokens_) /\ Len(b) = 0 /\ \A k \in 1..Len(b) : FALSE
      BY <3>1, NoTokens
    <3>3. Stack(ind')
      BY <1>3, <3>1
    <3>4. Len(ind') = Len(ind) - Len(b)
      BY <1>3, <3>1, <3>2
    <3> QED BY <3>2, <3>3, <3>4
  <2> QED BY <2>1, <2>2
<1> DEFINE a == <<t>> \o texts
           c == <<e>>
<1>17. pending' = texts \o (b \o c)
  <2>1. CASE cut # 0
    <3>1. b = BlockEnds(p.col, p) /\ e = Mark("Err", p)
      BY <2>1
    <3>2. pending' = texts \o Append(b, e)
      BY <1>1, <2>1, <3>1
    <3> HIDE DEF b, e, Tokens_
    <3>3. Append(b, e) = b \o c
      BY <1>15, <1>16
    <3> QED BY <3>2, <3>3
  <2>2. CASE cut = 0
    <3>1. b = <<>>
      BY <2>2
    <3>2. pending' = texts \o c
      BY <1>1, <2>2
    <3> HIDE DEF b, e, Tokens_
    <3>3. b \o c = c
      BY <1>15, <1>16, <3>1
    <3> QED BY <3>2, <3>3
  <2> QED BY <2>1, <2>2
<1> HIDE DEF t, e, b, closed, cut
<1>18. /\ c \in Seq(Tokens_) /\ Len(c) = 1 /\ \A k \in 1..Len(c) : c[k].kind \in Other
  BY <1>15, OneOther
<1>19. /\ <<t>> \in Seq(Tokens_) /\ a \in Seq(Tokens_) /\ Len(a) = Len(texts) + 1
       /\ \A k \in 1..Len(a) : a[k].kind \in Other
  <2>1. <<t>> \in Seq(Tokens_) /\ t.kind \in Other
    BY <1>6, <1>7, OneOther
  <2> HIDE DEF Tokens_
  <2>2. a \in Seq(Tokens_) /\ Len(a) = Len(texts) + 1 /\ a[1] = t
    BY <1>7, <1>11
  <2>3. \A k \in 2..(Len(texts) + 1) : k - 1 \in 1..Len(texts) /\ a[k] = texts[k - 1]
    BY <1>7, <1>11, <1>12
  <2>4. \A k \in 1..Len(a) : k = 1 \/ k \in 2..(Len(texts) + 1)
    BY <1>12, <2>2
  <2> HIDE DEF a
  <2> QED BY <1>6, <1>11, <2>1, <2>2, <2>3, <2>4
<1>20. Adds(a \o b \o c)
  <2>1. b \o c \in Seq(Tokens_)
    <3> HIDE DEF Tokens_, c
    <3> QED BY <1>16, <1>18
  <2>2. texts \o (b \o c) \in Seq(Tokens_)
    <3> DEFINE bc == b \o c
    <3> HIDE DEF Tokens_, bc
    <3>1. texts \o bc \in Seq(Tokens_)
      BY <1>11, <2>1 DEF bc
    <3> QED BY <3>1 DEF bc
  <2>3. Adds(<<t>> \o (texts \o (b \o c)))
    <3> HIDE DEF c
    <3> QED BY <1>1, <1>3, <1>7, <1>17, <2>2, GaveFirst
  <2> HIDE DEF c, Tokens_
  <2>4. <<t>> \o (texts \o (b \o c)) = (<<t>> \o texts) \o (b \o c)
    BY <1>11, <1>19, <2>1, Assoc
  <2>5. a \o (b \o c) = (a \o b) \o c
    <3> HIDE DEF a
    <3> QED BY <1>16, <1>18, <1>19, Assoc
  <2> QED BY <2>3, <2>4, <2>5
<1>21. Counted' /\ ModeStack(mode') /\ Owed(mode') = Owed(mode)
  BY <1>1, <1>3, <1>15 DEF Counted
<1>22. Len(a) + Len(c) + Owed(mode') - 3 * pos'.idx <= Owed(mode) - 3 * pos.idx
  <2> DEFINE x == Len(texts)  v == Owed(mode)  i == pos.idx  j == p.idx  h == pos'.idx
  <2>1. /\ x \in Nat /\ v \in Int /\ i \in Nat /\ j \in Nat /\ h \in Nat /\ h >= j
        /\ j >= i + 3 /\ x <= j - (i + 3) + 1
    <3>1. pos'.idx \in Nat
      BY <1>15 DEF Place
    <3> QED BY <1>3, <1>5, <1>12, <1>13, <1>15, <3>1
  <2> HIDE DEF x, v, i, j, h
  <2>2. (x + 1) + 1 + v - 3 * h <= v - 3 * i
    BY <2>1
  <2> USE DEF x, v, i, j, h
  <2> QED BY <1>18, <1>19, <1>21, <2>2
<1>23. Owed(mode') \in Int
  BY <1>3, <1>21
<1> HIDE DEF LexInv, Reading, Counted, a, c
<1> QED BY <1>1, <1>15, <1>16, <1>18, <1>19, <1>20, <1>21, <1>22, <1>23, TextStep

-----------------------------------------------------------------------------
(* Block strings *)

LEMMA BlockLinesFacts ==
  ASSUME src \in Sources, NEW p \in Place, p.idx <= Len(src), NEW floor
  PROVE  LinesFrom(p, BlockLines(p, floor))
<1> DEFINE raw == RawLines("block", p)
           out == {k \in 2..Len(raw) :
                    LET i == raw[k].start.idx
                    IN Dedents(i, floor) \/ (EmptyAt(i) /\ At(PastNewlines(i)) = NoByte)}
<1>1. LinesFrom(p, raw)
  BY RawLinesFacts
<1>2. BlockLines(p, floor) = IF out = {} THEN raw ELSE SubSeq(raw, 1, Min(out) - 1)
  BY DEF BlockLines
<1> HIDE DEF raw
<1>3. Len(raw) \in Nat
  BY <1>1 DEF LinesFrom
<1>4. out \subseteq 2..Len(raw) /\ out \subseteq Nat
  BY <1>3
<1> HIDE DEF out
<1>5. ASSUME out # {} PROVE LinesFrom(p, SubSeq(raw, 1, Min(out) - 1))
  <2>1. Min(out) \in 2..Len(raw)
    BY <1>4, <1>5, MinFacts
  <2>2. Min(out) - 1 \in 1..Len(raw)
    BY <1>3, <2>1
  <2> QED BY <1>1, <2>2, LinesPrefix
<1> QED BY <1>1, <1>2, <1>5

\* Where a block string leaves the lexer.
Behind(lines, raw) == IF raw # <<>> THEN Last(raw).end
                      ELSE Pos(Last(lines).end.idx - 1, Last(lines).end.line - 1, 0)

\* Lines to read as text: those of LinesFrom, the last of which may have been cut short.
Readable(raw) ==
  /\ raw \in Seq(Lines_)
  /\ \A k \in 1..Len(raw) : raw[k].end.idx <= Len(src)

LEMMA ReadableLines ==
  ASSUME NEW q \in Place, NEW lines, LinesFrom(q, lines), Last(lines).end.idx <= Len(src)
  PROVE  Readable(lines)
<1>1. lines \in Seq(Lines_) /\ Len(lines) \in Nat \ {0} /\ Last(lines) = lines[Len(lines)]
  BY DEF LinesFrom, Last
<1>2. ASSUME NEW k \in 1..Len(lines) PROVE lines[k].end.idx <= Len(src)
  <2>1. k = Len(lines) \/ k \in 1..(Len(lines) - 1)
    BY <1>1
  <2> QED BY <1>1, <2>1 DEF LinesFrom
<1> QED BY <1>1, <1>2 DEF Readable

LEMMA ShorterFacts ==
  ASSUME NEW T, NEW s \in Seq(T), Len(s) > 0
  PROVE  /\ Front(s) \in Seq(T) /\ Len(Front(s)) = Len(s) - 1
         /\ \A k \in 1..(Len(s) - 1) : Front(s)[k] = s[k] /\ k \in 1..Len(s)
<1> DEFINE n == Len(s) - 1
<1>1. n \in Nat /\ n <= Len(s) /\ Len(s) \in Nat
  OBVIOUS
<1>2. Front(s) = SubSeq(s, 1, n)
  BY DEF Front
<1> HIDE DEF n
<1>3. SubSeq(s, 1, n) \in Seq(T) /\ Len(SubSeq(s, 1, n)) = n
  BY <1>1
<1>4. \A k \in 1..n : SubSeq(s, 1, n)[k] = s[k] /\ k \in 1..Len(s)
  BY <1>1
<1> QED BY <1>2, <1>3, <1>4 DEF n

LEMMA TrimmedFacts ==
  ASSUME src \in Sources, NEW q \in Place, q.line > 0,
         NEW lines, LinesFrom(q, lines), Last(lines).end.idx <= Len(src)
  PROVE  LET raw == Trimmed(lines)
             p == Behind(lines, raw)
         IN /\ Readable(raw)
            /\ p \in Place /\ p.idx <= Len(src) /\ p.idx >= q.idx + Len(raw) - 1
            /\ p.line > 0 \/ At(p.idx) = "\n"
<1> DEFINE n == Len(lines)
           l == Last(lines)
           e == l.end.idx - 1
           cutline == [l EXCEPT !.end = Pos(e, @.line - 1, l.start.col + Width(l.start.idx, e))]
           raw == Trimmed(lines)
           p == Behind(lines, raw)
<1>1. lines \in Seq(Lines_) /\ n \in Nat \ {0} /\ l = lines[n] /\ n \in 1..n
  BY DEF LinesFrom, Last
<1>2. /\ l \in Lines_ /\ l.start \in Place /\ l.end \in Place /\ l.start.idx \in Nat /\ l.end.idx \in Nat
      /\ l.end.line \in Nat /\ l.start.idx >= q.idx + n - 1 /\ l.start.idx <= l.end.idx
      /\ l.end.line >= q.line /\ l.end.idx <= Len(src) /\ l.start.idx <= Len(src)
  BY <1>1, LineTypes DEF LinesFrom
<1>3. q.idx \in Nat /\ q.line \in Nat /\ Len(src) \in Nat /\ l.start.col \in Nat
  BY <1>2, SourceFacts DEF Place
<1>4. Readable(lines)
  BY ReadableLines
<1>5. raw = IF At(e) # "\n" THEN lines
            ELSE IF e <= l.start.idx THEN Front(lines)
            ELSE Append(Front(lines), cutline)
  BY DEF Trimmed
<1>f. /\ Front(lines) \in Seq(Lines_) /\ Len(Front(lines)) = n - 1
      /\ \A k \in 1..(n - 1) : Front(lines)[k] = lines[k] /\ k \in 1..n
  <2> QED BY <1>1, ShorterFacts
<1>6. CASE At(e) # "\n"
  <2>1. raw = lines
    BY <1>5, <1>6
  <2> HIDE DEF raw, l
  <2>2. p = l.end
    <3>1. lines # <<>>
      BY <1>1
    <3> QED BY <2>1, <3>1 DEF Behind, l
  <2> HIDE DEF p
  <2>3. p.idx >= q.idx + Len(raw) - 1
    BY <1>1, <1>2, <1>3, <2>1, <2>2
  <2>4. p.line > 0
    BY <1>2, <1>3, <2>2
  <2> QED BY <1>2, <1>4, <2>1, <2>2, <2>3, <2>4 DEF p, raw
<1>7. ASSUME At(e) = "\n" PROVE e \in Nat /\ e <= Len(src)
  <2>1. At(e) # NoByte /\ e \in Int
    BY <1>2, <1>7, NotTheEnd
  <2>2. e \in 0..(Len(src) - 1)
    BY <2>1, SourceFacts
  <2> HIDE DEF e
  <2> QED BY <1>3, <2>2
<1>8. CASE At(e) = "\n" /\ e <= l.start.idx
  <2>1. raw = Front(lines)
    BY <1>5, <1>8
  <2>2. Readable(raw)
    BY <1>4, <1>f, <2>1 DEF Readable
  <2>3. CASE n = 1
    <3>1. raw = <<>> /\ Len(raw) = 0
      BY <1>f, <2>1, <2>3
    <3>2. p = Pos(e, l.end.line - 1, 0)
      BY <3>1 DEF Behind
    <3> HIDE DEF raw
    <3>3. e >= q.idx + 0 - 1
      BY <1>2, <1>3, <2>3
    <3>4. l.end.line - 1 \in Nat
      BY <1>2, <1>3
    <3>5. e \in Nat /\ e <= Len(src) /\ At(e) = "\n"
      BY <1>7, <1>8
    <3> HIDE DEF e, l, p
    <3>6. p \in Place /\ p.idx = e
      BY <3>2, <3>4, <3>5 DEF Pos, Place
    <3> QED BY <2>2, <3>1, <3>3, <3>5, <3>6 DEF p, raw
  <2>4. CASE n # 1
    <3>1. n - 1 \in 1..n /\ n - 1 \in 1..(n - 1) /\ n - 1 \in Nat
      <4> HIDE DEF n
      <4> QED BY <1>1, <2>4
    <3>2. Last(raw) = lines[n - 1] /\ raw # <<>> /\ Len(raw) = n - 1
      BY <1>f, <2>1, <3>1 DEF Last
    <3> HIDE DEF raw
    <3>3. p = lines[n - 1].end
      BY <3>2 DEF Behind
    <3>4. lines[n - 1].end = lines[n].start /\ (n - 1) + 1 = n
      BY <1>1, <3>1 DEF LinesFrom
    <3>5. lines[n].start.line >= q.line
      BY <1>1 DEF LinesFrom
    <3>6. p = l.start
      BY <1>1, <3>3, <3>4
    <3>7. p.line > 0
      <4>1. l.start.line >= q.line
        BY <1>1, <3>5
      <4>2. l.start.line \in Nat
        BY <1>2 DEF Place
      <4> QED BY <1>3, <3>6, <4>1, <4>2
    <3> HIDE DEF p, l
    <3>8. p.idx >= q.idx + Len(raw) - 1
      BY <1>1, <1>2, <1>3, <3>1, <3>2, <3>6
    <3> QED BY <1>2, <2>2, <3>6, <3>7, <3>8 DEF p, raw
  <2> QED BY <2>3, <2>4
<1>9. CASE At(e) = "\n" /\ ~(e <= l.start.idx)
  <2>1. raw = Append(Front(lines), cutline)
    BY <1>5, <1>9
  <2>2. e \in Nat /\ e <= Len(src) /\ At(e) = "\n" /\ e > l.start.idx
    BY <1>2, <1>7, <1>9
  <2>3. l.end.line - 1 \in Nat
    BY <1>2, <1>3
  <2>4. Width(l.start.idx, e) \in Nat
    BY <1>2, <2>2, WidthFacts
  <2> DEFINE c == l.start.col + Width(l.start.idx, e)
             end == Pos(e, l.end.line - 1, c)
  <2>5. c \in Nat
    BY <1>3, <2>4
  <2>6. end \in Place /\ end.idx = e
    <3> HIDE DEF c, e, l
    <3> QED BY <2>2, <2>3, <2>5 DEF Pos, Place
  <2>7. cutline = [l EXCEPT !.end = end]
    OBVIOUS
  <2> HIDE DEF end, l
  <2>8. cutline \in Lines_ /\ cutline.end = end
    BY <1>2, <2>6, <2>7 DEF Lines_
  <2> HIDE DEF cutline, raw, Lines_
  <2>9. raw \in Seq(Lines_) /\ Len(raw) = n /\ Last(raw) = cutline /\ raw # <<>>
        /\ \A k \in 1..n : (k \in 1..(n - 1) /\ raw[k] = lines[k]) \/ (k = n /\ raw[k] = cutline)
    <3>1. Len(Front(lines)) \in Nat /\ Front(lines) \in Seq(Lines_) /\ cutline \in Lines_
      BY <1>1, <1>f, <2>8
    <3>2. raw \in Seq(Lines_) /\ Len(raw) = Len(Front(lines)) + 1
      BY <2>1, <3>1
    <3>3. Len(raw) = n
      BY <1>1, <1>f, <3>2
    <3>4. raw[n] = cutline
      BY <1>1, <1>f, <2>1, <3>1
    <3>5. \A k \in 1..(n - 1) : raw[k] = lines[k]
      BY <1>1, <1>f, <2>1, <3>1
    <3>6. \A k \in 1..n : k \in 1..(n - 1) \/ k = n
      BY <1>1
    <3>7. raw # <<>>
      BY <1>1, <3>3
    <3> QED BY <3>2, <3>3, <3>4, <3>5, <3>6, <3>7 DEF Last
  <2>10. p = end
    BY <2>8, <2>9 DEF Behind
  <2> HIDE DEF p, e
  <2>11. p.idx >= q.idx + Len(raw) - 1
    BY <1>1, <1>2, <1>3, <2>2, <2>6, <2>9, <2>10
  <2>12. ASSUME NEW k \in 1..n PROVE raw[k].end.idx <= Len(src)
    <3>1. CASE k = n
      BY <2>2, <2>6, <2>8, <2>9, <3>1
    <3>2. CASE k \in 1..(n - 1)
      BY <1>4, <1>f, <2>9, <3>2 DEF Readable
    <3> QED BY <2>9, <3>1, <3>2
  <2>13. Readable(raw)
    BY <2>9, <2>12 DEF Readable
  <2> QED BY <2>2, <2>6, <2>10, <2>11, <2>13 DEF p, raw
<1> QED BY <1>6, <1>8, <1>9

\* Of a line, no more than its indentation is left out.
LEMMA SkipFacts ==
  ASSUME NEW l \in Lines_, NEW inline \in BOOLEAN, NEW level \in Nat
  PROVE  LET skip == IF l.blank THEN 0 ELSE IF inline THEN l.indent ELSE Min({level, l.indent})
         IN skip \in Nat /\ skip <= l.indent /\ (l.blank => skip = 0)
<1>1. l.indent \in Nat /\ l.blank \in BOOLEAN
  BY DEF Lines_
<1>2. Min({level, l.indent}) \in Nat /\ Min({level, l.indent}) <= l.indent
  BY <1>1, LeastOfTwo
<1> QED BY <1>1, <1>2

LEMMA BlockTextKeeps == LexInv /\ BlockText => LexInv'
<1> SUFFICES ASSUME LexInv, BlockText PROVE LexInv'
  OBVIOUS
<1> DEFINE sameLine == pos.col > 0
           lines == BlockLines(pos, Top.floor)
           interp == InterpAt(Last(lines).end.idx)
           raw == IF interp THEN lines ELSE Trimmed(lines)
           Inline(k) == k = 1 /\ sameLine
           level == StripLevel({raw[k].indent : k \in {m \in DOMAIN raw : ~raw[m].blank /\ ~Inline(m)}})
           skip(k) == IF raw[k].blank THEN 0 ELSE IF Inline(k) THEN raw[k].indent
                      ELSE Min({level, raw[k].indent})
           from == [k \in DOMAIN raw |-> Content(raw[k], skip(k), TRUE)]
           texts == Pieces("StrText", raw, from)
           p == Behind(lines, raw)
           n == Len(raw)
           e == Mark("StrEnd", p)
<1>1. /\ Reading /\ Top.m = "StrBlock" /\ ~InterpAt(pos.idx)
      /\ UNCHANGED <<src, ind, started, panicked>>
      /\ \/ /\ mode' = Front(mode) /\ Give(Mark("Err", pos))
            /\ pending' = <<Mark("StrEnd", pos)>> /\ UNCHANGED pos
         \/ /\ ~Overrun(lines) /\ pos' = p
            /\ mode' = IF interp THEN mode ELSE Front(mode)
            /\ Queue(IF interp THEN texts ELSE Append(texts, e))
  BY DEF BlockText, ReadBlock, Behind
<1>2. /\ src \in Sources /\ Len(src) \in Nat /\ pos \in Place /\ pos.idx \in Nat /\ pos.idx <= Len(src)
      /\ pos.line \in Nat /\ pos.line > 0 /\ Owed(mode) \in Int /\ ModeStack(mode) /\ toks \in Seq(Tokens_)
  BY <1>1, InvFacts DEF TextModes
<1>3. "StrText" \in Other /\ "StrEnd" \in Other /\ "Err" \in Other
      /\ "StrText" \in Kinds /\ "StrEnd" \in Kinds /\ "Err" \in Kinds
  BY DEF Other, Kinds
<1>4. ASSUME mode' = Front(mode)
      PROVE  /\ ModeStack(mode') /\ Owed(mode') \in Int /\ Owed(mode') = Owed(mode) - 5
             /\ Last(mode').m \notin TextModes
  <2>1. Top.m # "Block" /\ Top.m # "StrExpr"
    BY <1>1
  <2> QED BY <1>1, <1>4, <2>1, Left
<1>5. CASE /\ mode' = Front(mode) /\ Give(Mark("Err", pos))
           /\ pending' = <<Mark("StrEnd", pos)>> /\ UNCHANGED pos
  <2> DEFINE t == Mark("Err", pos)
             f == Mark("StrEnd", pos)
             u == <<t>> \o <<f>>
  <2>1. t \in Tokens_ /\ t.kind \in Other /\ f \in Tokens_ /\ f.kind \in Other
    BY <1>2, <1>3, TokenFacts
  <2>2. Give(t) /\ pending' = <<f>>
    BY <1>5
  <2> HIDE DEF t, f
  <2>3. <<f>> \in Seq(Tokens_)
    BY <2>1, OneOther
  <2>4. Adds(u)
    BY <1>2, <2>1, <2>2, <2>3, GaveFirst
  <2>5. Len(u) = 2 /\ \A k \in 1..Len(u) : u[k].kind \in Other
    <3>1. Len(u) = 2 /\ u[1] = t /\ u[2] = f /\ \A k \in 1..2 : k = 1 \/ k = 2
      OBVIOUS
    <3> HIDE DEF u
    <3> QED BY <2>1, <3>1
  <2>6. pos' = pos /\ Counted'
    BY <1>2, <1>5 DEF Counted
  <2>7. Len(u) + Owed(mode') - 3 * pos'.idx <= Owed(mode) - 3 * pos.idx
    <3> DEFINE c == Owed(mode)  i == pos.idx
    <3>1. c \in Int /\ i \in Nat /\ Owed(mode') = c - 5
      BY <1>2, <1>4, <1>5
    <3> HIDE DEF c, i
    <3>2. 2 + (c - 5) - 3 * i <= c - 3 * i
      BY <3>1
    <3> USE DEF i, c
    <3> QED BY <2>5, <2>6, <3>1, <3>2
  <2> HIDE DEF LexInv, Reading, Counted, u
  <2> QED BY <1>1, <1>2, <1>4, <1>5, <2>4, <2>5, <2>6, <2>7, SeveralStep
<1>6. CASE /\ ~Overrun(lines) /\ pos' = p
           /\ mode' = IF interp THEN mode ELSE Front(mode)
           /\ Queue(IF interp THEN texts ELSE Append(texts, e))
  <2>1. LinesFrom(pos, lines) /\ Last(lines).end.idx <= Len(src)
    <3>1. LinesFrom(pos, lines)
      BY <1>2, BlockLinesFacts
    <3>2. ~(Last(lines).end.idx > Len(src))
      BY <1>6 DEF Overrun
    <3> HIDE DEF lines
    <3>3. Len(lines) \in 1..Len(lines) /\ Last(lines) = lines[Len(lines)]
      BY <3>1 DEF LinesFrom, Last
    <3>4. Last(lines).end.idx \in Nat
      BY <1>2, <3>1, <3>3, LineTypes
    <3> QED BY <1>2, <3>1, <3>2, <3>4
  <2> HIDE DEF lines
  <2>l. Len(lines) \in Nat \ {0} /\ Last(lines) = lines[Len(lines)] /\ Len(lines) \in 1..Len(lines) /\ lines # <<>>
    BY <2>1 DEF LinesFrom, Last
  <2>2. /\ Readable(raw) /\ p \in Place /\ p.idx <= Len(src) /\ p.idx >= pos.idx + Len(raw) - 1
        /\ p.line > 0 \/ (At(p.idx) = "\n" /\ ~interp)
        /\ interp => p = Last(lines).end /\ Len(raw) > 0
    <3>1. CASE interp
      <4>1. raw = lines /\ Readable(lines)
        BY <1>2, <2>1, <3>1, ReadableLines
      <4>2. p = lines[Len(lines)].end
        BY <2>l, <4>1 DEF Behind
      <4>3. /\ lines[Len(lines)].end \in Place /\ lines[Len(lines)].start.idx >= pos.idx + Len(lines) - 1
            /\ lines[Len(lines)].start.idx <= lines[Len(lines)].end.idx
            /\ lines[Len(lines)].end.line >= pos.line /\ lines[Len(lines)].start.idx \in Nat
        BY <1>2, <2>1, <2>l, LineTypes DEF LinesFrom
      <4>4. p \in Place /\ p.idx >= lines[Len(lines)].start.idx /\ p.line >= pos.line /\ p.idx <= Len(src)
        BY <2>1, <2>l, <4>2, <4>3
      <4>5. p.idx \in Nat /\ p.line \in Nat
        BY <4>4 DEF Place
      <4> HIDE DEF p, raw, interp
      <4>6. p.idx >= pos.idx + Len(raw) - 1 /\ p.line > 0 /\ Len(raw) > 0
        BY <1>2, <2>l, <4>1, <4>3, <4>4, <4>5
      <4> QED BY <2>l, <4>1, <4>2, <4>4, <4>6
    <3>2. CASE ~interp
      <4>1. raw = Trimmed(lines)
        BY <3>2
      <4> HIDE DEF raw, interp
      <4> QED BY <1>2, <2>1, <3>2, <4>1, TrimmedFacts
    <3> QED BY <3>1, <3>2
  <2> HIDE DEF raw
  <2>3. n \in Nat /\ DOMAIN raw = 1..n /\ \A k \in 1..n : raw[k] \in Lines_ /\ raw[k].end.idx <= Len(src)
    <3> HIDE DEF Lines_
    <3> QED BY <2>2 DEF Readable
  <2>4. \A k \in 1..n : raw[k].end \in Place /\ raw[k].start \in Place /\ raw[k].indent \in Nat
                        /\ raw[k].blank \in BOOLEAN
    BY <2>3 DEF Lines_
  <2>5. level \in Nat
    <3> DEFINE S == {raw[k].indent : k \in {m \in DOMAIN raw : ~raw[m].blank /\ ~Inline(m)}}
    <3>1. S \subseteq Nat
      BY <2>3, <2>4
    <3> HIDE DEF S
    <3>2. StripLevel(S) \in Nat
      BY <3>1, LevelFacts
    <3> QED BY <3>2 DEF S
  <2> HIDE DEF level
  <2>6. \A k \in 1..n : skip(k) \in Nat /\ skip(k) <= raw[k].indent /\ (raw[k].blank => skip(k) = 0)
    <3> TAKE k \in 1..n
    <3>1. raw[k] \in Lines_ /\ Inline(k) \in BOOLEAN
      BY <2>3
    <3> HIDE DEF Inline, Lines_
    <3> QED BY <2>5, <3>1, SkipFacts
  <2> HIDE DEF skip
  <2>7. \A k \in 1..n : from[k] \in Place /\ from[k].idx = raw[k].start.idx + skip(k)
    <3> TAKE k \in 1..n
    <3>1. from[k] = Content(raw[k], skip(k), TRUE)
      BY <2>3
    <3> HIDE DEF from
    <3> QED BY <2>4, <2>6, <3>1, ContentFacts
  <2> HIDE DEF from
  <2>8. /\ texts \in Seq(Tokens_) /\ Len(texts) <= n /\ \A k \in 1..Len(texts) : texts[k].kind = "StrText"
        /\ (\E k \in 1..n : from[k].idx # raw[k].end.idx) => texts # <<>>
    BY <1>2, <1>3, <2>3, <2>4, <2>7, PiecesFacts
  <2>9. e \in Tokens_ /\ e.kind \in Other
    <3> HIDE DEF p
    <3> QED BY <1>2, <1>3, <2>2, TokenFacts
  <2>10. p.idx \in Nat
    BY <2>2 DEF Place
  <2>11. Len(texts) \in Nat
    BY <2>8
  <2> DEFINE u == IF interp THEN texts ELSE texts \o <<e>>
  <2> HIDE DEF texts, e
  <2>12. /\ u \in Seq(Tokens_) /\ Len(u) = Len(texts) + (IF interp THEN 0 ELSE 1)
         /\ \A k \in 1..Len(u) : u[k].kind \in Other
         /\ u = IF interp THEN texts ELSE Append(texts, e)
    <3>1. CASE interp
      <4>1. u = texts
        BY <3>1
      <4> HIDE DEF interp, u
      <4> QED BY <1>3, <2>8, <2>11, <3>1, <4>1
    <3>2. CASE ~interp
      <4>1. u = texts \o <<e>>
        BY <3>2
      <4> HIDE DEF interp, u
      <4>2. Append(texts, e) = u /\ u \in Seq(Tokens_) /\ Len(u) = Len(texts) + 1
        <5> HIDE DEF Tokens_
        <5> QED BY <2>8, <2>9, <4>1
      <4>3. ASSUME NEW k \in 1..Len(u) PROVE u[k].kind \in Other
        <5>1. CASE k = Len(texts) + 1
          <6> HIDE DEF Tokens_
          <6>1. u[k] = e
            BY <2>8, <2>9, <2>11, <4>1, <5>1
          <6> QED BY <2>9, <6>1
        <5>2. CASE k # Len(texts) + 1
          <6> HIDE DEF Tokens_
          <6>1. k \in 1..Len(texts)
            BY <2>11, <4>2, <5>2
          <6>2. u[k] = texts[k]
            BY <2>8, <2>9, <4>1, <6>1
          <6> QED BY <1>3, <2>8, <6>1, <6>2
        <5> QED BY <5>1, <5>2
      <4> QED BY <3>2, <4>2, <4>3
    <3> QED BY <3>1, <3>2
  <2>13. ASSUME interp PROVE texts # <<>> /\ p.idx > pos.idx
    <3>1. raw = lines /\ p = Last(lines).end /\ InterpAt(p.idx) /\ 1 \in 1..n
      BY <2>2, <2>3, <2>13 DEF raw
    <3>2. p.idx # pos.idx
      BY <1>1, <3>1
    <3> HIDE DEF p
    <3>3. p.idx > pos.idx
      BY <1>2, <2>2, <2>3, <2>10, <3>1, <3>2
    <3>4. lines[1].start = pos
      BY <2>1 DEF LinesFrom
    <3>5. from[1].idx = pos.idx + skip(1) /\ skip(1) \in Nat /\ skip(1) <= raw[1].indent
          /\ (raw[1].blank => skip(1) = 0)
      BY <2>6, <2>7, <3>1, <3>4
    <3>6. raw[1].end.idx \in Nat /\ raw[1].indent \in Nat
      BY <2>4, <3>1 DEF Place
    <3>7. CASE ~raw[1].blank
      <4>1. pos.idx + raw[1].indent < raw[1].end.idx
        BY <2>1, <3>1, <3>4, <3>7 DEF LinesFrom
      <4>2. from[1].idx # raw[1].end.idx
        BY <1>2, <3>5, <3>6, <4>1
      <4> QED BY <2>8, <3>1, <3>3, <4>2
    <3>8. CASE raw[1].blank
      <4>1. from[1].idx = pos.idx
        BY <1>2, <3>5, <3>8
      <4>2. raw[1].end.idx # pos.idx
        <5>1. CASE n = 1
          BY <2>l, <3>1, <3>2, <5>1
        <5>2. CASE n # 1
          <6>1. 1 \in 1..(Len(lines) - 1)
            BY <2>3, <3>1, <5>2
          <6>2. lines[1].start.idx < lines[1].end.idx
            BY <2>1, <6>1 DEF LinesFrom
          <6> QED BY <1>2, <3>1, <3>4, <3>6, <6>2
        <5> QED BY <5>1, <5>2
      <4> QED BY <2>8, <3>1, <3>3, <4>1, <4>2
    <3> QED BY <3>7, <3>8
  <2> HIDE DEF p, interp, u
  <2>14. u # <<>>
    <3>1. CASE interp
      BY <2>12, <2>13, <3>1
    <3>2. CASE ~interp
      BY <2>11, <2>12, <3>2
    <3> QED BY <3>1, <3>2
  <2>15. Adds(u)
    BY <1>2, <1>6, <2>12, <2>14, GaveAll
  <2>16. /\ ModeStack(mode') /\ Owed(mode') \in Int /\ Owed(mode') = Owed(mode) - (IF interp THEN 0 ELSE 5)
         /\ (~interp => Last(mode').m \notin TextModes)
    <3>1. CASE interp
      BY <1>2, <1>6, <3>1
    <3>2. CASE ~interp
      BY <1>4, <1>6, <3>2
    <3> QED BY <3>1, <3>2
  <2>17. pos' = p /\ Counted'
    <3>1. pos' = p /\ src' = src
      BY <1>1, <1>6
    <3>2. At(p.idx) = "\n" => (At(pos.idx) = "\n")'
      BY <3>1 DEF At
    <3>3. (Top.m \in TextModes)' => interp
      BY <2>16 DEF Top, TextModes
    <3> QED BY <2>2, <3>1, <3>2, <3>3 DEF Counted
  <2>18. Len(u) + Owed(mode') - 3 * pos'.idx <= Owed(mode) - 3 * pos.idx
    <3> DEFINE x == Len(texts)  v == Owed(mode)  i == pos.idx  j == p.idx
    <3>1. x \in Nat /\ v \in Int /\ i \in Nat /\ j \in Nat /\ j >= i + n - 1 /\ n \in Nat /\ x <= n
          /\ (interp => j > i)
      BY <1>2, <2>2, <2>3, <2>8, <2>10, <2>11, <2>13
    <3>2. CASE interp
      <4>1. Len(u) = x /\ Owed(mode') = v
        BY <1>2, <2>11, <2>12, <2>16, <3>2
      <4> HIDE DEF x, v, i, j, n
      <4>2. x + v - 3 * j <= v - 3 * i
        BY <3>1, <3>2
      <4> USE DEF v, i, j
      <4> QED BY <2>17, <4>1, <4>2
    <3>3. CASE ~interp
      <4>1. Len(u) = x + 1 /\ Owed(mode') = v - 5
        BY <2>12, <2>16, <3>3
      <4> HIDE DEF x, v, i, j, n
      <4>2. (x + 1) + (v - 5) - 3 * j <= v - 3 * i
        BY <3>1
      <4> USE DEF v, i, j
      <4> QED BY <2>17, <4>1, <4>2
    <3> QED BY <3>2, <3>3
  <2> HIDE DEF LexInv, Reading, Counted, Tokens_
  <2> QED BY <1>1, <2>2, <2>12, <2>15, <2>16, <2>17, <2>18, SeveralStep
<1> QED BY <1>1, <1>5, <1>6

-----------------------------------------------------------------------------
(* The theorems *)

LEMMA LexInitHolds == LexInit => LexInv
<1> SUFFICES ASSUME LexInit PROVE LexInv
  OBVIOUS
<1>1. /\ src \in Sources /\ pos = Pos(0, 1, 0) /\ mode = <<Block>> /\ ind = <<0, 0>> /\ started = FALSE
      /\ pending = <<>> /\ toks = <<>> /\ panicked = FALSE
  BY DEF LexInit
<1>2. pos \in Place /\ pos.idx = 0 /\ pos.line = 1 /\ Len(src) \in Nat /\ pos.idx <= Len(src)
  BY <1>1, SourceFacts DEF Pos, Place
<1>3. /\ ModeStack(mode) /\ Len(mode) = 1 /\ BlockStrings(mode) = 0 /\ Owed(mode) = 2
  <2>1. mode \in Seq(Modes) /\ Len(mode) = 1 /\ mode[1] = Block /\ Block.m = "Block"
    BY <1>1 DEF Modes, Block
  <2>2. {k \in 1..Len(mode) : mode[k].m = "StrBlock"} = {}
    BY <2>1
  <2>3. BlockStrings(mode) = 0
    BY <2>2, FS_EmptySet DEF BlockStrings
  <2> QED BY <2>1, <2>3 DEF ModeStack, Owed
<1>4. Stack(ind) /\ Len(ind) = 2
  BY <1>1 DEF Stack
<1>5. Made = <<>> /\ toks \in Seq(Tokens_) /\ pending \in Seq(Tokens_) /\ Len(Made) = 0
  <2> HIDE DEF Tokens_
  <2> QED BY <1>1 DEF Made
<1>6. Typed
  <2>1. Counted
    BY <1>2 DEF Counted
  <2>2. started \in BOOLEAN /\ panicked \in BOOLEAN
    BY <1>1
  <2> HIDE DEF Tokens_, Counted, Place
  <2> QED BY <1>1, <1>2, <1>3, <1>4, <1>5, <2>1, <2>2 DEF Typed
<1>7. Balanced
  <2>1. \A kind : Num(kind, Made, 0) = 0
    BY NumZero
  <2>2. Nested(Made) /\ Depth(Made) = 0
    <3>1. \A n \in 0..Len(Made) : n = 0
      BY <1>5
    <3> QED BY <1>5, <2>1, <3>1 DEF Nested, Depth
  <2> QED BY <1>1, <1>4, <2>2 DEF Balanced
<1>8. EndsOnce /\ Fresh
  BY <1>1, <1>5 DEF EndsOnce, Fresh
<1>9. Paid
  <2>1. ~Done
    BY <1>1 DEF Done
  <2> QED BY <1>1, <1>2, <1>3, <1>4, <1>5, <2>1 DEF Paid
<1> QED BY <1>6, <1>7, <1>8, <1>9 DEF LexInv

LEMMA LexStepKeeps == LexInv /\ [Scan]_lexVars => LexInv'
<1> SUFFICES ASSUME LexInv, [Scan]_lexVars PROVE LexInv'
  OBVIOUS
<1>1. CASE UNCHANGED lexVars
  <2>1. UNCHANGED <<src, pos, mode, ind, started, pending, toks>> /\ panicked' = panicked
    BY <1>1 DEF lexVars
  <2>2. panicked' \in BOOLEAN
    BY <2>1 DEF LexInv, Typed
  <2> HIDE DEF LexInv
  <2> QED BY <2>1, <2>2, SameKeeps
<1> HIDE DEF LexInv
<1>2. CASE Drain \/ Start \/ Newline \/ Blank \/ AtEnd
  BY <1>2, DrainKeeps, StartKeeps, NewlineKeeps, BlankKeeps, AtEndKeeps
<1>3. CASE Open \/ Close \/ Punct \/ Number \/ Ident \/ Op
  BY <1>3, OpenKeeps, CloseKeeps, PunctKeeps, NumberKeeps, IdentKeeps, OpKeeps
<1>4. CASE LineComment \/ BlockComment \/ OpenString \/ OpenBlockString \/ OpenInterp \/ CloseInterp
           \/ CloseString
  BY <1>4, LineCommentKeeps, BlockCommentKeeps, OpenStringKeeps, OpenBlockStringKeeps, OpenInterpKeeps,
     CloseInterpKeeps, CloseStringKeeps
<1>5. CASE StringText \/ BlockText \/ Panic
  BY <1>5, StringTextKeeps, BlockTextKeeps, PanicKeeps
<1> QED BY <1>1, <1>2, <1>3, <1>4, <1>5 DEF Scan

THEOREM LexInvHolds == LexSpec => []LexInv
<1>1. LexInit => LexInv
  BY LexInitHolds
<1>2. LexInv /\ [Scan]_lexVars => LexInv'
  BY LexStepKeeps
<1> QED BY <1>1, <1>2, PTL DEF LexSpec

\* For every text and every set of operators: the position stays in the text, the modes
\* and the stack of indentations keep their shape, whatever the text lacks (next_token,
\* push_block_ends and the three scanners of text).
THEOREM LexerTyped == LexSpec => []LexTypeOK
<1>1. LexInv => LexTypeOK
  <2> SUFFICES ASSUME LexInv PROVE LexTypeOK
    OBVIOUS
  <2>1. /\ pos \in Place /\ pos.idx <= Len(src) /\ ModeStack(mode) /\ Stack(ind) /\ src \in Sources
        /\ started \in BOOLEAN /\ panicked \in BOOLEAN
    BY DEF LexInv, Typed
  <2>2. pos.idx \in 0..Len(src) /\ pos.line \in Nat /\ pos.col \in Nat
    BY <2>1, SourceFacts DEF Place
  <2>3. mode \in Seq(Modes) /\ mode[1] = Block /\ DOMAIN mode = 1..Len(mode)
    BY <2>1 DEF ModeStack
  <2>4. \A m \in Modes : m.m \in {"Block", "Bracket", "StrText", "StrExpr", "StrBlock"}
    BY DEF Modes, Block, StrText, StrExpr
  <2>5. \A k \in DOMAIN mode : mode[k].m \in {"Block", "Bracket", "StrText", "StrExpr", "StrBlock"}
    <3>1. \A k \in DOMAIN mode : mode[k] \in Modes
      BY <2>3
    <3> HIDE DEF Modes
    <3> QED BY <2>4, <3>1
  <2>6. ind[1] = 0 /\ \A k \in 2..Len(ind) : ind[k - 1] <= ind[k]
    BY <2>1 DEF Stack
  <2> QED BY <2>1, <2>2, <2>3, <2>5, <2>6 DEF LexTypeOK
<1> QED BY <1>1, LexInvHolds, PTL

\* For every text: a block is ended only if it was started, and when the end of the text
\* is handed out each block has been ended, however the text is indented and whichever of
\* its brackets, strings and comments are left open.
THEOREM BlocksAlwaysBalance == LexSpec => []BlocksBalance
<1>1. LexInv => BlocksBalance
  <2> SUFFICES ASSUME LexInv PROVE BlocksBalance
    OBVIOUS
  <2>1. /\ toks \in Seq(Tokens_) /\ pending \in Seq(Tokens_) /\ Nested(Made)
        /\ Depth(Made) = Len(ind) - (IF started THEN 1 ELSE 2)
    BY DEF LexInv, Typed, Balanced
  <2> HIDE DEF Tokens_
  <2>2. /\ Len(toks) \in Nat /\ Len(Made) \in Nat /\ Len(toks) <= Len(Made)
        /\ \A k \in 1..Len(toks) : Made[k] = toks[k]
    BY <2>1 DEF Made
  <2>3. ASSUME NEW kind, NEW n \in 0..Len(toks) PROVE Blocks(kind, n) = Num(kind, Made, n)
    <3>1. {k \in 1..n : toks[k].kind = kind} = {k \in 1..n : Made[k].kind = kind}
      <4>1. \A k \in 1..n : Made[k] = toks[k]
        BY <2>2
      <4> QED BY <4>1
    <3> QED BY <3>1 DEF Blocks, Num
  <2>4. \A n \in DOMAIN toks : Blocks("BlockEnd", n) <= Blocks("BlockStart", n)
    <3> TAKE n \in DOMAIN toks
    <3>1. n \in 0..Len(toks) /\ n \in 0..Len(Made)
      BY <2>1, <2>2
    <3>2. Num("BlockEnd", Made, n) <= Num("BlockStart", Made, n)
      BY <2>1, <3>1 DEF Nested
    <3> QED BY <2>3, <3>1, <3>2
  <2>5. ASSUME Done PROVE Blocks("BlockEnd", Len(toks)) = Blocks("BlockStart", Len(toks))
    <3>1. toks # <<>> /\ toks[Len(toks)].kind = "EOF"
      BY <2>5 DEF Done, Last
    <3>2. Len(toks) \in 1..Len(Made) /\ Made[Len(toks)].kind = "EOF" /\ Len(toks) \in 0..Len(toks)
      BY <2>1, <2>2, <3>1
    <3>3. Len(toks) = Len(Made) /\ Len(ind) = 1
      BY <3>2 DEF LexInv, EndsOnce
    <3>4. started
      BY <3>1 DEF LexInv, Fresh
    <3>5. Num("BlockStart", Made, Len(Made)) - Num("BlockEnd", Made, Len(Made)) = 0
      BY <2>1, <3>3, <3>4 DEF Depth
    <3>6. Num("BlockStart", Made, Len(Made)) \in Nat /\ Num("BlockEnd", Made, Len(Made)) \in Nat
      BY <2>2, NumStep
    <3>7. Num("BlockStart", Made, Len(Made)) = Num("BlockEnd", Made, Len(Made))
      BY <3>5, <3>6
    <3> QED BY <2>3, <3>2, <3>3, <3>7
  <2> QED BY <2>4, <2>5 DEF BlocksBalance
<1> QED BY <1>1, LexInvHolds, PTL

\* For every text: the tokens are at most three a byte and four more, so no text makes
\* the lexer hand out tokens for ever.
THEOREM TokensAreBounded == LexSpec => []TokensBounded
<1>1. LexInv => TokensBounded
  <2> SUFFICES ASSUME LexInv PROVE TokensBounded
    OBVIOUS
  <2>1. /\ toks \in Seq(Tokens_) /\ pending \in Seq(Tokens_) /\ Paid /\ ModeStack(mode)
        /\ src \in Sources /\ pos.idx <= Len(src) /\ pos.idx \in Nat /\ Len(src) \in Nat
        /\ Len(ind) \in Nat \ {0}
    BY InvFacts DEF LexInv, Typed
  <2> HIDE DEF Tokens_
  <2>2. Len(toks) \in Nat /\ Len(Made) \in Nat /\ Len(toks) <= Len(Made)
    BY <2>1 DEF Made
  <2>3. Owed(mode) \in Int /\ Owed(mode) >= 2
    <3>1. Len(mode) \in Nat \ {0}
      BY <2>1, ModeFacts
    <3>2. {k \in 1..Len(mode) : mode[k].m = "StrBlock"} \subseteq 0..Len(mode)
      BY <3>1
    <3>3. BlockStrings(mode) \in Nat
      BY <3>1, <3>2, CountRange DEF BlockStrings
    <3> QED BY <3>1, <3>3 DEF Owed
  <2>4. Len(Made) + Len(ind) + Owed(mode)
          <= 3 * pos.idx + (IF started THEN 5 ELSE 4) + (IF Done THEN 1 ELSE 0)
    BY <2>1 DEF Paid
  <2> DEFINE a == Len(toks)  b == Len(Made)  m == Len(ind)  c == Owed(mode)  i == pos.idx  n == Len(src)
             s == IF started THEN 5 ELSE 4
             d == IF Done THEN 1 ELSE 0
  <2>5. /\ a \in Nat /\ b \in Nat /\ m \in Nat /\ m >= 1 /\ c \in Int /\ c >= 2 /\ i \in Nat /\ n \in Nat
        /\ a <= b /\ i <= n /\ s \in {4, 5} /\ d \in {0, 1} /\ b + m + c <= 3 * i + s + d
    BY <2>1, <2>2, <2>3, <2>4
  <2> HIDE DEF a, b, m, c, i, n, s, d
  <2>6. a <= 3 * n + 4
    BY <2>5
  <2> USE DEF a, n
  <2> QED BY <2>6 DEF TokensBounded
<1> QED BY <1>1, LexInvHolds, PTL

-----------------------------------------------------------------------------
(* Tokens that take a text: what lies between them. Nothing is read twice, and
   nothing but white space is left out. *)

\* The tokens u take the text from i to j: up to the first error each stands behind the one
\* before it, and what is between two of them, in front of the first and behind the last, is white.
LeftOf(i, u, k) == IF k = 1 THEN i ELSE u[k - 1].end.idx
RightOf(u, j, k) == IF k = Len(u) + 1 THEN j ELSE u[k].start.idx
NoErr(u, k) == \A m \in 1..Len(u) : m <= k => u[m].kind # "Err"
Gap(i, j) == i <= j /\ White(i, j)
Tiles(i, u, j) ==
  \A k \in 1..(Len(u) + 1) : NoErr(u, k) =>
    /\ Gap(LeftOf(i, u, k), RightOf(u, j, k))
    /\ k <= Len(u) => u[k].start.idx <= u[k].end.idx

\* A block string at the end of the text may step back to the newline before it: no token has it.
BackStep ==
  Top.m = "StrBlock" /\ At(pos.idx - 1) = "\n" /\ ~InterpAt(pos.idx) /\ NoErr(Made, Len(Made))
    => started /\ LeftOf(0, Made, Len(Made) + 1) < pos.idx

TileInv == Tiles(0, Made, pos.idx) /\ BackStep

LEMMA GapSame == \A i \in Nat : Gap(i, i)
BY DEF Gap, White

LEMMA GapJoins ==
  ASSUME NEW i \in Nat, NEW j \in Nat, NEW l \in Nat, Gap(i, j), Gap(j, l)
  PROVE  Gap(i, l)
<1>1. i <= j /\ j <= l /\ White(i, j) /\ White(j, l)
  BY DEF Gap
<1>2. \A b \in i..(l - 1) : b \in i..(j - 1) \/ b \in j..(l - 1)
  BY <1>1
<1>3. White(i, l)
  BY <1>1, <1>2 DEF White
<1> QED BY <1>1, <1>3 DEF Gap

LEMMA GapShorter ==
  ASSUME NEW i \in Nat, NEW j \in Nat, NEW l \in Nat, Gap(i, l), i <= j, j <= l
  PROVE  Gap(i, j) /\ Gap(j, l)
<1>1. \A b : (b \in i..(j - 1) => b \in i..(l - 1)) /\ (b \in j..(l - 1) => b \in i..(l - 1))
  OBVIOUS
<1>2. White(i, j) /\ White(j, l)
  BY <1>1 DEF Gap, White
<1> QED BY <1>2 DEF Gap

LEMMA TokenPlaces ==
  ASSUME NEW u \in Seq(Tokens_), NEW k \in 1..Len(u)
  PROVE  /\ u[k] \in Tokens_ /\ u[k].start \in Place /\ u[k].end \in Place
         /\ u[k].start.idx \in Nat /\ u[k].end.idx \in Nat /\ Len(u) \in Nat
<1>1. u[k] \in Tokens_ /\ Len(u) \in Nat
  <2> HIDE DEF Tokens_
  <2> QED OBVIOUS
<1>2. u[k].start \in Place /\ u[k].end \in Place
  BY <1>1 DEF Tokens_
<1> QED BY <1>1, <1>2 DEF Place

LEMMA EndTypes ==
  ASSUME NEW u \in Seq(Tokens_), NEW i \in Nat, NEW j \in Nat, NEW k \in 1..(Len(u) + 1)
  PROVE  LeftOf(i, u, k) \in Nat /\ RightOf(u, j, k) \in Nat
<1>1. Len(u) \in Nat
  <2> HIDE DEF Tokens_
  <2> QED OBVIOUS
<1>2. k # 1 => k - 1 \in 1..Len(u)
  BY <1>1
<1>3. k # Len(u) + 1 => k \in 1..Len(u)
  BY <1>1
<1> QED BY <1>2, <1>3, TokenPlaces DEF LeftOf, RightOf

\* No token at all.
LEMMA TilesNone ==
  ASSUME NEW i, NEW j, Gap(i, j)
  PROVE  Tiles(i, <<>>, j)
<1>1. Len(<<>>) = 0 /\ \A k \in 1..(0 + 1) : k = 1 /\ ~(k <= 0)
  OBVIOUS
<1> QED BY <1>1 DEF Tiles, LeftOf, RightOf

LEMMA TilesOne ==
  ASSUME NEW t, NEW i, NEW j, Gap(i, t.start.idx), t.start.idx <= t.end.idx, Gap(t.end.idx, j)
  PROVE  Tiles(i, <<t>>, j)
<1>1. Len(<<t>>) = 1 /\ <<t>>[1] = t /\ \A k \in 1..(1 + 1) : k = 1 \/ (k = 2 /\ k - 1 = 1 /\ ~(k <= 1))
  OBVIOUS
<1> DEFINE u == <<t>>
<1>2. Len(u) = 1 /\ u[1] = t
  BY <1>1
<1> HIDE DEF u
<1>3. Tiles(i, u, j)
  BY <1>1, <1>2 DEF Tiles, LeftOf, RightOf
<1> QED BY <1>3 DEF u

\* Behind an error nothing is owed.
LEMMA TilesError ==
  ASSUME NEW t, NEW i, NEW j, t.kind = "Err"
  PROVE  Tiles(i, <<t>>, j)
<1> DEFINE u == <<t>>
<1>1. Len(u) = 1 /\ u[1] = t /\ 1 \in 1..1 /\ \A k \in 1..(1 + 1) : 1 <= k
  OBVIOUS
<1> HIDE DEF u
<1>2. Tiles(i, u, j)
  BY <1>1 DEF Tiles, NoErr
<1> QED BY <1>2 DEF u

\* Marks at one place take nothing.
LEMMA TilesMarks ==
  ASSUME NEW u \in Seq(Tokens_), NEW i \in Nat,
         \A k \in 1..Len(u) : u[k].start.idx = i /\ u[k].end.idx = i
  PROVE  Tiles(i, u, i)
<1>1. Len(u) \in Nat
  <2> HIDE DEF Tokens_
  <2> QED OBVIOUS
<1>2. \A k \in 1..(Len(u) + 1) : LeftOf(i, u, k) = i /\ RightOf(u, i, k) = i
  <2> TAKE k \in 1..(Len(u) + 1)
  <2>1. k # 1 => k - 1 \in 1..Len(u)
    BY <1>1
  <2>2. k # Len(u) + 1 => k \in 1..Len(u)
    BY <1>1
  <2> QED BY <2>1, <2>2 DEF LeftOf, RightOf
<1>3. \A k \in 1..(Len(u) + 1) : k <= Len(u) => k \in 1..Len(u) /\ u[k].start.idx <= u[k].end.idx
  BY <1>1
<1> QED BY <1>2, <1>3, GapSame DEF Tiles

\* Tokens behind tokens.
LEMMA TilesConcat ==
  ASSUME NEW u \in Seq(Tokens_), NEW v \in Seq(Tokens_), NEW i \in Nat, NEW j \in Nat, NEW l \in Nat,
         Tiles(i, u, j), Tiles(j, v, l)
  PROVE  Tiles(i, u \o v, l)
<1> DEFINE w == u \o v
           n == Len(u)
           m == Len(v)
<1>1. n \in Nat /\ m \in Nat /\ w \in Seq(Tokens_) /\ Len(w) = n + m
  <2> HIDE DEF Tokens_
  <2> QED OBVIOUS
<1>2. /\ \A k \in 1..n : w[k] = u[k]
      /\ \A k \in 1..m : w[n + k] = v[k]
  <2> HIDE DEF Tokens_
  <2> QED OBVIOUS
<1> HIDE DEF w, n, m
<1> SUFFICES ASSUME NEW k \in 1..(Len(w) + 1), NoErr(w, k)
             PROVE  /\ Gap(LeftOf(i, w, k), RightOf(w, l, k))
                    /\ k <= Len(w) => w[k].start.idx <= w[k].end.idx
  BY DEF Tiles, w
<1>3. ASSUME NEW q \in 1..(n + 1), q <= k PROVE NoErr(u, q)
  <2>1. \A x \in 1..Len(u) : x <= q => x \in 1..Len(w) /\ x <= k /\ w[x] = u[x]
    BY <1>1, <1>2, <1>3 DEF n
  <2> QED BY <2>1 DEF NoErr
<1>4. ASSUME NEW q \in 1..(m + 1), n + q <= k PROVE NoErr(v, q)
  <2>1. \A x \in 1..Len(v) : x <= q => n + x \in 1..Len(w) /\ n + x <= k /\ w[n + x] = v[x]
    BY <1>1, <1>2, <1>4 DEF m
  <2> QED BY <2>1 DEF NoErr
<1>5. CASE k <= n
  <2>1. k \in 1..n /\ k \in 1..(n + 1) /\ k <= k /\ k # n + 1 /\ k # n + m + 1
    BY <1>1, <1>5
  <2>2. k # 1 => k - 1 \in 1..n
    BY <1>1, <2>1
  <2>3. LeftOf(i, w, k) = LeftOf(i, u, k)
    BY <1>2, <2>2 DEF LeftOf
  <2>4. RightOf(w, l, k) = RightOf(u, j, k)
    BY <1>1, <1>2, <2>1 DEF RightOf, n
  <2>5. NoErr(u, k)
    BY <1>3, <2>1
  <2> QED BY <1>1, <1>2, <1>5, <2>1, <2>3, <2>4, <2>5 DEF Tiles, n
<1>6. CASE k = n + 1
  <2>1. NoErr(u, n + 1) /\ NoErr(v, 1) /\ n + 1 \in 1..(n + 1) /\ 1 \in 1..(m + 1)
    BY <1>1, <1>3, <1>4, <1>6
  <2>2. Gap(LeftOf(i, u, n + 1), j)
    BY <2>1 DEF Tiles, RightOf, n
  <2>3. Gap(j, RightOf(v, l, 1)) /\ (1 <= m => v[1].start.idx <= v[1].end.idx)
    BY <2>1 DEF Tiles, LeftOf, m
  <2>4. LeftOf(i, w, k) = LeftOf(i, u, n + 1)
    <3>1. (n + 1) - 1 = n /\ (n + 1 # 1 => n \in 1..n)
      BY <1>1
    <3>2. n + 1 # 1 => w[n] = u[n]
      BY <1>2, <3>1
    <3>3. LeftOf(i, w, n + 1) = LeftOf(i, u, n + 1)
      BY <3>1, <3>2, Zenon DEF LeftOf
    <3> QED BY <1>6, <3>3
  <2>5. RightOf(w, l, k) = RightOf(v, l, 1) /\ (1 <= m => w[k] = v[1])
    <3>1. m # 0 => 1 \in 1..m /\ n + 1 # n + m + 1 /\ 1 # m + 1
      BY <1>1
    <3>2. m = 0 => n + 1 = n + m + 1 /\ 1 = m + 1 /\ ~(1 <= m)
      BY <1>1
    <3> QED BY <1>1, <1>2, <1>6, <3>1, <3>2 DEF RightOf, m
  <2>6. LeftOf(i, u, n + 1) \in Nat /\ RightOf(v, l, 1) \in Nat
    BY <2>1, EndTypes DEF n, m
  <2>7. Gap(LeftOf(i, w, k), RightOf(w, l, k))
    BY <2>2, <2>3, <2>4, <2>5, <2>6, GapJoins
  <2>8. k <= Len(w) => 1 <= m
    BY <1>1, <1>6
  <2> QED BY <2>3, <2>5, <2>7, <2>8
<1>7. CASE k > n + 1
  <2> DEFINE q == k - n
  <2>1. q \in 1..(m + 1) /\ q # 1 /\ k = n + q /\ k # 1 /\ (k <= Len(w) <=> q <= m) /\ (k = Len(w) + 1 <=> q = m + 1)
    BY <1>1, <1>7
  <2>2. q - 1 \in 1..m /\ k - 1 = n + (q - 1) /\ (q # m + 1 => q \in 1..m) /\ n + q <= k
    BY <1>1, <1>7
  <2> HIDE DEF q
  <2>3. NoErr(v, q)
    BY <1>4, <2>1, <2>2
  <2>4. LeftOf(i, w, k) = LeftOf(j, v, q)
    BY <1>2, <2>1, <2>2 DEF LeftOf
  <2>5. RightOf(w, l, k) = RightOf(v, l, q)
    BY <1>2, <2>1, <2>2 DEF RightOf, m
  <2>6. q <= m => w[k] = v[q]
    BY <1>1, <1>2, <2>1, <2>2
  <2> QED BY <2>1, <2>3, <2>4, <2>5, <2>6 DEF Tiles, m
<1> QED BY <1>1, <1>5, <1>6, <1>7

-----------------------------------------------------------------------------
(* A step that hands out or buffers the tokens u *)

LEMMA TileStepFrom ==
  ASSUME LexInv, Reading, NEW i \in Nat, Tiles(0, Made, i), UNCHANGED src, NEW u, Adds(u),
         pos'.idx \in Nat, Tiles(i, u, pos'.idx), BackStep'
  PROVE  TileInv'
<1>1. toks \in Seq(Tokens_) /\ Made = toks
  BY NoEnd
<1>2. u \in Seq(Tokens_) /\ Made' = toks \o u
  BY DEF Adds
<1>3. Tiles(0, Made', pos'.idx)
  BY <1>1, <1>2, TilesConcat
<1>4. Tiles(0, Made, pos.idx)'
  <2>1. \A b : At(b)' = At(b)
    BY DEF At
  <2>2. \A a, b : White(a, b)' = White(a, b)
    BY <2>1 DEF White
  <2>3. \A a, b : Gap(a, b)' = Gap(a, b)
    BY <2>2 DEF Gap
  <2>4. \A k : /\ LeftOf(0, Made, k)' = LeftOf(0, Made', k) /\ RightOf(Made, pos.idx, k)' = RightOf(Made', pos'.idx, k)
               /\ NoErr(Made, k)' = NoErr(Made', k)
    BY DEF LeftOf, RightOf, NoErr
  <2> QED BY <1>3, <2>3, <2>4 DEF Tiles
<1> QED BY <1>4 DEF TileInv

LEMMA TileStep ==
  ASSUME LexInv, Reading, Tiles(0, Made, pos.idx), UNCHANGED src, NEW u, Adds(u),
         pos'.idx \in Nat, Tiles(pos.idx, u, pos'.idx), BackStep'
  PROVE  TileInv'
<1>1. pos.idx \in Nat
  BY InvFacts
<1> HIDE DEF LexInv, Reading
<1> QED BY <1>1, TileStepFrom

\* In code, or when a text has ended, there is nothing to step back from.
LEMMA TileStepInCode ==
  ASSUME LexInv, Reading, Tiles(0, Made, pos.idx), UNCHANGED src, NEW u, Adds(u),
         pos'.idx \in Nat, Tiles(pos.idx, u, pos'.idx), Last(mode').m # "StrBlock"
  PROVE  TileInv'
<1>1. BackStep'
  BY DEF BackStep, Top
<1> QED BY <1>1, TileStep

\* A step that hands out the bytes up to j as one token.
LEMMA ConsumedTiles ==
  ASSUME LexInv, Reading, Tiles(0, Made, pos.idx), UNCHANGED <<src, pending>>,
         NEW j \in Nat, NEW kind \in Kinds, Consume(j, kind), pos.idx <= j, j <= Len(src),
         Last(mode').m = "StrBlock" => At(j - 1) # "\n" \/ InterpAt(j)
  PROVE  TileInv'
<1> DEFINE t == Token(kind, pos, Moved(pos, j))
<1>1. src \in Sources /\ pos \in Place /\ pos.idx \in Nat /\ pending = <<>> /\ toks \in Seq(Tokens_)
  BY InvFacts, NoEnd
<1>2. Moved(pos, j) \in Place /\ Moved(pos, j).idx = j
  BY <1>1, MovedFacts
<1>3. t \in Tokens_ /\ t.start.idx = pos.idx /\ t.end.idx = j
  <2>1. t.start = pos /\ t.end = Moved(pos, j)
    BY DEF Token
  <2> QED BY <1>1, <1>2, <2>1, TokenFacts
<1>4. Give(t) /\ pos'.idx = j
  BY <1>2 DEF Consume
<1> HIDE DEF t
<1>5. Adds(<<t>>)
  BY <1>1, <1>3, <1>4, GaveOne
<1>6. Tiles(pos.idx, <<t>>, pos'.idx)
  BY <1>1, <1>3, <1>4, GapSame, TilesOne
<1>7. BackStep'
  <2>1. At(j - 1)' = At(j - 1) /\ InterpAt(j)' = InterpAt(j) /\ pos'.idx = j
    BY <1>4 DEF At, InterpAt
  <2> QED BY <2>1 DEF BackStep, Top
<1> HIDE DEF LexInv, Reading
<1> QED BY <1>4, <1>5, <1>6, <1>7, TileStep

\* In code what is consumed leaves the lexer in code.
LEMMA ConsumedInCode ==
  ASSUME LexInv, InCode, Tiles(0, Made, pos.idx), UNCHANGED <<src, pending>>,
         NEW j \in Nat, NEW kind \in Kinds, Consume(j, kind), pos.idx <= j, j <= Len(src),
         UNCHANGED mode
  PROVE  TileInv'
<1>1. Reading /\ Last(mode').m # "StrBlock"
  BY DEF InCode, Top
<1> HIDE DEF LexInv, Reading
<1> QED BY <1>1, ConsumedTiles

\* A mark where the position stands.
LEMMA MarkedTiles ==
  ASSUME LexInv, Reading, Tiles(0, Made, pos.idx), UNCHANGED <<src, pos, pending>>,
         NEW kind \in Kinds, Give(Mark(kind, pos)), Last(mode').m # "StrBlock" \/ kind = "Err"
  PROVE  TileInv'
<1> DEFINE t == Mark(kind, pos)
<1>1. src \in Sources /\ pos \in Place /\ pos.idx \in Nat /\ pos.idx <= Len(src) /\ pending = <<>> /\ toks \in Seq(Tokens_)
  BY InvFacts, NoEnd
<1>2. t \in Tokens_ /\ t.kind = kind
  BY <1>1, TokenFacts
<1>3. t.start.idx = pos.idx /\ t.end.idx = pos.idx /\ pos'.idx = pos.idx
  BY DEF Mark
<1>4. Give(t)
  OBVIOUS
<1> HIDE DEF t
<1>5. Adds(<<t>>)
  BY <1>1, <1>2, <1>4, GaveOne
<1>6. Tiles(pos.idx, <<t>>, pos'.idx)
  BY <1>1, <1>3, GapSame, TilesOne
<1>7. BackStep'
  <2>1. CASE Last(mode').m # "StrBlock"
    BY <2>1 DEF BackStep, Top
  <2>2. CASE kind = "Err"
    <3>1. Made' = toks \o <<t>>
      BY <1>5 DEF Adds
    <3>2. Len(Made') \in 1..Len(Made') /\ Made'[Len(Made')] = t
      <4> HIDE DEF Tokens_
      <4> QED BY <1>1, <3>1
    <3>3. ~NoErr(Made, Len(Made))'
      BY <1>2, <2>2, <3>2 DEF NoErr
    <3> QED BY <3>3 DEF BackStep
  <2> QED BY <2>1, <2>2
<1> HIDE DEF LexInv, Reading
<1> QED BY <1>1, <1>3, <1>5, <1>6, <1>7, TileStep

-----------------------------------------------------------------------------
(* The steps in code *)

LEMMA CodeFacts ==
  ASSUME LexInv, InCode
  PROVE  /\ Reading /\ src \in Sources /\ Len(src) \in Nat /\ pos \in Place /\ pos.idx \in Nat
         /\ pos.idx <= Len(src) /\ pos.idx + 1 \in Nat /\ pos.idx <= pos.idx + 1
         /\ At(pos.idx) # NoByte => pos.idx + 1 <= Len(src)
         /\ ModeStack(mode) /\ Top.m \notin TextModes /\ Last(mode).m # "StrBlock"
BY InvFacts DEF InCode, TextModes, Top

LEMMA PunctTiles == LexInv /\ Tiles(0, Made, pos.idx) /\ Punct => TileInv'
<1> SUFFICES ASSUME LexInv, Tiles(0, Made, pos.idx), Punct PROVE TileInv'
  OBVIOUS
<1>1. /\ InCode /\ At(pos.idx) \in DOMAIN Mono
      /\ Consume(pos.idx + 1, Mono[At(pos.idx)])
      /\ UNCHANGED <<src, mode, ind, started, pending, panicked>>
  BY Zenon DEF Punct
<1>2. At(pos.idx) # NoByte
  BY <1>1, NotTheEnd
<1>3. Mono[At(pos.idx)] \in Kinds
  BY <1>1, MonoKinds DEF Other
<1> HIDE DEF LexInv, InCode
<1> QED BY <1>1, <1>2, <1>3, CodeFacts, ConsumedInCode

LEMMA NumberTiles == LexInv /\ Tiles(0, Made, pos.idx) /\ Number => TileInv'
<1> SUFFICES ASSUME LexInv, Tiles(0, Made, pos.idx), Number PROVE TileInv'
  OBVIOUS
<1> DEFINE i == IF At(pos.idx) = "-" THEN pos.idx + 1 ELSE pos.idx
           n == NumberFrom(i)
<1>1. /\ InCode /\ At(i) \in Digits /\ Consume(n.end, n.kind)
      /\ UNCHANGED <<src, mode, ind, started, pending, panicked>>
  BY DEF Number
<1>2. src \in Sources /\ pos.idx \in Nat /\ Len(src) \in Nat
  BY InvFacts
<1>3. i \in Nat /\ i >= pos.idx
  BY <1>2
<1> HIDE DEF i
<1>4. n.kind \in {"Int", "Float", "Decimal"} /\ n.end \in (i + 1)..Len(src)
  BY <1>1, <1>2, <1>3, NumberFacts
<1> HIDE DEF n, LexInv, InCode
<1>5. n.end \in Nat /\ pos.idx <= n.end /\ n.end <= Len(src)
  BY <1>2, <1>3, <1>4
<1>6. n.kind \in Kinds
  BY <1>4 DEF Kinds
<1> QED BY <1>1, <1>5, <1>6, ConsumedInCode

LEMMA OpTiles == LexInv /\ Tiles(0, Made, pos.idx) /\ Op => TileInv'
<1> SUFFICES ASSUME LexInv, Tiles(0, Made, pos.idx), Op PROVE TileInv'
  OBVIOUS
<1> DEFINE fits == {n \in 1..(Len(src) - pos.idx) : Text(pos.idx, pos.idx + n) \in Seps}
<1>1. /\ InCode /\ At(pos.idx) # NoByte
      /\ UNCHANGED <<src, mode, ind, started, pending, panicked>>
  BY Zenon DEF Op
<1>2. IF fits # {} THEN Consume(pos.idx + Max(fits), "Sep") ELSE Consume(pos.idx + 1, "Err")
  BY Zenon DEF Op
<1>3. pos.idx \in Nat /\ Len(src) \in Nat /\ pos.idx < Len(src)
  BY <1>1, InvFacts
<1>4. "Sep" \in Kinds /\ "Err" \in Kinds
  BY DEF Kinds
<1>5. fits \subseteq 0..(Len(src) - pos.idx) /\ Len(src) - pos.idx \in Nat
  BY <1>3
<1>6. fits \subseteq 1..(Len(src) - pos.idx)
  OBVIOUS
<1> HIDE DEF fits, LexInv, InCode
<1>7. CASE fits # {}
  <2>1. Max(fits) \in fits
    BY <1>5, <1>7, MaxFacts
  <2>2. Max(fits) \in 1..(Len(src) - pos.idx)
    BY <1>6, <2>1
  <2>3. pos.idx + Max(fits) \in Nat /\ pos.idx <= pos.idx + Max(fits) /\ pos.idx + Max(fits) <= Len(src)
    BY <1>3, <2>2
  <2> QED BY <1>1, <1>2, <1>4, <1>7, <2>3, ConsumedInCode
<1>8. CASE fits = {}
  BY <1>1, <1>2, <1>4, <1>8, CodeFacts, ConsumedInCode
<1> QED BY <1>7, <1>8

LEMMA LineCommentTiles == LexInv /\ Tiles(0, Made, pos.idx) /\ LineComment => TileInv'
<1> SUFFICES ASSUME LexInv, Tiles(0, Made, pos.idx), LineComment PROVE TileInv'
  OBVIOUS
<1> DEFINE S == {j \in pos.idx..Len(src) : At(j) \in {"\n", NoByte}}
<1>1. /\ InCode /\ Consume(Min(S), "Comment")
      /\ UNCHANGED <<src, mode, ind, started, pending, panicked>>
  BY Zenon DEF LineComment
<1>2. /\ pos.idx \in Nat /\ Len(src) \in Nat /\ pos.idx <= Len(src) /\ src \in Sources
  BY InvFacts
<1>3. At(Len(src)) = NoByte
  BY <1>2, SourceFacts
<1>4. Len(src) \in S /\ S \subseteq Nat
  BY <1>2, <1>3
<1>5. \A j \in S : j \in Nat /\ pos.idx <= j /\ j <= Len(src)
  BY <1>2
<1> HIDE DEF S, LexInv, InCode
<1>6. Min(S) \in S
  BY <1>4, MinFacts
<1>7. "Comment" \in Kinds
  BY DEF Kinds
<1> QED BY <1>1, <1>5, <1>6, <1>7, ConsumedInCode

\* What opens something in code.
LEMMA OpenedTiles ==
  ASSUME LexInv, Reading, Tiles(0, Made, pos.idx), UNCHANGED <<src, pending>>,
         NEW m \in Modes, m.m # "StrBlock", mode' = Append(mode, m), Top.m \in TextModes => m.m = "StrExpr",
         NEW j \in Nat, NEW kind \in Kinds, Consume(j, kind), pos.idx <= j, j <= Len(src)
  PROVE  TileInv'
<1>1. ModeStack(mode)
  BY InvFacts
<1> HIDE DEF Modes
<1>2. Last(mode') = m
  BY <1>1, Pushed DEF Top
<1> HIDE DEF LexInv, Reading
<1> QED BY <1>2, ConsumedTiles

LEMMA OpenTiles == LexInv /\ Tiles(0, Made, pos.idx) /\ Open => TileInv'
<1> SUFFICES ASSUME LexInv, Tiles(0, Made, pos.idx), Open PROVE TileInv'
  OBVIOUS
<1> DEFINE m == Bracket(At(pos.idx), Len(ind))
<1>1. /\ InCode /\ At(pos.idx) \in Opening /\ mode' = Append(mode, m)
      /\ Consume(pos.idx + 1, "BracketOpen")
      /\ UNCHANGED <<src, ind, started, pending, panicked>>
  BY DEF Open
<1>2. At(pos.idx) # NoByte
  BY <1>1, NotTheEnd
<1>3. Len(ind) \in Nat \ {0}
  BY InvFacts
<1>4. m \in Modes /\ m.m = "Bracket"
  BY <1>1, <1>3, ModesNamed
<1>5. "BracketOpen" \in Kinds
  BY DEF Kinds
<1> HIDE DEF LexInv, InCode, Modes, m
<1> QED BY <1>1, <1>2, <1>4, <1>5, CodeFacts, OpenedTiles

LEMMA OpenStringTiles == LexInv /\ Tiles(0, Made, pos.idx) /\ OpenString => TileInv'
<1> SUFFICES ASSUME LexInv, Tiles(0, Made, pos.idx), OpenString PROVE TileInv'
  OBVIOUS
<1>1. /\ InCode /\ At(pos.idx) = "'" /\ mode' = Append(mode, StrText)
      /\ Consume(pos.idx + 1, "StrStart")
      /\ UNCHANGED <<src, ind, started, pending, panicked>>
  BY DEF OpenString
<1>2. At(pos.idx) # NoByte
  BY <1>1, NotTheEnd
<1>3. "StrStart" \in Kinds
  BY DEF Kinds
<1> HIDE DEF LexInv, InCode, Modes, StrText
<1> QED BY <1>1, <1>2, <1>3, ModesNamed, CodeFacts, OpenedTiles

LEMMA OpenInterpTiles == LexInv /\ Tiles(0, Made, pos.idx) /\ OpenInterp => TileInv'
<1> SUFFICES ASSUME LexInv, Tiles(0, Made, pos.idx), OpenInterp PROVE TileInv'
  OBVIOUS
<1>1. /\ Reading /\ InterpAt(pos.idx) /\ mode' = Append(mode, StrExpr)
      /\ Consume(pos.idx + 2, "StrExprStart")
      /\ UNCHANGED <<src, ind, started, pending, panicked>>
  BY DEF OpenInterp
<1>2. src \in Sources /\ pos.idx \in Nat
  BY InvFacts
<1>3. pos.idx + 1 \in Nat /\ At(pos.idx + 1) # NoByte
  BY <1>1, <1>2, NotTheEnd DEF InterpAt
<1>4. pos.idx + 2 \in Nat /\ pos.idx <= pos.idx + 2 /\ pos.idx + 2 <= Len(src)
  BY <1>2, <1>3, SourceFacts
<1>5. "StrExprStart" \in Kinds
  BY DEF Kinds
<1> HIDE DEF LexInv, Reading, Modes, StrExpr
<1> QED BY <1>1, <1>4, <1>5, ModesNamed, OpenedTiles

LEMMA CloseInterpTiles == LexInv /\ Tiles(0, Made, pos.idx) /\ CloseInterp => TileInv'
<1> SUFFICES ASSUME LexInv, Tiles(0, Made, pos.idx), CloseInterp PROVE TileInv'
  OBVIOUS
<1>1. /\ Reading /\ At(pos.idx) = CloseBrace /\ Consume(pos.idx + 1, "StrExprEnd")
      /\ UNCHANGED <<src, pending>>
  BY DEF CloseInterp
<1>2. At(pos.idx) # NoByte /\ At(pos.idx) # "\n"
  BY <1>1, NotTheEnd, NotABreak
<1>3. /\ pos.idx \in Nat /\ pos.idx + 1 \in Nat /\ pos.idx <= pos.idx + 1 /\ pos.idx + 1 <= Len(src)
      /\ (pos.idx + 1) - 1 = pos.idx
  BY <1>2, InvFacts
<1>4. "StrExprEnd" \in Kinds
  BY DEF Kinds
<1>5. At((pos.idx + 1) - 1) # "\n"
  BY <1>2, <1>3
<1> HIDE DEF LexInv, Reading
<1> QED BY <1>1, <1>3, <1>4, <1>5, ConsumedTiles

LEMMA CloseStringTiles == LexInv /\ Tiles(0, Made, pos.idx) /\ CloseString => TileInv'
<1> SUFFICES ASSUME LexInv, Tiles(0, Made, pos.idx), CloseString PROVE TileInv'
  OBVIOUS
<1>1. /\ Reading /\ Top.m = "StrText" /\ mode' = Front(mode)
      /\ UNCHANGED <<src, ind, started, pending, panicked>>
      /\ IF At(pos.idx) = "'" THEN Consume(pos.idx + 1, "StrEnd")
                              ELSE Give(Mark("Err", pos)) /\ UNCHANGED pos
  BY DEF CloseString
<1>2. Last(mode').m # "StrBlock"
  BY <1>1, Left DEF TextModes
<1>3. pos.idx \in Nat /\ (At(pos.idx) # NoByte => pos.idx < Len(src)) /\ Len(src) \in Nat
  BY InvFacts
<1>4. "Err" \in Kinds /\ "StrEnd" \in Kinds
  BY DEF Kinds
<1>5. CASE At(pos.idx) = "'"
  <2>1. At(pos.idx) # NoByte
    BY <1>5, NotTheEnd
  <2>2. pos.idx + 1 \in Nat /\ pos.idx <= pos.idx + 1 /\ pos.idx + 1 <= Len(src)
    BY <1>3, <2>1
  <2> HIDE DEF LexInv, Reading
  <2> QED BY <1>1, <1>2, <1>4, <1>5, <2>2, ConsumedTiles
<1>6. CASE At(pos.idx) # "'"
  <2> HIDE DEF LexInv, Reading
  <2> QED BY <1>1, <1>2, <1>4, <1>6, MarkedTiles
<1> QED BY <1>5, <1>6

LEMMA CloseTiles == LexInv /\ Tiles(0, Made, pos.idx) /\ Close => TileInv'
<1> SUFFICES ASSUME LexInv, Tiles(0, Made, pos.idx), Close PROVE TileInv'
  OBVIOUS
<1>1. InCode /\ At(pos.idx) \in Closing /\ UNCHANGED <<src, started, pending, panicked>>
  BY DEF Close
<1>2. At(pos.idx) # NoByte
  BY <1>1, NotTheEnd
<1>3. "BlockEnd" \in Kinds /\ "BracketClose" \in Kinds /\ "Err" \in Kinds
  BY DEF Kinds
<1>4. CASE Give(Mark("BlockEnd", pos)) /\ UNCHANGED <<pos, mode>>
  <2>1. Reading /\ Last(mode').m # "StrBlock"
    BY <1>1, <1>4, CodeFacts
  <2> HIDE DEF LexInv, InCode, Reading
  <2> QED BY <1>1, <1>3, <1>4, <2>1, MarkedTiles
<1>5. CASE Top.m = "Bracket" /\ mode' = Front(mode) /\ Consume(pos.idx + 1, "BracketClose")
  <2>1. Last(mode').m # "StrBlock"
    BY <1>5, Left DEF TextModes
  <2> HIDE DEF LexInv, InCode, Reading
  <2> QED BY <1>1, <1>2, <1>3, <1>5, <2>1, CodeFacts, ConsumedTiles
<1>6. CASE Consume(pos.idx + 1, "Err") /\ UNCHANGED <<mode, ind>>
  <2> HIDE DEF LexInv, InCode
  <2> QED BY <1>1, <1>2, <1>3, <1>6, CodeFacts, ConsumedInCode
<1> QED BY <1>4, <1>5, <1>6 DEF Close

LEMMA AtEndTiles == LexInv /\ Tiles(0, Made, pos.idx) /\ AtEnd => TileInv'
<1> SUFFICES ASSUME LexInv, Tiles(0, Made, pos.idx), AtEnd PROVE TileInv'
  OBVIOUS
<1>1. InCode /\ UNCHANGED <<src, pos, started, pending, panicked>>
  BY DEF AtEnd
<1>2. "BlockEnd" \in Kinds /\ "EOF" \in Kinds /\ "Err" \in Kinds
  BY DEF Kinds
<1>3. Reading /\ Last(mode).m # "StrBlock"
  BY <1>1, CodeFacts
<1>4. CASE Give(Mark("Err", pos))
  <2> HIDE DEF LexInv, InCode, Reading
  <2> QED BY <1>1, <1>2, <1>3, <1>4, MarkedTiles
<1>5. CASE (Give(Mark("BlockEnd", pos)) \/ Give(Mark("EOF", pos))) /\ UNCHANGED mode
  <2> HIDE DEF LexInv, InCode, Reading
  <2> QED BY <1>1, <1>2, <1>3, <1>5, MarkedTiles
<1> QED BY <1>4, <1>5 DEF AtEnd

\* White space that gives no token.
LEMMA SilentTiles ==
  ASSUME LexInv, Reading, Tiles(0, Made, pos.idx), UNCHANGED <<src, mode, pending, toks>>,
         Last(mode).m # "StrBlock", pos'.idx \in Nat, Gap(pos.idx, pos'.idx)
  PROVE  TileInv'
<1>1. Adds(<<>>)
  BY NoEnd, GaveNone
<1>2. Tiles(pos.idx, <<>>, pos'.idx)
  BY TilesNone
<1>3. Last(mode').m # "StrBlock"
  OBVIOUS
<1> HIDE DEF LexInv, Reading
<1> QED BY <1>1, <1>2, <1>3, TileStepInCode

LEMMA BlankTiles == LexInv /\ Tiles(0, Made, pos.idx) /\ Blank => TileInv'
<1> SUFFICES ASSUME LexInv, Tiles(0, Made, pos.idx), Blank PROVE TileInv'
  OBVIOUS
<1>1. /\ InCode /\ At(pos.idx) = Space /\ pos' = Moved(pos, pos.idx + 1)
      /\ UNCHANGED <<src, mode, ind, started, pending, toks, panicked>>
  BY DEF Blank
<1>2. pos \in Place /\ pos.idx \in Nat /\ pos.idx + 1 \in Nat /\ Reading /\ Last(mode).m # "StrBlock"
  BY <1>1, CodeFacts
<1>3. pos'.idx = pos.idx + 1
  BY <1>1, <1>2, MovedFacts
<1>4. \A b \in pos.idx..(pos.idx + 1 - 1) : b = pos.idx
  BY <1>2
<1>5. Gap(pos.idx, pos'.idx)
  BY <1>1, <1>2, <1>3, <1>4 DEF Gap, White
<1> HIDE DEF LexInv, InCode, Reading
<1> QED BY <1>1, <1>2, <1>3, <1>5, SilentTiles

LEMMA NewlineTiles == LexInv /\ Tiles(0, Made, pos.idx) /\ Newline => TileInv'
<1> SUFFICES ASSUME LexInv, Tiles(0, Made, pos.idx), Newline PROVE TileInv'
  OBVIOUS
<1> DEFINE p == PastBlank(pos)
           n == IF At(p.idx) = "\n" THEN Spaces(p.idx + 1) ELSE 0
           after == IF At(p.idx) = "\n" THEN NextLine(p.idx + 1 + n, p, n) ELSE p
           outer == Front(ind)
<1>1. InCode /\ At(pos.idx) = "\n" /\ UNCHANGED <<src, mode, started, pending, panicked>>
  BY DEF Newline
<1>2. /\ \/ pos' = after /\ Give(Token("BlockStart", pos, after))
         \/ pos' = after /\ Give(Token("Err", pos, after))
         \/ pos' = p /\ Give(Mark("BlockEnd", pos))
         \/ pos' = after /\ (UNCHANGED toks \/ Give(Token("BlockCont", pos, after)))
  BY DEF Newline
<1>3. /\ Reading /\ src \in Sources /\ Len(src) \in Nat /\ pos \in Place /\ pos.idx \in Nat /\ pos.idx <= Len(src)
      /\ Last(mode).m # "StrBlock" /\ pending = <<>> /\ toks \in Seq(Tokens_)
  BY <1>1, CodeFacts, NoEnd
<1>4. p \in Place /\ p.idx \in pos.idx..Len(src) /\ White(pos.idx, p.idx)
  BY <1>1, <1>3, PastBlankFacts
<1>5. p.idx \in Nat /\ Gap(pos.idx, p.idx)
  BY <1>3, <1>4 DEF Place, Gap
<1> HIDE DEF p
<1>6. after \in Place /\ after.idx <= Len(src) /\ after.idx \in Nat /\ Gap(p.idx, after.idx)
  <2>1. CASE At(p.idx) = "\n"
    <3>1. p.idx + 1 \in Nat /\ p.idx + 1 <= Len(src)
      <4>1. At(p.idx) # NoByte
        BY <2>1, NotTheEnd
      <4> QED BY <1>3, <1>5, <4>1, SourceFacts
    <3>2. /\ Spaces(p.idx + 1) \in Nat /\ p.idx + 1 + Spaces(p.idx + 1) <= Len(src)
          /\ \A k \in (p.idx + 1)..(p.idx + 1 + Spaces(p.idx + 1) - 1) : At(k) = Space
      BY <1>3, <3>1, SpacesFacts
    <3>3. n = Spaces(p.idx + 1)
      BY <2>1
    <3> HIDE DEF n
    <3> DEFINE j == p.idx + 1 + n
    <3>4. j \in Nat /\ j <= Len(src) /\ p.idx <= j /\ n \in Nat
      BY <1>5, <3>1, <3>2, <3>3
    <3>5. \A k \in p.idx..(j - 1) : k = p.idx \/ k \in (p.idx + 1)..(p.idx + 1 + n - 1)
      BY <1>5, <3>4
    <3>6. White(p.idx, j)
      BY <2>1, <3>2, <3>3, <3>5 DEF White
    <3> HIDE DEF j
    <3>7. after = NextLine(j, p, n)
      BY <2>1 DEF j
    <3>8. NextLine(j, p, n) \in Place /\ NextLine(j, p, n).idx = j
      BY <1>4, <3>4, NextLineFacts
    <3> QED BY <3>4, <3>6, <3>7, <3>8 DEF Gap
  <2>2. CASE At(p.idx) # "\n"
    <3>1. after = p
      BY <2>2
    <3>2. p.idx <= Len(src)
      BY <1>3, <1>4
    <3> HIDE DEF after
    <3> QED BY <1>4, <1>5, <3>1, <3>2, GapSame
  <2> QED BY <2>1, <2>2
<1> HIDE DEF after
<1>7. Gap(pos.idx, after.idx)
  BY <1>3, <1>5, <1>6, GapJoins
<1>8. ASSUME NEW kind \in Kinds, pos' = after, Give(Token(kind, pos, after)) PROVE TileInv'
  <2> DEFINE t == Token(kind, pos, after)
  <2>1. t \in Tokens_ /\ t.start = pos /\ t.end = after
    BY <1>3, <1>6, TokenFacts DEF Token
  <2>2. Give(t)
    BY <1>8
  <2> HIDE DEF t
  <2>3. Adds(<<t>>)
    BY <1>1, <1>3, <2>1, <2>2, GaveOne
  <2>4. Tiles(pos.idx, <<t>>, pos'.idx) /\ pos'.idx \in Nat
    BY <1>3, <1>6, <1>7, <1>8, <2>1, GapSame, TilesOne DEF Gap
  <2>5. Last(mode').m # "StrBlock"
    BY <1>1, <1>3
  <2> HIDE DEF LexInv, Reading
  <2> QED BY <1>1, <1>3, <2>3, <2>4, <2>5, TileStepInCode
<1>9. "BlockStart" \in Kinds /\ "Err" \in Kinds /\ "BlockCont" \in Kinds /\ "BlockEnd" \in Kinds
  BY DEF Kinds
<1>10. CASE pos' = p /\ Give(Mark("BlockEnd", pos))
  <2> DEFINE t == Mark("BlockEnd", pos)
  <2>1. t \in Tokens_ /\ t.start = pos /\ t.end = pos
    BY <1>3, <1>9, TokenFacts DEF Mark
  <2>2. Give(t)
    BY <1>10
  <2> HIDE DEF t
  <2>3. Adds(<<t>>)
    BY <1>1, <1>3, <2>1, <2>2, GaveOne
  <2>4. Tiles(pos.idx, <<t>>, pos'.idx) /\ pos'.idx \in Nat
    BY <1>3, <1>5, <1>10, <2>1, GapSame, TilesOne
  <2>5. Last(mode').m # "StrBlock"
    BY <1>1, <1>3
  <2> HIDE DEF LexInv, Reading
  <2> QED BY <1>1, <1>3, <2>3, <2>4, <2>5, TileStepInCode
<1>11. CASE pos' = after /\ UNCHANGED toks
  <2>1. pos'.idx \in Nat /\ Gap(pos.idx, pos'.idx)
    BY <1>6, <1>7, <1>11
  <2> HIDE DEF LexInv, Reading
  <2> QED BY <1>1, <1>3, <1>11, <2>1, SilentTiles
<1> QED BY <1>2, <1>8, <1>9, <1>10, <1>11

LEMMA IdentTiles == LexInv /\ Tiles(0, Made, pos.idx) /\ Ident => TileInv'
<1> SUFFICES ASSUME LexInv, Tiles(0, Made, pos.idx), Ident PROVE TileInv'
  OBVIOUS
<1> DEFINE j == IdentEnd(pos.idx)
           end == Moved(pos, j)
           past == Moved(pos, j + 1)
           t == Token("Ident", pos, end)
           e == Token("Err", end, past)
<1>1. /\ InCode /\ At(pos.idx) \in IdentBytes /\ Give(t)
      /\ IF At(j) = "-" THEN pos' = past /\ pending' = <<e>> ELSE pos' = end /\ UNCHANGED pending
      /\ UNCHANGED <<src, mode, ind, started, panicked>>
  BY DEF Ident
<1>2. /\ Reading /\ src \in Sources /\ pos \in Place /\ pos.idx \in Nat /\ Len(src) \in Nat
      /\ Last(mode').m # "StrBlock" /\ toks \in Seq(Tokens_)
  BY <1>1, CodeFacts, NoEnd
<1>3. j \in (pos.idx + 1)..Len(src)
  BY <1>1, <1>2, IdentEndFacts
<1>4. j \in Nat /\ pos.idx <= j /\ j <= Len(src)
  BY <1>2, <1>3
<1>5. "Ident" \in Kinds /\ "Err" \in Kinds
  BY DEF Kinds
<1> HIDE DEF j
<1>6. CASE At(j) = "-"
  <2>1. j + 1 \in Nat /\ j + 1 <= Len(src)
    <3>1. At(j) # NoByte
      BY <1>6, NotTheEnd
    <3> QED BY <1>2, <1>4, <3>1, SourceFacts
  <2>2. end \in Place /\ end.idx = j /\ past \in Place /\ past.idx = j + 1
    BY <1>2, <1>4, <2>1, MovedFacts
  <2> HIDE DEF end, past
  <2>3. t \in Tokens_ /\ t.start = pos /\ t.end = end /\ e \in Tokens_ /\ e.kind = "Err"
    BY <1>2, <1>4, <1>5, <2>1, <2>2, TokenFacts DEF Token
  <2> HIDE DEF t, e
  <2>4. <<e>> \in Seq(Tokens_) /\ pending' = <<e>> /\ <<t>> \in Seq(Tokens_)
    BY <1>1, <1>6, <2>3
  <2>5. Adds(<<t>> \o <<e>>)
    <3> HIDE DEF Tokens_
    <3> QED BY <1>1, <1>2, <2>3, <2>4, GaveFirst
  <2>6. Tiles(pos.idx, <<t>>, j) /\ Tiles(j, <<e>>, j + 1)
    BY <1>2, <1>4, <2>2, <2>3, GapSame, TilesOne, TilesError
  <2>7. Tiles(pos.idx, <<t>> \o <<e>>, j + 1)
    BY <1>2, <1>4, <2>1, <2>4, <2>6, TilesConcat
  <2>8. pos'.idx = j + 1 /\ pos'.idx \in Nat
    BY <1>1, <1>6, <2>1, <2>2
  <2> HIDE DEF LexInv, Reading
  <2> QED BY <1>1, <1>2, <2>5, <2>7, <2>8, TileStepInCode
<1>7. CASE At(j) # "-"
  <2>1. Consume(j, "Ident") /\ UNCHANGED pending
    BY <1>1, <1>7 DEF Consume
  <2> HIDE DEF LexInv, InCode
  <2> QED BY <1>1, <1>4, <1>5, <2>1, ConsumedInCode
<1> QED BY <1>6, <1>7

\* A block string that is opened at the end of the text has the newline behind its mark in front
\* of the position.
LEMMA OpenBlockStringTiles == LexInv /\ Tiles(0, Made, pos.idx) /\ OpenBlockString => TileInv'
<1> SUFFICES ASSUME LexInv, Tiles(0, Made, pos.idx), OpenBlockString PROVE TileInv'
  OBVIOUS
<1> DEFINE p == Moved(pos, pos.idx + 2)
           q == IF At(p.idx) = "\n" THEN NextLine(p.idx + 1, p, 0) ELSE p
           t == Token("StrStart", pos, p)
<1>1. /\ InCode /\ At(pos.idx + 1) = ":"
      /\ Give(t) /\ pos' = q
      /\ UNCHANGED <<src, ind, started, pending, panicked>>
  BY DEF OpenBlockString
<1>2. At(pos.idx + 1) # NoByte /\ ":" # "\n"
  BY <1>1, NotTheEnd
<1>3. /\ Reading /\ src \in Sources /\ pos \in Place /\ pos.idx \in Nat /\ Len(src) \in Nat
      /\ toks \in Seq(Tokens_) /\ pending = <<>>
  BY <1>1, CodeFacts, NoEnd
<1>4. pos.idx + 2 \in Nat /\ pos.idx + 2 <= Len(src) /\ pos.idx + 1 \in Nat
  BY <1>2, <1>3, SourceFacts
<1>5. p \in Place /\ p.idx = pos.idx + 2
  BY <1>3, <1>4, MovedFacts
<1>6. t \in Tokens_ /\ t.start = pos /\ t.end = p
  <2>1. "StrStart" \in Kinds
    BY DEF Kinds
  <2> HIDE DEF p
  <2> QED BY <1>3, <1>4, <1>5, <2>1, TokenFacts DEF Token
<1>g. Give(t)
  BY <1>1
<1> HIDE DEF p, t
<1>7. Adds(<<t>>)
  BY <1>1, <1>3, <1>6, <1>g, GaveOne
<1>8. q.idx \in Nat /\ Gap(p.idx, q.idx) /\ (q.idx = p.idx \/ q.idx = p.idx + 1)
  <2>1. CASE At(p.idx) = "\n"
    <3>1. q.idx = p.idx + 1
      BY <2>1 DEF NextLine, Pos
    <3>2. \A b \in p.idx..(p.idx + 1 - 1) : b = p.idx
      BY <1>4, <1>5
    <3> HIDE DEF q
    <3> QED BY <1>4, <1>5, <2>1, <3>1, <3>2 DEF Gap, White
  <2>2. CASE At(p.idx) # "\n"
    <3>1. q = p
      BY <2>2
    <3> HIDE DEF q
    <3> QED BY <1>4, <1>5, <3>1, GapSame
  <2> QED BY <2>1, <2>2
<1>9. Tiles(pos.idx, <<t>>, q.idx)
  BY <1>3, <1>4, <1>5, <1>6, <1>8, GapSame, TilesOne
<1> HIDE DEF q
<1>10. BackStep'
  <2>1. Made' = toks \o <<t>> /\ Made' \in Seq(Tokens_) /\ Len(toks) \in Nat /\ Len(Made') = Len(toks) + 1
        /\ Made'[Len(toks) + 1] = t
    <3> HIDE DEF Tokens_
    <3> QED BY <1>3, <1>6, <1>7 DEF Adds
  <2>2. LeftOf(0, Made', Len(Made') + 1) = p.idx
    BY <1>6, <2>1 DEF LeftOf
  <2>3. ASSUME q.idx = p.idx PROVE At(pos.idx - 1)' # "\n"
    <3>1. pos'.idx - 1 = pos.idx + 1
      BY <1>1, <1>3, <1>5, <2>3
    <3>2. At(pos.idx - 1)' = At(pos'.idx - 1)
      BY <1>1 DEF At
    <3> QED BY <1>1, <1>2, <3>1, <3>2
  <2>4. pos'.idx = q.idx
    BY <1>1
  <2>5. ASSUME q.idx # p.idx PROVE p.idx < pos'.idx
    BY <1>4, <1>5, <1>8, <2>4, <2>5
  <2>6. LeftOf(0, Made, Len(Made) + 1)' = LeftOf(0, Made', Len(Made') + 1)
    BY DEF LeftOf
  <2>7. started'
    BY <1>1, <1>3 DEF Reading
  <2>8. BackStep' = ((Top.m = "StrBlock")' /\ At(pos.idx - 1)' = "\n" /\ ~InterpAt(pos.idx)' /\ NoErr(Made, Len(Made))'
                      => started' /\ LeftOf(0, Made, Len(Made) + 1)' < pos'.idx)
    BY DEF BackStep
  <2> QED BY <2>2, <2>3, <2>5, <2>6, <2>7, <2>8
<1> HIDE DEF LexInv, Reading
<1> QED BY <1>1, <1>3, <1>7, <1>8, <1>9, <1>10, TileStep

LEMMA SameTiles ==
  ASSUME TileInv, UNCHANGED <<src, pos, mode, started>>, Made' = Made
  PROVE  TileInv'
<1>1. \A b : At(b)' = At(b)
  BY DEF At
<1>2. \A a, b : White(a, b)' = White(a, b)
  BY <1>1 DEF White
<1>3. \A a, b : Gap(a, b)' = Gap(a, b)
  BY <1>2 DEF Gap
<1>4. \A k : /\ LeftOf(0, Made, k)' = LeftOf(0, Made, k) /\ RightOf(Made, pos.idx, k)' = RightOf(Made, pos.idx, k)
             /\ NoErr(Made, k)' = NoErr(Made, k)
  BY DEF LeftOf, RightOf, NoErr
<1>5. Tiles(0, Made, pos.idx)'
  BY <1>3, <1>4 DEF Tiles, TileInv
<1>6. BackStep'
  BY <1>1, <1>4 DEF BackStep, TileInv, Top, InterpAt
<1> QED BY <1>5, <1>6 DEF TileInv

LEMMA StartTiles == LexInv /\ TileInv /\ Start => TileInv'
<1> SUFFICES ASSUME LexInv, TileInv, Start PROVE TileInv'
  OBVIOUS
<1> DEFINE t == Mark("BlockStart", pos)
<1>1. ~started /\ Give(t) /\ UNCHANGED <<src, pos, mode, ind, pending, panicked>>
  BY DEF Start
<1>2. toks = <<>> /\ pending = <<>> /\ Made = <<>>
  BY <1>1 DEF LexInv, Fresh, Made
<1>3. src \in Sources /\ pos \in Place /\ pos.idx <= Len(src) /\ pos.idx \in Nat /\ pos' = pos
  BY <1>1, InvFacts
<1>4. t \in Tokens_ /\ t.start = pos /\ t.end = pos
  <2>1. "BlockStart" \in Kinds
    BY DEF Kinds
  <2> QED BY <1>3, <2>1, TokenFacts DEF Mark
<1> HIDE DEF t
<1>5. Made' = <<t>>
  BY <1>1, <1>2 DEF Give, Made
<1>6. Gap(0, pos.idx)
  <2>1. Tiles(0, <<>>, pos.idx)
    BY <1>2 DEF TileInv
  <2>2. Len(<<>>) = 0 /\ 1 \in 1..(0 + 1) /\ \A m \in 1..0 : FALSE
    OBVIOUS
  <2>3. NoErr(<<>>, 1)
    BY <2>2 DEF NoErr
  <2> QED BY <2>1, <2>2, <2>3 DEF Tiles, LeftOf, RightOf
<1>7. Tiles(0, Made', pos'.idx)
  BY <1>3, <1>4, <1>5, <1>6, GapSame, TilesOne
<1>8. Tiles(0, Made, pos.idx)'
  <2>1. \A b : At(b)' = At(b)
    BY <1>1 DEF At
  <2>2. \A a, b : White(a, b)' = White(a, b)
    BY <2>1 DEF White
  <2>3. \A a, b : Gap(a, b)' = Gap(a, b)
    BY <2>2 DEF Gap
  <2>4. \A k : /\ LeftOf(0, Made, k)' = LeftOf(0, Made', k) /\ RightOf(Made, pos.idx, k)' = RightOf(Made', pos'.idx, k)
               /\ NoErr(Made, k)' = NoErr(Made', k)
    BY DEF LeftOf, RightOf, NoErr
  <2> QED BY <1>7, <2>3, <2>4 DEF Tiles
<1>9. BackStep'
  <2>1. Top' = Top /\ At(pos.idx - 1)' = At(pos.idx - 1) /\ InterpAt(pos.idx)' = InterpAt(pos.idx)
    BY <1>1 DEF Top, At, InterpAt
  <2>2. NoErr(Made, Len(Made))
    BY <1>2 DEF NoErr
  <2>3. ~(Top.m = "StrBlock" /\ At(pos.idx - 1) = "\n" /\ ~InterpAt(pos.idx))
    BY <1>1, <2>2 DEF TileInv, BackStep
  <2> QED BY <1>3, <2>1, <2>3 DEF BackStep
<1> QED BY <1>8, <1>9 DEF TileInv

LEMMA DrainTiles == LexInv /\ TileInv /\ Drain => TileInv'
<1> SUFFICES ASSUME LexInv, TileInv, Drain PROVE TileInv'
  OBVIOUS
<1>1. /\ pending # <<>> /\ toks' = Append(toks, Head(pending)) /\ pending' = Tail(pending)
      /\ UNCHANGED <<src, pos, mode, ind, started, panicked>>
  BY DEF Drain, Queue, Give
<1>2. toks \in Seq(Tokens_) /\ pending \in Seq(Tokens_)
  BY DEF LexInv, Typed
<1> HIDE DEF Tokens_
<1>3. Made' = Made
  BY <1>1, <1>2 DEF Made
<1> QED BY <1>1, <1>3, SameTiles


-----------------------------------------------------------------------------
(* The lines of a text *)

LEMMA RankFacts ==
  ASSUME NEW n \in Nat, NEW S, S \subseteq 0..n, NEW x \in S
  PROVE  /\ Rank(S, x) \in 1..Cardinality(S)
         /\ \A y \in S : x < y => Rank(S, x) < Rank(S, y)
<1> DEFINE B(y) == {v \in S : v <= y}
<1>n. \A v \in S : v \in Nat
  OBVIOUS
<1>1. IsFiniteSet(S) /\ Cardinality(S) \in Nat
  BY CountRange
<1>2. \A y \in S : /\ B(y) \subseteq S /\ IsFiniteSet(B(y)) /\ Cardinality(B(y)) \in Nat
                   /\ Cardinality(B(y)) <= Cardinality(S) /\ Rank(S, y) = Cardinality(B(y))
  BY <1>1, FS_Subset, FS_CardinalityType DEF Rank
<1>3. \A y \in S : y \in B(y)
  BY <1>n
<1>4. Cardinality(B(x)) # 0
  <2>1. B(x) # {}
    BY <1>3
  <2> HIDE DEF B
  <2> QED BY <1>2, <2>1, FS_EmptySet
<1>5. ASSUME NEW y \in S, x < y PROVE Cardinality(B(x)) < Cardinality(B(y))
  <2>1. \A v \in S : v <= x => v <= y
    BY <1>n, <1>5
  <2>x. ~(y <= x)
    BY <1>n, <1>5
  <2>2. B(x) \subseteq B(y) /\ y \notin B(x)
    BY <2>1, <2>x
  <2>3. B(x) # B(y) /\ IsFiniteSet(B(y))
    BY <1>2, <1>3, <2>2
  <2> HIDE DEF B
  <2>4. Cardinality(B(x)) <= Cardinality(B(y)) /\ Cardinality(B(x)) # Cardinality(B(y))
    BY <2>2, <2>3, FS_Subset
  <2> QED BY <1>2, <2>4
<1> HIDE DEF B
<1> QED BY <1>1, <1>2, <1>4, <1>5

\* White space between boundaries in a row is white space from the first to the last.
LEMMA GapChain ==
  ASSUME NEW n \in Nat, NEW b, \A k \in 1..n : b[k] \in Nat,
         NEW a \in 1..n, NEW c \in a..n, \A k \in a..(c - 1) : Gap(b[k], b[k + 1])
  PROVE  Gap(b[a], b[c])
<1> DEFINE S == {x \in Nat : a + x <= c => Gap(b[a], b[a + x])}
<1>1. 0 \in S
  BY GapSame
<1>2. ASSUME NEW x \in Nat, x \in S PROVE x + 1 \in S
  <2> SUFFICES ASSUME a + (x + 1) <= c PROVE Gap(b[a], b[a + (x + 1)])
    OBVIOUS
  <2>1. a + x <= c /\ a + x \in a..(c - 1) /\ a + x + 1 = a + (x + 1) /\ a + x \in 1..n /\ a + x + 1 \in 1..n
    OBVIOUS
  <2>2. Gap(b[a], b[a + x]) /\ Gap(b[a + x], b[a + (x + 1)])
    BY <1>2, <2>1
  <2>3. b[a] \in Nat /\ b[a + x] \in Nat /\ b[a + (x + 1)] \in Nat
    BY <2>1
  <2> QED BY <2>2, <2>3, GapJoins
<1> HIDE DEF S
<1>3. \A x \in Nat : x \in S
  BY <1>1, <1>2, Induction
<1>4. c - a \in Nat /\ a + (c - a) = c /\ c <= c
  OBVIOUS
<1>5. c - a \in S
  BY <1>3, <1>4
<1> QED BY <1>4, <1>5 DEF S

\* Line k stands from b[k] to b[k + 1], and what its token leaves out in front is white.
LEMMA PiecesTile ==
  ASSUME src \in Sources, NEW token \in Kinds, NEW n \in Nat, NEW lines, NEW from, NEW b,
         DOMAIN lines = 1..n,
         \A k \in 1..(n + 1) : b[k] \in Nat,
         \A k \in 1..n : /\ lines[k].end.idx = b[k + 1] /\ from[k].idx \in Nat
                         /\ Gap(b[k], from[k].idx) /\ from[k].idx <= b[k + 1]
  PROVE  Tiles(b[1], Pieces(token, lines, from), b[n + 1])
<1> DEFINE S == {k \in DOMAIN lines : from[k].idx # lines[k].end.idx}
           shown == InOrder(S)
           C == Cardinality(S)
           t == Pieces(token, lines, from)
<1>1. S \subseteq 0..n /\ S \subseteq 1..n /\ \A k \in 1..n : k \notin S => from[k].idx = b[k + 1]
  OBVIOUS
<1>2. t = [m \in DOMAIN shown |-> Token(token, from[shown[m]], lines[shown[m]].end)]
  BY DEF Pieces
<1> HIDE DEF S, t
<1>3. DOMAIN shown = 1..C /\ \A m \in 1..C : shown[m] \in S /\ Rank(S, shown[m]) = m
  BY <1>1, InOrderFacts
<1>4. C \in Nat
  BY <1>1, CountRange
<1>5. \A m \in 1..C, q \in 1..C : m < q => shown[m] < shown[q]
  BY <1>1, InOrderGrows
<1>6. \A x \in S : Rank(S, x) \in 1..C /\ \A y \in S : x < y => Rank(S, x) < Rank(S, y)
  BY <1>1, RankFacts
<1> HIDE DEF shown, C
<1>7. \A m \in 1..C : shown[m] \in 1..n /\ shown[m] \in Nat /\ shown[m] + 1 \in 1..(n + 1)
  BY <1>1, <1>3
<1>8. Len(t) = C /\ \A m \in 1..C : t[m].start.idx = from[shown[m]].idx /\ t[m].end.idx = b[shown[m] + 1]
  <2>1. Len(t) = C
    BY <1>2, <1>3, <1>4
  <2>2. ASSUME NEW m \in 1..C PROVE t[m].start.idx = from[shown[m]].idx /\ t[m].end.idx = b[shown[m] + 1]
    <3>1. t[m] = Token(token, from[shown[m]], lines[shown[m]].end)
      BY <1>2, <1>3
    <3>2. t[m].start = from[shown[m]] /\ t[m].end = lines[shown[m]].end
      BY <3>1 DEF Token
    <3> QED BY <1>7, <3>2
  <2> QED BY <2>1, <2>2
<1> SUFFICES ASSUME NEW m \in 1..(C + 1)
             PROVE  /\ Gap(LeftOf(b[1], t, m), RightOf(t, b[n + 1], m))
                    /\ m <= C => t[m].start.idx <= t[m].end.idx
  BY <1>8 DEF Tiles, t
<1>9. m \in Nat /\ (m <= C => m \in 1..C) /\ (m # 1 => m - 1 \in 1..C /\ m - 1 < m)
  BY <1>4
<1> DEFINE a == IF m = 1 THEN 1 ELSE shown[m - 1] + 1
           c == IF m = C + 1 THEN n + 1 ELSE shown[m]
<1>10. LeftOf(b[1], t, m) = b[a]
  BY <1>8, <1>9 DEF LeftOf
<1>11. a \in 1..(n + 1)
  BY <1>7, <1>9
<1>12. c \in a..(n + 1)
  <2>1. CASE m = C + 1
    BY <1>11, <2>1
  <2>2. CASE m # C + 1
    <3>1. m \in 1..C /\ c = shown[m] /\ shown[m] \in 1..n
      BY <1>4, <1>7, <2>2
    <3>2. CASE m = 1
      BY <3>1, <3>2
    <3>3. CASE m # 1
      <4>1. shown[m - 1] < shown[m] /\ shown[m - 1] \in Nat /\ a = shown[m - 1] + 1
        BY <1>5, <1>7, <1>9, <3>1, <3>3
      <4> HIDE DEF a, c
      <4> QED BY <3>1, <4>1
    <3> QED BY <3>2, <3>3
  <2> QED BY <2>1, <2>2
<1>13. ASSUME NEW k \in a..(c - 1), k \in S PROVE FALSE
  <2>1. Rank(S, k) \in 1..C /\ k \in Nat
    BY <1>1, <1>6, <1>13
  <2>2. Rank(S, k) > m - 1
    <3>1. CASE m = 1
      BY <1>4, <2>1, <3>1
    <3>2. CASE m # 1
      <4>1. shown[m - 1] < k
        BY <1>7, <1>9, <2>1, <3>2
      <4>2. Rank(S, shown[m - 1]) < Rank(S, k) /\ Rank(S, shown[m - 1]) = m - 1
        BY <1>3, <1>6, <1>9, <1>13, <3>2, <4>1
      <4> QED BY <4>2
    <3> QED BY <3>1, <3>2
  <2>3. Rank(S, k) < m
    <3>1. CASE m = C + 1
      BY <1>4, <2>1, <3>1
    <3>2. CASE m # C + 1
      <4>1. m \in 1..C /\ k < shown[m]
        <5>1. m \in 1..C
          BY <1>4, <3>2
        <5>2. c = shown[m] /\ shown[m] \in Nat
          BY <1>7, <3>2, <5>1
        <5> HIDE DEF c, a
        <5>3. a \in Nat
          BY <1>11
        <5> QED BY <2>1, <5>1, <5>2, <5>3
      <4>2. Rank(S, k) < Rank(S, shown[m]) /\ Rank(S, shown[m]) = m
        BY <1>3, <1>6, <1>13, <4>1
      <4> QED BY <4>2
    <3> QED BY <3>1, <3>2
  <2> QED BY <1>4, <2>1, <2>2, <2>3
<1> HIDE DEF a, c
<1>14. \A k \in a..(c - 1) : k \in 1..n
  BY <1>11, <1>12
<1>15. \A k \in a..(c - 1) : Gap(b[k], b[k + 1])
  BY <1>1, <1>13, <1>14
<1>16. n + 1 \in Nat
  OBVIOUS
<1>17. Gap(b[a], b[c]) /\ b[a] \in Nat /\ b[c] \in Nat
  <2>1. Gap(b[a], b[c])
    BY <1>11, <1>12, <1>15, <1>16, GapChain
  <2>2. c \in 1..(n + 1)
    BY <1>11, <1>12
  <2> QED BY <1>11, <2>1, <2>2
<1>18. CASE m = C + 1
  <2>1. RightOf(t, b[n + 1], m) = b[c] /\ ~(m <= C)
    BY <1>4, <1>8, <1>18 DEF RightOf, c
  <2> QED BY <1>10, <1>17, <2>1
<1>19. CASE m # C + 1
  <2>1. m \in 1..C /\ c = shown[m]
    BY <1>4, <1>19 DEF c
  <2>2. RightOf(t, b[n + 1], m) = from[c].idx /\ t[m].start.idx = from[c].idx /\ t[m].end.idx = b[c + 1]
    BY <1>4, <1>8, <1>19, <2>1 DEF RightOf
  <2>3. Gap(b[c], from[c].idx) /\ from[c].idx \in Nat /\ from[c].idx <= b[c + 1]
    BY <1>7, <2>1
  <2>4. Gap(b[a], from[c].idx)
    BY <1>17, <2>3, GapJoins
  <2> QED BY <1>10, <2>2, <2>3, <2>4
<1> QED BY <1>18, <1>19

\* What a line may leave out in front of its token: spaces, and nothing of a blank line.
Bare(l) == IF l.blank THEN 0 ELSE l.indent
\* Lines one behind another.
Rows(ls) ==
  \A k \in 1..Len(ls) :
    /\ ls[k].start.idx \in Nat /\ ls[k].end.idx \in Nat /\ Bare(ls[k]) \in Nat
    /\ ls[k].start.idx + Bare(ls[k]) <= ls[k].end.idx
    /\ White(ls[k].start.idx, ls[k].start.idx + Bare(ls[k]))
    /\ k < Len(ls) => ls[k].end.idx = ls[k + 1].start.idx

LEMMA SpacesWhite ==
  ASSUME src \in Sources, NEW i \in Nat, i <= Len(src)
  PROVE  White(i, i + Spaces(i))
<1> DEFINE n == Spaces(i)
<1>1. n \in Nat /\ \A b \in i..(i + n - 1) : At(b) = Space
  BY SpacesFacts
<1> HIDE DEF n
<1>2. i..(i + n - 1) = i..((i + n) - 1)
  BY <1>1
<1>3. White(i, i + n)
  BY <1>1, <1>2 DEF White
<1> QED BY <1>3 DEF n

LEMMA RowsOf ==
  ASSUME src \in Sources, NEW p \in Place, NEW ls, LinesFrom(p, ls)
  PROVE  Rows(ls) /\ Len(ls) \in Nat \ {0} /\ DOMAIN ls = 1..Len(ls) /\ ls[1].start.idx = p.idx
<1>1. Len(ls) \in Nat \ {0} /\ DOMAIN ls = 1..Len(ls) /\ ls[1].start.idx = p.idx
  BY LineTypes DEF LinesFrom
<1>2. ASSUME NEW k \in 1..Len(ls)
      PROVE  /\ ls[k].start.idx \in Nat /\ ls[k].end.idx \in Nat /\ Bare(ls[k]) \in Nat
             /\ ls[k].start.idx + Bare(ls[k]) <= ls[k].end.idx
             /\ White(ls[k].start.idx, ls[k].start.idx + Bare(ls[k]))
  <2> DEFINE i == ls[k].start.idx
             j == ls[k].end.idx
             d == ls[k].indent
  <2>1. i \in Nat /\ j \in Nat /\ d \in Nat /\ ls[k].blank \in BOOLEAN
    BY LineTypes
  <2>2. i <= Len(src) /\ i <= j /\ d = Spaces(i) /\ (~ls[k].blank => i + d < j)
    BY DEF LinesFrom
  <2>3. CASE ls[k].blank
    <3>1. Bare(ls[k]) = 0 /\ i + 0 = i
      BY <2>1, <2>3 DEF Bare
    <3>2. White(i, i)
      BY <2>1 DEF White
    <3> QED BY <2>1, <2>2, <3>1, <3>2
  <2>4. CASE ~ls[k].blank
    <3>1. Bare(ls[k]) = d
      BY <2>4 DEF Bare
    <3>3. White(i, i + d)
      BY <2>1, <2>2, SpacesWhite
    <3> HIDE DEF i, d
    <3> HIDE DEF j
    <3>4. i + d <= j
      BY <2>1, <2>2, <2>4
    <3> QED BY <2>1, <3>1, <3>3, <3>4 DEF i, j, d
  <2> QED BY <2>3, <2>4
<1>3. ASSUME NEW k \in 1..Len(ls), k < Len(ls) PROVE ls[k].end.idx = ls[k + 1].start.idx
  <2>1. k \in 1..(Len(ls) - 1)
    BY <1>1, <1>3
  <2> QED BY <2>1 DEF LinesFrom
<1> QED BY <1>1, <1>2, <1>3 DEF Rows

LEMMA RowsTile ==
  ASSUME src \in Sources, NEW token \in Kinds, NEW ls, Rows(ls), Len(ls) \in Nat \ {0}, DOMAIN ls = 1..Len(ls),
         NEW from,
         \A k \in 1..Len(ls) :
           \/ \E s \in Nat : s <= Bare(ls[k]) /\ from[k].idx = ls[k].start.idx + s
           \/ from[k].idx = ls[k].end.idx /\ White(ls[k].start.idx, ls[k].end.idx)
  PROVE  Tiles(ls[1].start.idx, Pieces(token, ls, from), ls[Len(ls)].end.idx)
<1> DEFINE n == Len(ls)
           b == [k \in 1..(n + 1) |-> IF k = n + 1 THEN ls[n].end.idx ELSE ls[k].start.idx]
<1>1. n \in Nat /\ n >= 1
  OBVIOUS
<1>2. \A k \in 1..n : k # n + 1 /\ k \in 1..(n + 1) /\ k + 1 \in 1..(n + 1)
  BY <1>1
<1>3. \A k \in 1..n : b[k] = ls[k].start.idx
  BY <1>2
<1>4. \A k \in 1..n : b[k + 1] = ls[k].end.idx
  <2> TAKE k \in 1..n
  <2>1. CASE k = n
    BY <1>2, <2>1
  <2>2. CASE k # n
    <3>1. k < n /\ k + 1 # n + 1
      <4> HIDE DEF n
      <4> QED BY <1>1, <2>2
    <3>2. b[k + 1] = ls[k + 1].start.idx
      BY <1>2, <3>1
    <3> QED BY <3>1, <3>2 DEF Rows
  <2> QED BY <2>1, <2>2
<1>5. b[n + 1] = ls[n].end.idx /\ b[1] = ls[1].start.idx /\ n \in 1..n /\ 1 \in 1..n
  BY <1>1, <1>3
<1> HIDE DEF b
<1>6. \A k \in 1..(n + 1) : b[k] \in Nat
  <2>1. \A k \in 1..n : b[k] \in Nat /\ ls[k].end.idx \in Nat
    BY <1>3 DEF Rows
  <2>2. \A k \in 1..(n + 1) : k = n + 1 \/ k \in 1..n
    BY <1>1
  <2> QED BY <1>5, <2>1, <2>2
<1>7. ASSUME NEW k \in 1..n
      PROVE  /\ ls[k].end.idx = b[k + 1] /\ from[k].idx \in Nat
             /\ Gap(b[k], from[k].idx) /\ from[k].idx <= b[k + 1]
  <2> DEFINE i == ls[k].start.idx
             j == ls[k].end.idx
             d == Bare(ls[k])
  <2>1. i \in Nat /\ j \in Nat /\ d \in Nat /\ i + d <= j /\ White(i, i + d)
    BY DEF Rows
  <2>2. b[k] = i /\ b[k + 1] = j
    BY <1>3, <1>4
  <2>3. ASSUME NEW s \in Nat, s <= d, from[k].idx = i + s
        PROVE  from[k].idx \in Nat /\ Gap(i, from[k].idx) /\ from[k].idx <= j
    <3> HIDE DEF i, j, d
    <3>1. Gap(i, i + d) /\ i + s \in Nat /\ i + d \in Nat /\ i <= i + s /\ i + s <= i + d /\ i + s <= j
      BY <2>1, <2>3 DEF Gap
    <3>2. Gap(i, i + s)
      BY <2>1, <3>1, GapShorter
    <3> QED BY <2>3, <3>1, <3>2
  <2>4. CASE from[k].idx = j /\ White(i, j)
    <3> HIDE DEF i, j, d
    <3>1. i <= j
      BY <2>1
    <3> QED BY <2>1, <2>2, <2>4, <3>1 DEF Gap, j
  <2>5. (\E s \in Nat : s <= d /\ from[k].idx = i + s) \/ (from[k].idx = j /\ White(i, j))
    OBVIOUS
  <2> QED BY <2>2, <2>3, <2>4, <2>5
<1>8. Tiles(b[1], Pieces(token, ls, from), b[n + 1])
  <2> HIDE DEF n
  <2>1. DOMAIN ls = 1..n
    BY DEF n
  <2> QED BY <1>1, <1>6, <1>7, <2>1, PiecesTile
<1> QED BY <1>5, <1>8

\* The tokens of a text, with what is left out in front of each, take it up to where it is cut off.
LEMMA TextTokensTile ==
  ASSUME src \in Sources, NEW kind, NEW token \in Kinds, NEW p \in Place, NEW raw, LinesFrom(p, raw)
  PROVE  LET cut == CutAt(kind, raw, Last(ind))
             q == IF cut # 0 THEN raw[cut].start ELSE Last(raw).end
         IN Tiles(p.idx, TextTokens(kind, raw, token), q.idx)
<1> DEFINE cut == CutAt(kind, raw, Last(ind))
           q == IF cut # 0 THEN raw[cut].start ELSE Last(raw).end
           lines == LinesKept(raw, cut)
           deep == {m \in 2..Len(lines) : ~lines[m].blank \/ (kind = "comment" /\ ClosingOnly(kind, lines[m]))}
           level == StripLevel({lines[k].indent : k \in deep})
           skip(k) == IF k = 1 \/ lines[k].blank THEN 0 ELSE Min({level, lines[k].indent})
           from == [k \in DOMAIN lines |->
                     IF ClosingOnly(kind, lines[k]) THEN lines[k].end ELSE Content(lines[k], skip(k), k = 1)]
           n == Len(lines)
<1>1. Len(raw) \in Nat \ {0} /\ Last(raw) = raw[Len(raw)]
  BY DEF LinesFrom, Last
<1>2. cut = 0 \/ cut \in 2..Len(raw)
  BY <1>1, CutFacts
<1>3. TextTokens(kind, raw, token) = Pieces(token, lines, from)
  BY DEF TextTokens, LinesKept
<1> HIDE DEF cut
<1>4. /\ LinesFrom(p, lines) /\ (cut = 0 => n = Len(raw)) /\ (cut # 0 => n = cut - 1)
      /\ \A k \in 1..n : k \in 1..Len(raw) /\ lines[k] = raw[k]
  BY <1>2, KeptFacts
<1> HIDE DEF lines
<1>5. Rows(lines) /\ n \in Nat \ {0} /\ DOMAIN lines = 1..n /\ lines[1].start.idx = p.idx /\ n \in 1..n
  BY <1>4, RowsOf
<1>6. \A k \in 1..n : /\ lines[k].start \in Place /\ lines[k].end \in Place /\ lines[k].indent \in Nat
                      /\ lines[k].blank \in BOOLEAN
  BY <1>4, LineTypes
<1>7. lines[n].end.idx = q.idx
  <2>1. CASE cut = 0
    BY <1>1, <1>4, <1>5, <2>1
  <2>2. CASE cut # 0
    <3>1. cut - 1 \in 1..(Len(raw) - 1) /\ (cut - 1) + 1 = cut /\ n = cut - 1 /\ lines[n] = raw[cut - 1]
      BY <1>1, <1>2, <1>4, <1>5, <2>2
    <3>2. raw[cut - 1].end = raw[cut].start
      BY <3>1 DEF LinesFrom
    <3> QED BY <2>2, <3>1, <3>2
  <2> QED BY <2>1, <2>2
<1>8. level \in Nat
  <2>1. deep \subseteq 1..n
    BY <1>5
  <2>2. {lines[k].indent : k \in deep} \subseteq Nat
    BY <1>6, <2>1
  <2> HIDE DEF deep
  <2> QED BY <2>2, LevelFacts
<1> HIDE DEF level
<1>9. \A k \in 1..n : skip(k) \in Nat /\ skip(k) <= Bare(lines[k])
  <2> TAKE k \in 1..n
  <2>1. Min({level, lines[k].indent}) \in Nat /\ Min({level, lines[k].indent}) <= lines[k].indent
    BY <1>6, <1>8, LeastOfTwo
  <2>2. lines[k].indent \in Nat /\ lines[k].blank \in BOOLEAN
    BY <1>6
  <2> QED BY <2>1, <2>2 DEF Bare
<1> HIDE DEF skip
<1>10. ASSUME NEW k \in 1..n
       PROVE  \/ \E s \in Nat : s <= Bare(lines[k]) /\ from[k].idx = lines[k].start.idx + s
              \/ from[k].idx = lines[k].end.idx /\ White(lines[k].start.idx, lines[k].end.idx)
  <2>1. from[k] = IF ClosingOnly(kind, lines[k]) THEN lines[k].end ELSE Content(lines[k], skip(k), k = 1)
    BY <1>5
  <2> HIDE DEF from
  <2>2. CASE ClosingOnly(kind, lines[k])
    <3>1. lines[k].blank
      BY <2>2 DEF ClosingOnly
    <3>2. White(lines[k].start.idx, lines[k].end.idx)
      BY <1>4, <3>1 DEF LinesFrom
    <3> QED BY <2>1, <2>2, <3>2
  <2>3. CASE ~ClosingOnly(kind, lines[k])
    <3>1. from[k] = Content(lines[k], skip(k), k = 1)
      BY <2>1, <2>3
    <3>2. from[k].idx = lines[k].start.idx + skip(k)
      BY <3>1 DEF Content, Pos
    <3> QED BY <1>9, <3>2
  <2> QED BY <2>2, <2>3
<1> HIDE DEF from, q
<1>11. Tiles(lines[1].start.idx, Pieces(token, lines, from), lines[n].end.idx)
  BY <1>5, <1>10, RowsTile
<1> QED BY <1>3, <1>5, <1>7, <1>11 DEF q, cut

LEMMA EndsTile ==
  ASSUME src \in Sources, Stack(ind), NEW col \in Nat, NEW p \in Place, p.idx <= Len(src)
  PROVE  BlockEnds(col, p) \in Seq(Tokens_) /\ Tiles(p.idx, BlockEnds(col, p), p.idx)
<1>1. /\ BlockEnds(col, p) \in Seq(Tokens_)
      /\ \A k \in 1..Len(BlockEnds(col, p)) : BlockEnds(col, p)[k] = Mark("BlockEnd", p)
  BY BlockEndsFacts
<1>2. Mark("BlockEnd", p).start.idx = p.idx /\ Mark("BlockEnd", p).end.idx = p.idx
  BY DEF Mark
<1>3. p.idx \in Nat
  BY DEF Place
<1> HIDE DEF Mark
<1> QED BY <1>1, <1>2, <1>3, TilesMarks

LEMMA StringTextTiles == LexInv /\ Tiles(0, Made, pos.idx) /\ StringText => TileInv'
<1> SUFFICES ASSUME LexInv, Tiles(0, Made, pos.idx), StringText PROVE TileInv'
  OBVIOUS
<1> DEFINE raw == RawLines("text", pos)
           cut == CutAt("text", raw, Last(ind))
           p == IF cut # 0 THEN raw[cut].start ELSE Last(raw).end
           low == cut # 0 \/ (Unended(raw) /\ p.col < Last(ind))
           stop == cut # 0 \/ Unended(raw)
           a == TextTokens("text", raw, "StrText")
           b == IF low THEN BlockEnds(p.col, p) ELSE <<>>
           c == IF stop THEN <<Mark("Err", p)>> ELSE <<>>
<1>1. /\ Reading /\ Top.m = "StrText" /\ ~Overrun(raw) /\ pos' = p
      /\ mode' = IF stop THEN Front(mode) ELSE mode
      /\ IF a \o b \o c = <<>> THEN Give(Mark("StrText", p)) /\ UNCHANGED pending ELSE Queue(a \o b \o c)
      /\ UNCHANGED <<src, started, panicked>>
  BY DEF StringText, ReadText
<1>2. /\ src \in Sources /\ Len(src) \in Nat /\ pos \in Place /\ pos.idx \in Nat /\ pos.idx <= Len(src)
      /\ Stack(ind) /\ toks \in Seq(Tokens_) /\ pending = <<>>
  BY <1>1, InvFacts, NoEnd
<1>3. LinesFrom(pos, raw)
  BY <1>2, RawLinesFacts
<1>4. Len(raw) \in Nat \ {0} /\ Last(raw) = raw[Len(raw)] /\ Len(raw) \in 1..Len(raw)
  BY <1>3 DEF LinesFrom, Last
<1>5. Last(raw).end.idx <= Len(src)
  <2>1. ~(Last(raw).end.idx > Len(src))
    BY <1>1 DEF Overrun
  <2> HIDE DEF raw
  <2>2. Last(raw).end.idx \in Nat
    BY <1>2, <1>3, <1>4, LineTypes
  <2> QED BY <1>2, <2>1, <2>2
<1>6. "StrText" \in Kinds /\ "Err" \in Kinds
  BY DEF Kinds
<1>7. a \in Seq(Tokens_) /\ (cut = 0 \/ cut \in 2..Len(raw)) /\ Tiles(pos.idx, a, p.idx)
  <2> HIDE DEF raw
  <2> QED BY <1>2, <1>3, <1>5, <1>6, TextTokensFacts, TextTokensTile
<1> HIDE DEF a, raw
<1>8. p \in Place /\ p.idx <= Len(src) /\ p.idx \in Nat /\ p.col \in Nat /\ p.idx >= pos.idx
  <2>1. 0 \in Nat /\ 0 <= Len(raw) /\ (cut # 0 => 0 <= cut - 1)
    BY <1>4, <1>7
  <2> HIDE DEF cut
  <2> QED BY <1>2, <1>3, <1>5, <1>7, <2>1, TextReaches
<1>9. b \in Seq(Tokens_) /\ Tiles(p.idx, b, p.idx)
  <2>1. CASE low
    <3>1. b = BlockEnds(p.col, p)
      BY <2>1
    <3> HIDE DEF p, low, b
    <3> QED BY <1>2, <1>8, <3>1, EndsTile
  <2>2. CASE ~low
    <3>1. b = <<>>
      BY <2>2
    <3> HIDE DEF p, low, b
    <3> QED BY <1>8, <3>1, NoTokens, GapSame, TilesNone
  <2> QED BY <2>1, <2>2
<1>10. c \in Seq(Tokens_) /\ Tiles(p.idx, c, p.idx)
  <2>1. CASE stop
    <3> DEFINE t == Mark("Err", p)
    <3>1. t \in Tokens_ /\ t.kind = "Err"
      BY <1>2, <1>6, <1>8, TokenFacts
    <3>2. c = <<t>>
      BY <2>1
    <3> HIDE DEF p, stop, c, t
    <3>3. <<t>> \in Seq(Tokens_)
      BY <3>1
    <3> QED BY <1>8, <3>1, <3>2, <3>3, TilesError
  <2>2. CASE ~stop
    <3>1. c = <<>>
      BY <2>2
    <3> HIDE DEF p, stop, c
    <3> QED BY <1>8, <3>1, NoTokens, GapSame, TilesNone
  <2> QED BY <2>1, <2>2
<1>11. Last(mode').m # "StrBlock"
  <2>1. CASE stop
    <3>1. mode' = Front(mode) /\ Top.m # "Block" /\ Top.m # "StrExpr"
      BY <1>1, <2>1
    <3>2. Last(mode').m \notin TextModes
      BY <3>1, Left
    <3> QED BY <3>2 DEF TextModes
  <2>2. CASE ~stop
    <3>1. mode' = mode
      BY <1>1, <2>2
    <3> QED BY <1>1, <3>1 DEF Top
  <2> QED BY <2>1, <2>2
<1>12. pos'.idx = p.idx
  BY <1>1
<1> HIDE DEF b, c, p, stop, low, cut
<1>13. a \o b \o c \in Seq(Tokens_) /\ Tiles(pos.idx, a \o b \o c, p.idx)
  <2> DEFINE ab == a \o b
  <2>1. ab \in Seq(Tokens_)
    <3> HIDE DEF Tokens_
    <3> QED BY <1>7, <1>9
  <2>2. Tiles(pos.idx, ab, p.idx)
    BY <1>2, <1>7, <1>8, <1>9, TilesConcat
  <2> HIDE DEF ab
  <2>3. ab \o c \in Seq(Tokens_)
    <3> HIDE DEF Tokens_
    <3> QED BY <1>10, <2>1
  <2>4. Tiles(pos.idx, ab \o c, p.idx)
    BY <1>2, <1>8, <1>10, <2>1, <2>2, TilesConcat
  <2> QED BY <2>3, <2>4 DEF ab
<1>14. CASE a \o b \o c # <<>>
  <2> DEFINE u == a \o b \o c
  <2>1. Queue(u) /\ u \in Seq(Tokens_) /\ u # <<>> /\ Tiles(pos.idx, u, pos'.idx)
    BY <1>1, <1>12, <1>13, <1>14
  <2> HIDE DEF u
  <2>2. Adds(u)
    BY <1>2, <2>1, GaveAll
  <2> HIDE DEF LexInv, Reading
  <2> QED BY <1>1, <1>8, <1>11, <1>12, <2>1, <2>2, TileStepInCode
<1>15. CASE a \o b \o c = <<>>
  <2> DEFINE t == Mark("StrText", p)
  <2>1. t \in Tokens_ /\ t.start = p /\ t.end = p
    BY <1>2, <1>6, <1>8, TokenFacts DEF Mark
  <2>2. Give(t) /\ pending' = pending
    BY <1>1, <1>15
  <2> HIDE DEF t
  <2>3. Adds(<<t>>)
    BY <1>2, <2>1, <2>2, GaveOne
  <2>4. Gap(pos.idx, p.idx)
    <3>1. Tiles(pos.idx, <<>>, p.idx)
      BY <1>13, <1>15
    <3>2. Len(<<>>) = 0 /\ 1 \in 1..(0 + 1) /\ \A m \in 1..0 : FALSE
      OBVIOUS
    <3>3. NoErr(<<>>, 1)
      BY <3>2 DEF NoErr
    <3> QED BY <3>1, <3>2, <3>3 DEF Tiles, LeftOf, RightOf
  <2>5. Tiles(pos.idx, <<t>>, pos'.idx)
    BY <1>8, <1>12, <2>1, <2>4, GapSame, TilesOne
  <2> HIDE DEF LexInv, Reading
  <2> QED BY <1>1, <1>8, <1>11, <1>12, <2>3, <2>5, TileStepInCode
<1> QED BY <1>14, <1>15

LEMMA BlockCommentTiles == LexInv /\ Tiles(0, Made, pos.idx) /\ BlockComment => TileInv'
<1> SUFFICES ASSUME LexInv, Tiles(0, Made, pos.idx), BlockComment PROVE TileInv'
  OBVIOUS
<1> DEFINE p0 == Moved(pos, pos.idx + 3)
           raw == RawLines("comment", p0)
           cut == CutAt("comment", raw, Last(ind))
           p == IF cut # 0 THEN raw[cut].start ELSE Last(raw).end
           close == Moved(p, p.idx + 3)
           t == Token("CommentStart", pos, p0)
           texts == TextTokens("comment", raw, "CommentText")
           b == IF cut # 0 THEN BlockEnds(p.col, p) ELSE <<>>
           closed == cut = 0 /\ ~Unended(raw)
           e == IF closed THEN Token("CommentEnd", p, close) ELSE Mark("Err", p)
           last == TextEnd("comment", p0.idx)
<1>1. /\ InCode /\ Fence(pos.idx) /\ Give(t)
      /\ pending' = texts \o (IF cut # 0 THEN Append(BlockEnds(p.col, p), Mark("Err", p))
                              ELSE IF Unended(raw) THEN <<Mark("Err", p)>>
                              ELSE <<Token("CommentEnd", p, close)>>)
      /\ pos' = IF closed THEN close ELSE p
      /\ UNCHANGED <<src, mode, started, panicked>>
  BY DEF BlockComment, ReadComment
<1>2. At(pos.idx + 2) = "-"
  BY <1>1 DEF Fence
<1>3. /\ Reading /\ src \in Sources /\ Len(src) \in Nat /\ pos \in Place /\ pos.idx \in Nat
      /\ Stack(ind) /\ toks \in Seq(Tokens_) /\ Last(mode').m # "StrBlock"
  BY <1>1, CodeFacts, InvFacts
<1>4. pos.idx + 3 \in Nat /\ pos.idx + 3 <= Len(src)
  <2>1. At(pos.idx + 2) # NoByte /\ pos.idx + 2 \in Int
    BY <1>2, <1>3, NotTheEnd
  <2>2. pos.idx + 2 \in 0..(Len(src) - 1)
    BY <1>3, <2>1, SourceFacts
  <2> QED BY <1>3, <2>2
<1>5. p0 \in Place /\ p0.idx = pos.idx + 3 /\ p0.idx \in Nat
  BY <1>3, <1>4, MovedFacts
<1>6. "CommentStart" \in Kinds /\ "CommentText" \in Kinds /\ "CommentEnd" \in Kinds /\ "Err" \in Kinds
  BY DEF Kinds
<1>7. t \in Tokens_ /\ t.start = pos /\ t.end = p0
  BY <1>3, <1>4, <1>5, <1>6, TokenFacts DEF Token
<1> HIDE DEF p0
<1>8. LinesFrom(p0, raw) /\ Last(raw).end.idx = last /\ Last(raw).at = At(last)
  BY <1>3, <1>4, <1>5, RawLinesFacts
<1>9. last \in Nat /\ last <= Len(src) /\ (last < Len(src) => Fence(last))
  <2>1. /\ last \in p0.idx..(Len(src) + 1) /\ last <= Len(src)
        /\ last >= Len(src) \/ Closes("comment", last)
    BY <1>3, <1>4, <1>5, TextEndFacts
  <2>2. Closes("comment", last) => Fence(last)
    BY DEF Closes
  <2> HIDE DEF last
  <2> QED BY <1>3, <1>4, <1>5, <2>1, <2>2
<1>10. Len(raw) \in Nat \ {0}
  BY <1>8 DEF LinesFrom
<1>11. texts \in Seq(Tokens_) /\ (cut = 0 \/ cut \in 2..Len(raw)) /\ Tiles(p0.idx, texts, p.idx)
  <2> HIDE DEF raw, last
  <2> QED BY <1>3, <1>5, <1>6, <1>8, <1>9, TextTokensFacts, TextTokensTile
<1> HIDE DEF raw, last, texts
<1>12. p \in Place /\ p.idx <= Len(src) /\ p.idx \in Nat /\ p.col \in Nat
  <2>1. 0 \in Nat /\ 0 <= Len(raw) /\ (cut # 0 => 0 <= cut - 1)
    BY <1>10, <1>11
  <2> HIDE DEF cut
  <2> QED BY <1>3, <1>5, <1>8, <1>9, <1>11, <2>1, TextReaches
<1>13. ASSUME closed PROVE p.idx + 3 \in Nat /\ p.idx + 3 <= Len(src)
  <2>1. p.idx = last /\ At(last) # NoByte
    BY <1>8, <1>13 DEF Unended
  <2>2. last < Len(src)
    BY <1>3, <1>9, <2>1, SourceFacts
  <2>3. At(last + 2) = "-"
    BY <1>9, <2>2 DEF Fence
  <2>4. At(last + 2) # NoByte /\ last + 2 \in Int
    BY <1>9, <2>3, NotTheEnd
  <2>5. last + 2 \in 0..(Len(src) - 1)
    BY <1>3, <2>4, SourceFacts
  <2> HIDE DEF p
  <2> QED BY <1>3, <1>9, <1>12, <2>1, <2>5
<1> HIDE DEF p
<1>14. e \in Tokens_ /\ pos'.idx \in Nat /\ Tiles(p.idx, <<e>>, pos'.idx)
  <2>1. CASE closed
    <3>1. close \in Place /\ close.idx = p.idx + 3
      BY <1>12, <1>13, <2>1, MovedFacts
    <3> HIDE DEF close
    <3>2. /\ Token("CommentEnd", p, close) \in Tokens_
          /\ Token("CommentEnd", p, close).start = p /\ Token("CommentEnd", p, close).end = close
      BY <1>3, <1>6, <1>12, <1>13, <2>1, <3>1, TokenFacts DEF Token
    <3>3. e = Token("CommentEnd", p, close) /\ pos' = close
      BY <1>1, <2>1
    <3> HIDE DEF e, closed
    <3>4. close.idx \in Nat /\ p.idx <= close.idx
      BY <1>12, <3>1
    <3>5. Tiles(p.idx, <<e>>, close.idx)
      BY <1>12, <3>2, <3>3, <3>4, GapSame, TilesOne
    <3> QED BY <3>2, <3>3, <3>4, <3>5
  <2>2. CASE ~closed
    <3>1. Mark("Err", p) \in Tokens_ /\ Mark("Err", p).kind = "Err"
      BY <1>3, <1>6, <1>12, TokenFacts
    <3>2. e = Mark("Err", p) /\ pos' = p
      BY <1>1, <2>2
    <3> HIDE DEF e, closed
    <3> QED BY <1>12, <3>1, <3>2, TilesError
  <2> QED BY <2>1, <2>2
<1>15. b \in Seq(Tokens_) /\ Tiles(p.idx, b, p.idx)
  <2>1. CASE cut # 0
    <3>1. b = BlockEnds(p.col, p)
      BY <2>1
    <3> HIDE DEF b, cut
    <3> QED BY <1>3, <1>12, <3>1, EndsTile
  <2>2. CASE cut = 0
    <3>1. b = <<>>
      BY <2>2
    <3> HIDE DEF b, cut
    <3> QED BY <1>12, <3>1, NoTokens, GapSame, TilesNone
  <2> QED BY <2>1, <2>2
<1> DEFINE c == <<e>>
<1>16. c \in Seq(Tokens_) /\ Tiles(p.idx, c, pos'.idx)
  <2> HIDE DEF e
  <2> QED BY <1>14
<1>17. pending' = texts \o (b \o c)
  <2>1. CASE cut # 0
    <3>1. b = BlockEnds(p.col, p) /\ e = Mark("Err", p)
      BY <2>1
    <3>2. pending' = texts \o Append(b, e)
      BY <1>1, <2>1, <3>1
    <3> HIDE DEF b, e, Tokens_
    <3>3. Append(b, e) = b \o c
      BY <1>14, <1>15
    <3> QED BY <3>2, <3>3
  <2>2. CASE cut = 0
    <3>1. b = <<>>
      BY <2>2
    <3>2. pending' = texts \o c
      BY <1>1, <2>2
    <3> HIDE DEF b, e, Tokens_
    <3>3. b \o c = c
      BY <1>14, <1>15, <3>1
    <3> QED BY <3>2, <3>3
  <2> QED BY <2>1, <2>2
<1> HIDE DEF t, e, b, c, closed, cut
<1> DEFINE bc == b \o c
<1>18. bc \in Seq(Tokens_) /\ Tiles(p.idx, bc, pos'.idx)
  <2>1. bc \in Seq(Tokens_)
    <3> HIDE DEF Tokens_
    <3> QED BY <1>15, <1>16
  <2>2. Tiles(p.idx, bc, pos'.idx)
    BY <1>12, <1>14, <1>15, <1>16, TilesConcat
  <2> QED BY <2>1, <2>2
<1>19. pending' = texts \o bc
  BY <1>17
<1> HIDE DEF bc
<1>20. texts \o bc \in Seq(Tokens_) /\ Tiles(p0.idx, texts \o bc, pos'.idx)
  <2>1. texts \o bc \in Seq(Tokens_)
    <3> HIDE DEF Tokens_
    <3> QED BY <1>11, <1>18
  <2>2. Tiles(p0.idx, texts \o bc, pos'.idx)
    BY <1>5, <1>11, <1>12, <1>14, <1>18, TilesConcat
  <2> QED BY <2>1, <2>2
<1>21. <<t>> \in Seq(Tokens_) /\ Tiles(pos.idx, <<t>>, p0.idx)
  <2>1. <<t>> \in Seq(Tokens_)
    <3> HIDE DEF Tokens_
    <3> QED BY <1>7
  <2>2. Tiles(pos.idx, <<t>>, p0.idx)
    <3>1. t.start.idx = pos.idx /\ t.end.idx = p0.idx /\ pos.idx <= p0.idx
      BY <1>3, <1>5, <1>7
    <3> QED BY <1>3, <1>5, <3>1, GapSame, TilesOne
  <2> QED BY <2>1, <2>2
<1>g. Give(t)
  BY <1>1
<1> DEFINE w == texts \o bc
<1>w. w \in Seq(Tokens_) /\ Tiles(p0.idx, w, pos'.idx) /\ pending' = w
  BY <1>19, <1>20
<1> HIDE DEF w
<1>22. Adds(<<t>> \o w)
  BY <1>3, <1>7, <1>g, <1>w, GaveFirst
<1>23. Tiles(pos.idx, <<t>> \o w, pos'.idx)
  BY <1>3, <1>5, <1>14, <1>21, <1>w, TilesConcat
<1> HIDE DEF LexInv, Reading
<1> QED BY <1>1, <1>3, <1>14, <1>22, <1>23, TileStepInCode

-----------------------------------------------------------------------------
(* Block strings *)

\* The newline in front of a block string that has no line: no token has taken it.
LEMMA TilesBack ==
  ASSUME LexInv, Reading, TileInv, Top.m = "StrBlock", ~InterpAt(pos.idx),
         NEW i \in Nat, i + 1 = pos.idx, At(i) = "\n"
  PROVE  Tiles(0, Made, i)
<1>1. Made \in Seq(Tokens_) /\ pos.idx \in Nat /\ Tiles(0, Made, pos.idx)
  BY NoEnd, InvFacts DEF TileInv
<1> DEFINE n == Len(Made)
<1>2. n \in Nat
  <2> HIDE DEF Tokens_
  <2> QED BY <1>1
<1>3. At(pos.idx - 1) = "\n"
  <2>1. pos.idx - 1 = i
    BY <1>1
  <2> QED BY <2>1
<1>4. NoErr(Made, n) => LeftOf(0, Made, n + 1) < pos.idx
  BY <1>3 DEF TileInv, BackStep
<1> SUFFICES ASSUME NEW k \in 1..(n + 1), NoErr(Made, k)
             PROVE  /\ Gap(LeftOf(0, Made, k), RightOf(Made, i, k))
                    /\ k <= n => Made[k].start.idx <= Made[k].end.idx
  BY DEF Tiles
<1>5. /\ Gap(LeftOf(0, Made, k), RightOf(Made, pos.idx, k))
      /\ k <= n => Made[k].start.idx <= Made[k].end.idx
  BY <1>1 DEF Tiles
<1>6. CASE k = n + 1
  <2>1. NoErr(Made, n)
    <3>1. \A m \in 1..n : m <= k
      BY <1>2, <1>6
    <3> QED BY <3>1 DEF NoErr
  <2>2. RightOf(Made, pos.idx, k) = pos.idx /\ RightOf(Made, i, k) = i
    BY <1>6 DEF RightOf
  <2>3. LeftOf(0, Made, k) \in Nat
    BY <1>1, EndTypes
  <2>4. LeftOf(0, Made, k) <= i /\ i <= pos.idx
    BY <1>1, <1>4, <1>6, <2>1, <2>3
  <2>5. Gap(LeftOf(0, Made, k), i)
    BY <1>1, <1>5, <2>2, <2>3, <2>4, GapShorter
  <2> QED BY <1>5, <2>2, <2>5
<1>7. CASE k # n + 1
  <2>1. RightOf(Made, i, k) = RightOf(Made, pos.idx, k)
    BY <1>7 DEF RightOf
  <2> QED BY <1>5, <2>1
<1> QED BY <1>6, <1>7

\* The last line without its newline, or all lines but an empty last one.
LEMMA TrimmedRows ==
  ASSUME src \in Sources, NEW q \in Place,
         NEW lines, LinesFrom(q, lines), Last(lines).end.idx <= Len(src)
  PROVE  LET raw == Trimmed(lines)
             p == Behind(lines, raw)
         IN /\ Len(raw) # 0 => /\ Rows(raw) /\ raw[1].start.idx = q.idx /\ raw[Len(raw)].end.idx = p.idx
            /\ Len(raw) = 0 => (p.idx = q.idx \/ p.idx + 1 = q.idx) /\ At(p.idx) = "\n"
<1> DEFINE n == Len(lines)
           l == Last(lines)
           e == l.end.idx - 1
           cutline == [l EXCEPT !.end = Pos(e, @.line - 1, l.start.col + Width(l.start.idx, e))]
           raw == Trimmed(lines)
           p == Behind(lines, raw)
<1>1. lines \in Seq(Lines_) /\ n \in Nat \ {0} /\ l = lines[n] /\ n \in 1..n /\ 1 \in 1..n
  BY DEF LinesFrom, Last
<1>2. Rows(lines) /\ lines[1].start.idx = q.idx
  BY RowsOf
<1>3. l.start.idx \in Nat /\ l.end.idx \in Nat /\ l.start.idx <= l.end.idx /\ l \in Lines_
  BY <1>1, LineTypes DEF LinesFrom
<1>4. raw = IF At(e) # "\n" THEN lines
            ELSE IF e <= l.start.idx THEN Front(lines)
            ELSE Append(Front(lines), cutline)
  BY DEF Trimmed
<1>5. /\ Front(lines) \in Seq(Lines_) /\ Len(Front(lines)) = n - 1
      /\ \A k \in 1..(n - 1) : Front(lines)[k] = lines[k] /\ k \in 1..n
  BY <1>1, ShorterFacts
<1>6. CASE At(e) # "\n"
  <2>1. raw = lines
    BY <1>4, <1>6
  <2> HIDE DEF raw, e
  <2>2. lines # <<>> /\ n # 0
    BY <1>1
  <2>3. p = l.end
    BY <2>1, <2>2 DEF Behind
  <2> QED BY <1>1, <1>2, <2>1, <2>2, <2>3 DEF raw, p
<1>7. CASE At(e) = "\n" /\ e <= l.start.idx
  <2>1. raw = Front(lines)
    BY <1>4, <1>7
  <2>2. CASE n = 1
    <3>1. raw = <<>> /\ Len(raw) = 0
      BY <1>5, <2>1, <2>2
    <3>2. p = Pos(e, l.end.line - 1, 0)
      BY <3>1 DEF Behind
    <3>3. p.idx = e
      BY <3>2 DEF Pos
    <3>4. e = q.idx \/ e + 1 = q.idx
      BY <1>1, <1>2, <1>3, <1>7, <2>2
    <3> HIDE DEF e, p, raw
    <3> QED BY <1>7, <3>1, <3>3, <3>4 DEF p, raw
  <2>3. CASE n # 1
    <3>1. n - 1 \in 1..n /\ n - 1 \in 1..(n - 1) /\ n - 1 \in Nat /\ 1 \in 1..(n - 1) /\ n - 1 # 0
      <4> HIDE DEF n
      <4> QED BY <1>1, <2>3
    <3> DEFINE m == n - 1
    <3>2. Len(raw) = m /\ m \in Nat /\ m \in 1..m /\ 1 \in 1..m /\ m < n /\ m # 0
      <4>1. m < n
        <5> HIDE DEF n
        <5> QED BY <1>1
      <4> QED BY <1>5, <2>1, <3>1, <4>1
    <3>3. \A k \in 1..m : raw[k] = lines[k] /\ k \in 1..n
      BY <1>5, <2>1
    <3> HIDE DEF m, raw
    <3>4. raw # <<>> /\ Last(raw) = raw[m]
      BY <3>2 DEF Last
    <3>5. p.idx = raw[Len(raw)].end.idx
      BY <3>2, <3>4 DEF Behind
    <3>6. Rows(raw)
      <4>1. ASSUME NEW k \in 1..m, k < m PROVE raw[k].end.idx = raw[k + 1].start.idx
        <5>1. k + 1 \in 1..m /\ k < n
          BY <1>1, <3>2, <4>1
        <5>2. lines[k].end.idx = lines[k + 1].start.idx
          BY <1>2, <3>3, <5>1 DEF Rows
        <5> QED BY <3>3, <5>1, <5>2
      <4> QED BY <1>2, <3>2, <3>3, <4>1 DEF Rows
    <3>7. raw[1].start.idx = q.idx
      BY <1>2, <3>2, <3>3
    <3> HIDE DEF p
    <3> QED BY <3>2, <3>5, <3>6, <3>7 DEF raw, p
  <2> QED BY <2>2, <2>3
<1>8. CASE At(e) = "\n" /\ ~(e <= l.start.idx)
  <2> DEFINE end == Pos(e, l.end.line - 1, l.start.col + Width(l.start.idx, e))
             m == n - 1
  <2>1. raw = Append(Front(lines), cutline)
    BY <1>4, <1>8
  <2>2. e \in Nat /\ l.start.idx < e /\ e + 1 = l.end.idx
    BY <1>3, <1>8
  <2>3. cutline.end.idx = e /\ cutline.start = l.start /\ cutline.indent = l.indent /\ cutline.blank = l.blank
    <3>1. cutline = [l EXCEPT !.end = end] /\ end.idx = e
      BY DEF Pos
    <3> HIDE DEF end, l, e
    <3> QED BY <1>3, <3>1 DEF Lines_
  <2>4. Bare(cutline) = Bare(l)
    BY <2>3 DEF Bare
  <2>5. /\ Bare(l) \in Nat /\ l.start.idx + Bare(l) <= e
        /\ White(l.start.idx, l.start.idx + Bare(l))
    <3>1. Bare(l) \in Nat /\ l.start.idx + Bare(l) <= l.end.idx /\ White(l.start.idx, l.start.idx + Bare(l))
      BY <1>1, <1>2 DEF Rows
    <3>2. l.indent \in Nat /\ l.blank \in BOOLEAN
      BY <1>3 DEF Lines_
    <3>3. CASE l.blank
      <4>1. Bare(l) = 0
        BY <3>3 DEF Bare
      <4> HIDE DEF e, l
      <4> QED BY <1>3, <2>2, <3>1, <4>1
    <3>4. CASE ~l.blank
      <4>1. l.start.idx + l.indent < l.end.idx /\ Bare(l) = l.indent
        BY <1>1, <3>4 DEF LinesFrom, Bare
      <4> HIDE DEF e, l
      <4> QED BY <1>3, <2>2, <3>1, <3>2, <4>1
    <3> QED BY <3>3, <3>4
  <2> HIDE DEF cutline, raw, e
  <2>6. m \in Nat /\ m + 1 = n
    <3> HIDE DEF n
    <3> QED BY <1>1
  <2>7. Len(raw) = n /\ raw[n] = cutline /\ \A k \in 1..m : raw[k] = lines[k] /\ k \in 1..n
    <3> DEFINE f == Front(lines)
    <3>1. f \in Seq(Lines_) /\ Len(f) = m /\ \A k \in 1..m : f[k] = lines[k] /\ k \in 1..n
      BY <1>5
    <3>2. raw = Append(f, cutline)
      BY <2>1
    <3> HIDE DEF f, m, Lines_, n
    <3>3. Len(raw) = m + 1 /\ raw[m + 1] = cutline /\ \A k \in 1..m : raw[k] = f[k]
      BY <2>6, <3>1, <3>2
    <3> QED BY <2>6, <3>1, <3>3
  <2> HIDE DEF m
  <2>8. raw # <<>> /\ Last(raw) = cutline /\ n # 0
    BY <1>1, <2>7 DEF Last
  <2>9. p.idx = e
    BY <2>3, <2>8 DEF Behind
  <2>10. \A k \in 1..n : k = n \/ (k \in 1..m /\ k < n)
    <3> HIDE DEF n
    <3> QED BY <1>1, <2>6
  <2>11. \A k \in 1..n : raw[k].start = lines[k].start
    BY <1>1, <2>3, <2>7, <2>10
  <2>12. ASSUME NEW k \in 1..n
         PROVE /\ raw[k].start.idx \in Nat /\ raw[k].end.idx \in Nat /\ Bare(raw[k]) \in Nat
               /\ raw[k].start.idx + Bare(raw[k]) <= raw[k].end.idx
               /\ White(raw[k].start.idx, raw[k].start.idx + Bare(raw[k]))
               /\ k < n => raw[k].end.idx = raw[k + 1].start.idx
    <3>1. CASE k = n
      <4> HIDE DEF l
      <4>1. ~(k < n)
        BY <1>1, <3>1
      <4> QED BY <1>3, <2>2, <2>3, <2>4, <2>5, <2>7, <3>1, <4>1
    <3>2. CASE k \in 1..m /\ k < n
      <4>1. raw[k] = lines[k] /\ k + 1 \in 1..n
        BY <1>1, <2>7, <3>2
      <4>2. lines[k].end.idx = lines[k + 1].start.idx
        BY <1>2, <3>2 DEF Rows
      <4>3. raw[k].end.idx = raw[k + 1].start.idx
        BY <2>11, <4>1, <4>2
      <4> QED BY <1>2, <4>1, <4>3 DEF Rows
    <3> QED BY <2>10, <3>1, <3>2
  <2>13. Rows(raw)
    BY <2>7, <2>12 DEF Rows
  <2> HIDE DEF p
  <2> QED BY <1>1, <1>2, <2>3, <2>7, <2>8, <2>9, <2>11, <2>13 DEF raw, p
<1> QED BY <1>6, <1>7, <1>8

LEMMA BlockTextTiles == LexInv /\ TileInv /\ BlockText => TileInv'
<1> SUFFICES ASSUME LexInv, TileInv, BlockText PROVE TileInv'
  OBVIOUS
<1> DEFINE sameLine == pos.col > 0
           lines == BlockLines(pos, Top.floor)
           interp == InterpAt(Last(lines).end.idx)
           raw == IF interp THEN lines ELSE Trimmed(lines)
           Inline(k) == k = 1 /\ sameLine
           level == StripLevel({raw[k].indent : k \in {m \in DOMAIN raw : ~raw[m].blank /\ ~Inline(m)}})
           skip(k) == IF raw[k].blank THEN 0 ELSE IF Inline(k) THEN raw[k].indent
                      ELSE Min({level, raw[k].indent})
           from == [k \in DOMAIN raw |-> Content(raw[k], skip(k), TRUE)]
           texts == Pieces("StrText", raw, from)
           p == Behind(lines, raw)
           n == Len(raw)
           e == Mark("StrEnd", p)
<1>1. /\ Reading /\ Top.m = "StrBlock" /\ ~InterpAt(pos.idx)
      /\ UNCHANGED <<src, ind, started, panicked>>
      /\ \/ /\ mode' = Front(mode) /\ Give(Mark("Err", pos))
            /\ pending' = <<Mark("StrEnd", pos)>> /\ UNCHANGED pos
         \/ /\ ~Overrun(lines) /\ pos' = p
            /\ mode' = IF interp THEN mode ELSE Front(mode)
            /\ Queue(IF interp THEN texts ELSE Append(texts, e))
  BY DEF BlockText, ReadBlock, Behind
<1>2. /\ src \in Sources /\ Len(src) \in Nat /\ pos \in Place /\ pos.idx \in Nat /\ pos.idx <= Len(src)
      /\ pos.line > 0 /\ toks \in Seq(Tokens_) /\ pending = <<>> /\ Tiles(0, Made, pos.idx)
  BY <1>1, InvFacts, NoEnd DEF TextModes, TileInv
<1>3. "StrText" \in Kinds /\ "StrEnd" \in Kinds /\ "Err" \in Kinds
  BY DEF Kinds
<1>4. ASSUME mode' = Front(mode) PROVE Last(mode').m # "StrBlock"
  <2>1. Top.m # "Block" /\ Top.m # "StrExpr"
    BY <1>1
  <2>2. Last(mode').m \notin TextModes
    BY <1>4, <2>1, Left
  <2> QED BY <2>2 DEF TextModes
<1>5. CASE /\ mode' = Front(mode) /\ Give(Mark("Err", pos))
           /\ pending' = <<Mark("StrEnd", pos)>> /\ UNCHANGED pos
  <2> DEFINE t == Mark("Err", pos)
             f == Mark("StrEnd", pos)
  <2>1. t \in Tokens_ /\ t.kind = "Err" /\ f \in Tokens_ /\ f.start = pos /\ f.end = pos
    BY <1>2, <1>3, TokenFacts DEF Mark
  <2>2. Give(t) /\ pending' = <<f>> /\ pos'.idx = pos.idx
    BY <1>5
  <2> HIDE DEF t, f
  <2>3. <<f>> \in Seq(Tokens_) /\ <<t>> \in Seq(Tokens_)
    <3> HIDE DEF Tokens_
    <3> QED BY <2>1
  <2>4. Adds(<<t>> \o <<f>>)
    BY <1>2, <2>1, <2>2, <2>3, GaveFirst
  <2>5. Tiles(pos.idx, <<t>>, pos.idx) /\ Tiles(pos.idx, <<f>>, pos.idx)
    BY <1>2, <2>1, GapSame, TilesError, TilesOne
  <2>6. Tiles(pos.idx, <<t>> \o <<f>>, pos'.idx)
    BY <1>2, <2>2, <2>3, <2>5, TilesConcat
  <2>7. Last(mode').m # "StrBlock"
    BY <1>4, <1>5
  <2>8. pos'.idx \in Nat
    BY <1>2, <2>2
  <2> HIDE DEF LexInv, Reading
  <2> QED BY <1>1, <1>2, <2>4, <2>6, <2>7, <2>8, TileStepInCode
<1>6. CASE /\ ~Overrun(lines) /\ pos' = p
           /\ mode' = IF interp THEN mode ELSE Front(mode)
           /\ Queue(IF interp THEN texts ELSE Append(texts, e))
  <2>1. LinesFrom(pos, lines) /\ Last(lines).end.idx <= Len(src)
    <3>1. LinesFrom(pos, lines)
      BY <1>2, BlockLinesFacts
    <3>2. ~(Last(lines).end.idx > Len(src))
      BY <1>6 DEF Overrun
    <3> HIDE DEF lines
    <3>3. Len(lines) \in 1..Len(lines) /\ Last(lines) = lines[Len(lines)]
      BY <3>1 DEF LinesFrom, Last
    <3>4. Last(lines).end.idx \in Nat
      BY <1>2, <3>1, <3>3, LineTypes
    <3> QED BY <1>2, <3>1, <3>2, <3>4
  <2> HIDE DEF lines
  <2>l. Len(lines) \in Nat \ {0} /\ Last(lines) = lines[Len(lines)] /\ Len(lines) \in 1..Len(lines) /\ lines # <<>>
    BY <2>1 DEF LinesFrom, Last
  <2>2. /\ Readable(raw) /\ p \in Place /\ p.idx <= Len(src)
        /\ n # 0 => /\ Rows(raw) /\ raw[1].start.idx = pos.idx /\ raw[n].end.idx = p.idx
        /\ n = 0 => (p.idx = pos.idx \/ p.idx + 1 = pos.idx) /\ At(p.idx) = "\n" /\ ~interp
        /\ interp => InterpAt(p.idx)
    <3>1. CASE interp
      <4>1. raw = lines /\ Readable(lines)
        BY <1>2, <2>1, <3>1, ReadableLines
      <4>2. p = lines[Len(lines)].end
        BY <2>l, <4>1 DEF Behind
      <4>3. lines[Len(lines)].end \in Place
        BY <1>2, <2>1, <2>l, LineTypes
      <4>4. Rows(lines) /\ lines[1].start.idx = pos.idx
        BY <1>2, <2>1, RowsOf
      <4>5. InterpAt(p.idx)
        BY <2>l, <3>1, <4>2
      <4> HIDE DEF p, raw, interp
      <4> QED BY <2>1, <2>l, <4>1, <4>2, <4>3, <4>4, <4>5
    <3>2. CASE ~interp
      <4>1. raw = Trimmed(lines)
        BY <3>2
      <4> HIDE DEF raw, interp
      <4>2. Readable(raw) /\ p \in Place /\ p.idx <= Len(src)
        BY <1>2, <2>1, <4>1, TrimmedFacts
      <4>3. /\ n # 0 => /\ Rows(raw) /\ raw[1].start.idx = pos.idx /\ raw[n].end.idx = p.idx
            /\ n = 0 => (p.idx = pos.idx \/ p.idx + 1 = pos.idx) /\ At(p.idx) = "\n"
        BY <1>2, <2>1, <4>1, TrimmedRows
      <4> HIDE DEF p, n
      <4> QED BY <3>2, <4>2, <4>3
    <3> QED BY <3>1, <3>2
  <2> HIDE DEF raw
  <2>3. n \in Nat /\ DOMAIN raw = 1..n /\ \A k \in 1..n : raw[k] \in Lines_ /\ raw[k].end.idx <= Len(src)
    <3> HIDE DEF Lines_
    <3> QED BY <2>2 DEF Readable
  <2>4. \A k \in 1..n : raw[k].end \in Place /\ raw[k].start \in Place /\ raw[k].indent \in Nat
                        /\ raw[k].blank \in BOOLEAN
    BY <2>3 DEF Lines_
  <2>5. level \in Nat
    <3> DEFINE S == {raw[k].indent : k \in {m \in DOMAIN raw : ~raw[m].blank /\ ~Inline(m)}}
    <3>1. S \subseteq Nat
      BY <2>3, <2>4
    <3> HIDE DEF S
    <3>2. StripLevel(S) \in Nat
      BY <3>1, LevelFacts
    <3> QED BY <3>2 DEF S
  <2> HIDE DEF level
  <2>6. \A k \in 1..n : skip(k) \in Nat /\ skip(k) <= raw[k].indent /\ (raw[k].blank => skip(k) = 0)
    <3> TAKE k \in 1..n
    <3>1. raw[k] \in Lines_ /\ Inline(k) \in BOOLEAN
      BY <2>3
    <3> HIDE DEF Inline, Lines_
    <3> QED BY <2>5, <3>1, SkipFacts
  <2> HIDE DEF skip
  <2>7. \A k \in 1..n : from[k] \in Place /\ from[k].idx = raw[k].start.idx + skip(k)
    <3> TAKE k \in 1..n
    <3>1. from[k] = Content(raw[k], skip(k), TRUE)
      BY <2>3
    <3> HIDE DEF from
    <3> QED BY <2>4, <2>6, <3>1, ContentFacts
  <2> HIDE DEF from
  <2>8. /\ texts \in Seq(Tokens_) /\ Len(texts) <= n /\ Len(texts) \in Nat
        /\ (\E k \in 1..n : from[k].idx # raw[k].end.idx) => texts # <<>>
    <3>1. /\ texts \in Seq(Tokens_) /\ Len(texts) <= n
          /\ (\E k \in 1..n : from[k].idx # raw[k].end.idx) => texts # <<>>
      BY <1>2, <1>3, <2>3, <2>4, <2>7, PiecesFacts
    <3>2. Len(texts) \in Nat
      <4> HIDE DEF texts, Tokens_
      <4> QED BY <3>1
    <3> QED BY <3>1, <3>2
  <2>x. ASSUME interp PROVE texts # <<>>
    <3>1. raw = lines /\ 1 \in 1..n /\ n # 0
      BY <2>2, <2>3, <2>l, <2>x DEF raw
    <3>2. p.idx # pos.idx
      BY <1>1, <2>2, <2>x
    <3>3. lines[1].start = pos
      BY <2>1 DEF LinesFrom
    <3>4. from[1].idx = pos.idx + skip(1) /\ skip(1) \in Nat /\ skip(1) <= raw[1].indent
          /\ (raw[1].blank => skip(1) = 0)
      BY <2>6, <2>7, <3>1, <3>3
    <3>5. raw[1].end.idx \in Nat /\ raw[1].indent \in Nat
      BY <2>4, <3>1 DEF Place
    <3> HIDE DEF p
    <3>6. CASE ~raw[1].blank
      <4>1. pos.idx + raw[1].indent < raw[1].end.idx
        BY <2>1, <3>1, <3>3, <3>6 DEF LinesFrom
      <4>2. from[1].idx # raw[1].end.idx
        BY <1>2, <3>4, <3>5, <4>1
      <4> QED BY <2>8, <3>1, <4>2
    <3>7. CASE raw[1].blank
      <4>1. from[1].idx = pos.idx
        BY <1>2, <3>4, <3>7
      <4>2. raw[1].end.idx # pos.idx
        <5>1. CASE n = 1
          BY <2>2, <3>1, <3>2, <5>1
        <5>2. CASE n # 1
          <6>1. 1 \in 1..(Len(lines) - 1)
            BY <2>3, <3>1, <5>2
          <6>2. lines[1].start.idx < lines[1].end.idx
            BY <2>1, <6>1 DEF LinesFrom
          <6> QED BY <1>2, <3>1, <3>3, <3>5, <6>2
        <5> QED BY <5>1, <5>2
      <4> QED BY <2>8, <3>1, <4>1, <4>2
    <3> QED BY <3>6, <3>7
  <2>9. ASSUME n # 0 PROVE Tiles(pos.idx, texts, p.idx)
    <3>1. \A k \in 1..n : \E s \in Nat : s <= Bare(raw[k]) /\ from[k].idx = raw[k].start.idx + s
      <4> TAKE k \in 1..n
      <4>1. skip(k) \in Nat /\ skip(k) <= Bare(raw[k])
        BY <2>4, <2>6 DEF Bare
      <4> QED BY <2>7, <4>1
    <3>2. n \in Nat \ {0} /\ Rows(raw) /\ raw[1].start.idx = pos.idx /\ raw[n].end.idx = p.idx
      BY <2>2, <2>3, <2>9
    <3>3. Tiles(raw[1].start.idx, Pieces("StrText", raw, from), raw[n].end.idx)
      BY <1>2, <1>3, <2>3, <3>1, <3>2, RowsTile
    <3> QED BY <3>2, <3>3
  <2>10. p.idx \in Nat
    BY <2>2 DEF Place
  <2>11. e \in Tokens_ /\ e.start = p /\ e.end = p
    <3>1. e.start = p /\ e.end = p
      BY DEF Mark
    <3> HIDE DEF p
    <3> QED BY <1>2, <1>3, <2>2, <3>1, TokenFacts
  <2> HIDE DEF e
  <2>12. <<e>> \in Seq(Tokens_) /\ Tiles(p.idx, <<e>>, p.idx)
    <3>1. <<e>> \in Seq(Tokens_)
      <4> HIDE DEF Tokens_
      <4> QED BY <2>11
    <3>2. Tiles(p.idx, <<e>>, p.idx)
      <4> HIDE DEF p
      <4> QED BY <2>10, <2>11, GapSame, TilesOne
    <3> QED BY <3>1, <3>2
  <2> HIDE DEF texts
  <2> DEFINE i == IF n = 0 THEN p.idx ELSE pos.idx
             u == IF interp THEN texts ELSE texts \o <<e>>
  <2>13. u \in Seq(Tokens_) /\ Tiles(i, u, p.idx) /\ i \in Nat
    <3>1. Tiles(i, texts, p.idx)
      <4>1. CASE n = 0
        <5>1. texts = <<>>
          <6> HIDE DEF Tokens_
          <6> QED BY <2>8, <4>1
        <5>2. i = p.idx
          BY <4>1
        <5> HIDE DEF i, p
        <5> QED BY <2>10, <5>1, <5>2, GapSame, TilesNone
      <4>2. CASE n # 0
        BY <2>9, <4>2
      <4> QED BY <4>1, <4>2
    <3>2. i \in Nat
      BY <1>2, <2>10
    <3> HIDE DEF i, p
    <3>3. CASE interp
      <4>1. u = texts
        BY <3>3
      <4> QED BY <2>8, <3>1, <3>2, <4>1
    <3>4. CASE ~interp
      <4>1. u = texts \o <<e>>
        BY <3>4
      <4> HIDE DEF u
      <4>2. u \in Seq(Tokens_)
        <5> HIDE DEF Tokens_
        <5> QED BY <2>8, <2>12, <4>1
      <4>3. Tiles(i, u, p.idx)
        BY <2>8, <2>10, <2>12, <3>1, <3>2, <4>1, TilesConcat
      <4> QED BY <3>2, <4>2, <4>3
    <3> QED BY <3>3, <3>4
  <2>14. Tiles(0, Made, i)
    <3>1. CASE n # 0 \/ p.idx = pos.idx
      <4>1. i = pos.idx
        BY <3>1
      <4> QED BY <1>2, <4>1
    <3>2. CASE n = 0 /\ p.idx # pos.idx
      <4>1. i = p.idx /\ p.idx + 1 = pos.idx /\ At(p.idx) = "\n"
        BY <2>2, <3>2
      <4> HIDE DEF i, p, LexInv, Reading
      <4> QED BY <1>1, <2>10, <4>1, TilesBack
    <3> QED BY <3>1, <3>2
  <2> HIDE DEF i
  <2>15. u # <<>> /\ Queue(u)
    <3>1. u = IF interp THEN texts ELSE Append(texts, e)
      <4>1. Append(texts, e) = texts \o <<e>>
        <5> HIDE DEF Tokens_
        <5> QED BY <2>8, <2>11
      <4> QED BY <4>1
    <3>2. Queue(u)
      BY <1>6, <3>1
    <3>3. ASSUME ~interp PROVE u # <<>>
      <4>1. u = texts \o <<e>>
        BY <3>3
      <4> HIDE DEF u, Tokens_
      <4>2. Len(u) = Len(texts) + 1
        BY <2>8, <2>12, <4>1
      <4>3. Len(u) # 0
        BY <2>8, <4>2
      <4> QED BY <4>3
    <3>4. ASSUME interp PROVE u # <<>>
      BY <2>x, <3>4 DEF u
    <3> QED BY <3>2, <3>3, <3>4
  <2> HIDE DEF u
  <2>16. Adds(u)
    BY <1>2, <2>13, <2>15, GaveAll
  <2>17. BackStep'
    <3>1. CASE interp
      <4>1. InterpAt(p.idx) /\ pos' = p /\ src' = src
        BY <1>1, <1>6, <2>2, <3>1
      <4>2. InterpAt(pos.idx)'
        BY <4>1 DEF InterpAt, At
      <4> QED BY <4>2 DEF BackStep
    <3>2. CASE ~interp
      <4>1. Last(mode').m # "StrBlock"
        BY <1>4, <1>6, <3>2
      <4> QED BY <4>1 DEF BackStep, Top
    <3> QED BY <3>1, <3>2
  <2>18. pos'.idx = p.idx
    BY <1>6
  <2> HIDE DEF LexInv, Reading, p
  <2> QED BY <1>1, <2>10, <2>13, <2>14, <2>16, <2>17, <2>18, TileStepFrom
<1> QED BY <1>1, <1>5, <1>6

-----------------------------------------------------------------------------
(* The theorems *)

LEMMA TileInitHolds == LexInit => TileInv
<1> SUFFICES ASSUME LexInit PROVE TileInv
  OBVIOUS
<1>1. pos.idx = 0 /\ Made = <<>> /\ mode = <<Block>>
  BY DEF LexInit, Pos, Made
<1>2. Tiles(0, Made, pos.idx)
  BY <1>1, GapSame, TilesNone
<1>3. Top.m = "Block"
  BY <1>1 DEF Top, Last, Block
<1> QED BY <1>2, <1>3 DEF TileInv, BackStep

LEMMA TileStepKeeps == LexInv /\ TileInv /\ [Scan]_lexVars => TileInv'
<1> SUFFICES ASSUME LexInv, TileInv, [Scan]_lexVars PROVE TileInv'
  OBVIOUS
<1>1. CASE UNCHANGED lexVars \/ Panic
  <2>1. UNCHANGED <<src, pos, mode, started>> /\ UNCHANGED <<toks, pending>>
    BY <1>1 DEF lexVars, Panic
  <2>2. Made' = Made
    BY <2>1 DEF Made
  <2> HIDE DEF TileInv
  <2> QED BY <2>1, <2>2, SameTiles
<1>2. Tiles(0, Made, pos.idx)
  BY DEF TileInv
<1> HIDE DEF LexInv, TileInv
<1>3. CASE Drain \/ Start \/ Newline \/ Blank \/ AtEnd
  BY <1>2, <1>3, DrainTiles, StartTiles, NewlineTiles, BlankTiles, AtEndTiles
<1>4. CASE Open \/ Close \/ Punct \/ Number \/ Ident \/ Op
  BY <1>2, <1>4, OpenTiles, CloseTiles, PunctTiles, NumberTiles, IdentTiles, OpTiles
<1>5. CASE LineComment \/ BlockComment \/ OpenString \/ OpenBlockString \/ OpenInterp \/ CloseInterp
           \/ CloseString
  BY <1>2, <1>5, LineCommentTiles, BlockCommentTiles, OpenStringTiles, OpenBlockStringTiles,
     OpenInterpTiles, CloseInterpTiles, CloseStringTiles
<1>6. CASE StringText \/ BlockText
  BY <1>2, <1>6, StringTextTiles, BlockTextTiles
<1> QED BY <1>1, <1>3, <1>4, <1>5, <1>6 DEF Scan

\* For every text: the tokens made so far take it up to the position of the lexer.
THEOREM TileInvHolds == LexSpec => []TileInv
<1>1. LexInit => TileInv
  BY TileInitHolds
<1>2. LexInv /\ TileInv /\ [Scan]_lexVars => TileInv'
  BY TileStepKeeps
<1> QED BY <1>1, <1>2, LexInvHolds, PTL DEF LexSpec

\* For every text and every set of operators: up to the first error the tokens come in the
\* order of the text, and what lies between two of them is white space, through every string,
\* comment and block, and every token the lexer has buffered (next_token,
\* consume_str_text, consume_str_block_text, consume_block_comment).
THEOREM TokensTileTheText == LexSpec => []Tiled
<1>1. LexInv /\ TileInv => Tiled
  <2> SUFFICES ASSUME LexInv, TileInv PROVE Tiled
    OBVIOUS
  <2>1. toks \in Seq(Tokens_) /\ pending \in Seq(Tokens_)
    BY DEF LexInv, Typed
  <2>2. Len(Made) \in Nat
    <3> HIDE DEF Tokens_
    <3> QED BY <2>1 DEF Made
  <2> SUFFICES ASSUME NEW k \in 2..Len(Made), Clean(k)
               PROVE  /\ Made[k - 1].end.idx <= Made[k].start.idx
                      /\ Made[k].start.idx <= Made[k].end.idx
                      /\ White(Made[k - 1].end.idx, Made[k].start.idx)
    BY DEF Tiled
  <2>3. k \in 1..(Len(Made) + 1) /\ k <= Len(Made) /\ k # 1 /\ k # Len(Made) + 1 /\ k \in Nat
    BY <2>2
  <2>4. NoErr(Made, k)
    <3>1. \A m \in 1..Len(Made) : m <= k => m \in 1..k
      BY <2>2
    <3> QED BY <3>1 DEF NoErr, Clean
  <2>5. Gap(LeftOf(0, Made, k), RightOf(Made, pos.idx, k)) /\ Made[k].start.idx <= Made[k].end.idx
    BY <2>3, <2>4 DEF TileInv, Tiles
  <2>6. LeftOf(0, Made, k) = Made[k - 1].end.idx /\ RightOf(Made, pos.idx, k) = Made[k].start.idx
    BY <2>3 DEF LeftOf, RightOf
  <2> QED BY <2>5, <2>6 DEF Gap
<1> QED BY <1>1, LexInvHolds, TileInvHolds, PTL
=============================================================================
