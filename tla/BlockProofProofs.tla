-------------------------- MODULE BlockProofProofs --------------------------
(***************************************************************************)
(* Proofs about the tree of a block and the proof of work over it, for     *)
(* lists of transactions of any length, and any servers and messages.      *)
(***************************************************************************)
EXTENDS BlockProof, Lemmas

-----------------------------------------------------------------------------
(* Functions with the domain of a list. *)
IsList(f, n) == n \in Nat /\ f = [i \in 1 .. n |-> f[i]]

LEMMA ListFacts ==
  ASSUME NEW f, NEW n, IsList(f, n)
  PROVE  Len(f) = n /\ DOMAIN f = 1 .. n
<1>1. f \in [1 .. n -> {f[i] : i \in 1 .. n}]
  BY DEF IsList
<1> QED
  BY <1>1 DEF IsList

LEMMA SameLists ==
  ASSUME NEW f, NEW g, NEW n, IsList(f, n), IsList(g, n), \A i \in 1 .. n : f[i] = g[i]
  PROVE  f = g
  BY DEF IsList

LEMMA PaddedFacts ==
  ASSUME NEW S, NEW data \in Seq(S), data # << >>
  PROVE  /\ Len(data) \in Nat \ {0}
         /\ IsList(Padded(data), Len(data) + (Len(data) % 2))
         /\ \A i \in 1 .. Len(data) : Padded(data)[i] = data[i]
         /\ Len(data) % 2 = 1 => Padded(data)[Len(data) + 1] = data[Len(data)]
<1>1. Len(data) \in Nat \ {0} /\ Len(data) % 2 \in 0 .. 1 /\ data[Len(data)] \in S
  OBVIOUS
<1>2. CASE Len(data) % 2 = 1
  <2>1. Padded(data) = Append(data, data[Len(data)])
    BY <1>2 DEF Padded, Last
  <2> QED
    BY <1>1, <1>2, <2>1 DEF IsList
<1>3. CASE Len(data) % 2 = 0
  <2>1. Padded(data) = data
    BY <1>3 DEF Padded
  <2> QED
    BY <1>1, <1>3, <2>1 DEF IsList
<1> QED
  BY <1>1, <1>2, <1>3

(* The levels are what NewMerkleTree makes of them, one after the other. *)
LEMMA LevelsAre ==
  ASSUME NEW data, Len(data) \in Nat
  PROVE  /\ Levels(data)[0] = [i \in DOMAIN Padded(data) |-> HashLeaf(Padded(data)[i])]
         /\ \A k \in 1 .. Len(data) : Levels(data)[k] = Parents(Levels(data)[k - 1])
<1> DEFINE N == Len(data)
           Value(g, k) == IF k = 0 THEN [i \in DOMAIN Padded(data) |-> HashLeaf(Padded(data)[i])]
                          ELSE Parents(g[k - 1])
           Good == {n \in Nat : \E g : g = [k \in 0 .. n |-> Value(g, k)]}
           Built == CHOOSE g : g = [k \in 0 .. N |-> Value(g, k)]
<1>1. 0 \in Good
  <2> DEFINE g == [k \in 0 .. 0 |-> Value(<< >>, 0)]
  <2>1. g = [k \in 0 .. 0 |-> Value(g, k)]
    OBVIOUS
  <2> QED
    BY <2>1
<1>2. ASSUME NEW n \in Nat, n \in Good PROVE n + 1 \in Good
  <2>1. PICK g : g = [k \in 0 .. n |-> Value(g, k)]
    BY <1>2
  <2> DEFINE h == [k \in 0 .. n + 1 |-> IF k = n + 1 THEN Value(g, k) ELSE g[k]]
  <2>2. ASSUME NEW k \in 0 .. n + 1 PROVE h[k] = Value(h, k)
    <3>1. h[k] = Value(g, k)
      <4>1. CASE k = n + 1
        BY <4>1
      <4>2. CASE k # n + 1
        <5>1. h[k] = g[k] /\ k \in 0 .. n
          BY <4>2
        <5> HIDE DEF h, Value
        <5> QED
          BY <2>1, <5>1
      <4> QED
        BY <4>1, <4>2
    <3>2. k # 0 => h[k - 1] = g[k - 1]
      OBVIOUS
    <3> HIDE DEF h
    <3> QED
      BY <3>1, <3>2
  <2>3. h = [k \in 0 .. n + 1 |-> Value(h, k)]
    <3>1. h = [k \in 0 .. n + 1 |-> h[k]]
      OBVIOUS
    <3> HIDE DEF h, Value
    <3> QED
      BY <2>2, <3>1
  <2> HIDE DEF h, Value
  <2> QED
    BY <2>3
<1>3. N \in Good
  <2> HIDE DEF Good
  <2> QED
    BY <1>1, <1>2, Induction
<1>4. Built = [k \in 0 .. N |-> Value(Built, k)]
  <2> HIDE DEF Value
  <2> QED
    BY <1>3
<1>5. Levels(data) = Built
  BY DEF Levels
<1> HIDE DEF Built
<1>6. \A k \in 0 .. N : Built[k] = Value(Built, k)
  <2> HIDE DEF Value
  <2> QED
    BY <1>4
<1> QED
  BY <1>5, <1>6

(* How long a level is, and what its nodes are. *)
Size(data, k) == Len(Levels(data)[k])

LEMMA LevelFacts ==
  ASSUME NEW S, NEW data \in Seq(S), data # << >>
  PROVE  /\ Size(data, 0) = Len(data) + (Len(data) % 2) /\ Size(data, 0) % 2 = 0
         /\ Size(data, 0) \in 2 .. Len(data) + 1
         /\ \A i \in 1 .. Size(data, 0) : Levels(data)[0][i] = <<Padded(data)[i]>>
         /\ \A k \in 0 .. Len(data) :
               Size(data, k) \in Nat /\ IsList(Levels(data)[k], Size(data, k))
         /\ \A k \in 1 .. Len(data) :
               /\ Size(data, k) = Size(data, k - 1) \div 2
               /\ \A j \in 1 .. Size(data, k) :
                     Levels(data)[k][j] = <<Levels(data)[k - 1][2 * j - 1], Levels(data)[k - 1][2 * j]>>
<1> DEFINE N == Len(data)
           M == N + (N % 2)
           Fine == {k \in Nat : k <= N => Size(data, k) \in Nat /\ IsList(Levels(data)[k], Size(data, k))}
<1>1. /\ N \in Nat \ {0} /\ M \in 2 .. N + 1 /\ M % 2 = 0
      /\ IsList(Padded(data), M) /\ DOMAIN Padded(data) = 1 .. M
  BY PaddedFacts, ListFacts
<1>2. /\ IsList(Levels(data)[0], M)
      /\ \A i \in 1 .. M : Levels(data)[0][i] = <<Padded(data)[i]>>
  BY <1>1, LevelsAre DEF IsList, HashLeaf
<1>3. Size(data, 0) = M
  BY <1>2, ListFacts DEF Size
<1>4. ASSUME NEW k \in 1 .. N, Size(data, k - 1) \in Nat
      PROVE  /\ Size(data, k) = Size(data, k - 1) \div 2 /\ IsList(Levels(data)[k], Size(data, k))
             /\ \A j \in 1 .. Size(data, k) :
                   Levels(data)[k][j] = <<Levels(data)[k - 1][2 * j - 1], Levels(data)[k - 1][2 * j]>>
  <2>1. Levels(data)[k] = Parents(Levels(data)[k - 1])
    BY <1>1, LevelsAre
  <2>2. Levels(data)[k] = [j \in 1 .. Size(data, k - 1) \div 2 |->
                              <<Levels(data)[k - 1][2 * j - 1], Levels(data)[k - 1][2 * j]>>]
    BY <2>1 DEF Parents, Size, HashPair
  <2>3. IsList(Levels(data)[k], Size(data, k - 1) \div 2)
    BY <1>4, <2>2 DEF IsList
  <2>4. Size(data, k) = Size(data, k - 1) \div 2
    BY <2>3, ListFacts DEF Size
  <2> QED
    BY <2>2, <2>3, <2>4
<1>5. 0 \in Fine
  BY <1>1, <1>2, <1>3
<1>6. ASSUME NEW k \in Nat, k \in Fine PROVE k + 1 \in Fine
  <2>1. ASSUME k + 1 <= N
        PROVE  Size(data, k + 1) \in Nat /\ IsList(Levels(data)[k + 1], Size(data, k + 1))
    <3>1. k + 1 \in 1 .. N /\ (k + 1) - 1 = k /\ Size(data, k) \in Nat
      BY <1>6, <2>1
    <3> QED
      BY <1>4, <3>1
  <2> QED
    BY <2>1
<1>7. Nat \subseteq Fine
  <2> HIDE DEF Fine
  <2> QED
    BY <1>5, <1>6, Induction
<1>8. \A k \in 0 .. N : Size(data, k) \in Nat /\ IsList(Levels(data)[k], Size(data, k))
  BY <1>1, <1>7
<1>9. ASSUME NEW k \in 1 .. N PROVE Size(data, k - 1) \in Nat
  <2>1. k - 1 \in 0 .. N
    BY <1>1
  <2> QED
    BY <1>8, <2>1
<1>10. \A k \in 1 .. N :
          /\ Size(data, k) = Size(data, k - 1) \div 2
          /\ \A j \in 1 .. Size(data, k) :
                Levels(data)[k][j] = <<Levels(data)[k - 1][2 * j - 1], Levels(data)[k - 1][2 * j]>>
  BY <1>4, <1>9
<1> QED
  BY <1>1, <1>2, <1>3, <1>8, <1>10


LEMMA HalfFacts ==
  ASSUME NEW a \in Nat, NEW b \in Nat, b = a \div 2, b % 2 # 1, a >= 2, NEW k \in Nat, NEW n \in Nat, a + k <= n
  PROVE  b >= 2 /\ b + (k + 1) <= n
  OBVIOUS

(* Some level is of odd length, the lowest of these is the top, and the    *)
(* levels below are each twice as long as the next.                        *)
LEMMA TopFacts ==
  ASSUME NEW S, NEW data \in Seq(S), data # << >>
  PROVE  /\ Top(data) \in 1 .. Len(data) /\ Size(data, Top(data)) % 2 = 1
         /\ \A k \in 0 .. Top(data) - 1 :
               Size(data, k) % 2 = 0 /\ Size(data, k) = 2 * Size(data, k + 1)
<1> DEFINE N == Len(data)
           Odd == {k \in 0 .. N : Size(data, k) % 2 = 1}
           Falls == {k \in Nat : k <= N => Size(data, k) >= 2 /\ Size(data, k) + k <= N + 1}
<1>1. /\ N \in Nat \ {0} /\ Size(data, 0) \in 2 .. N + 1 /\ Size(data, 0) % 2 = 0
      /\ \A k \in 0 .. N : Size(data, k) \in Nat
      /\ \A k \in 1 .. N : Size(data, k) = Size(data, k - 1) \div 2
  BY LevelFacts, PaddedFacts
<1>2. ASSUME Odd = {} PROVE FALSE
  <2>1. 0 \in Falls
    BY <1>1
  <2>2. ASSUME NEW k \in Nat, k \in Falls PROVE k + 1 \in Falls
    <3>1. ASSUME k + 1 <= N PROVE Size(data, k + 1) >= 2 /\ Size(data, k + 1) + (k + 1) <= N + 1
      <4>1. k \in 0 .. N /\ k + 1 \in 0 .. N /\ k + 1 \in 1 .. N /\ (k + 1) - 1 = k
        BY <1>1, <3>1
      <4>2. Size(data, k) >= 2 /\ Size(data, k) + k <= N + 1
        BY <2>2, <4>1
      <4>3. Size(data, k + 1) = Size(data, k) \div 2 /\ Size(data, k + 1) % 2 # 1
        BY <1>1, <1>2, <4>1
      <4>4. Size(data, k) \in Nat /\ Size(data, k + 1) \in Nat
        BY <1>1, <4>1
      <4> QED
        BY <1>1, <4>2, <4>3, <4>4, HalfFacts, SMTT(30)
    <3> QED
      BY <3>1
  <2>3. Nat \subseteq Falls
    <3> HIDE DEF Falls
    <3> QED
      BY <2>1, <2>2, Induction
  <2>4. Size(data, N) >= 2 /\ Size(data, N) + N <= N + 1 /\ N \in 0 .. N
    BY <1>1, <2>3
  <2> QED
    BY <1>1, <2>4
<1>3. PICK t \in Odd : \A k \in Odd : t <= k
  <2>1. Odd \in SUBSET Nat
    OBVIOUS
  <2> HIDE DEF Odd
  <2> QED
    BY <1>2, <2>1, SmallestExists
<1> DEFINE IsTop(k) == /\ Len(Levels(data)[k]) % 2 = 1
                       /\ \A i \in 0 .. k - 1 : Len(Levels(data)[i]) % 2 = 0
<1>4. t \in 0 .. N /\ IsTop(t)
  <2>1. t \in 0 .. N /\ Size(data, t) % 2 = 1
    BY <1>3
  <2>2. ASSUME NEW i \in 0 .. t - 1 PROVE Size(data, i) % 2 = 0
    <3>1. i \in 0 .. N /\ ~(t <= i)
      BY <1>1, <2>1
    <3>2. i \notin Odd
      BY <1>3, <3>1
    <3> QED
      BY <1>1, <3>1, <3>2
  <2> QED
    BY <2>1, <2>2 DEF Size
<1>5. Top(data) \in 0 .. N /\ IsTop(Top(data))
  <2>1. Top(data) = CHOOSE k \in 0 .. N : IsTop(k)
    BY DEF Top
  <2> HIDE DEF IsTop
  <2> QED
    BY <1>4, <2>1
<1>6. /\ Size(data, Top(data)) % 2 = 1
      /\ \A k \in 0 .. Top(data) - 1 : Size(data, k) % 2 = 0
  BY <1>5 DEF Size
<1>7. Top(data) # 0
  BY <1>1, <1>6
<1>8. ASSUME NEW k \in 0 .. Top(data) - 1 PROVE Size(data, k) = 2 * Size(data, k + 1)
  <2>1. k \in 0 .. N /\ k + 1 \in 0 .. N /\ k + 1 \in 1 .. N /\ (k + 1) - 1 = k
    BY <1>1, <1>5
  <2>2. Size(data, k) % 2 = 0 /\ Size(data, k + 1) = Size(data, k) \div 2 /\ Size(data, k) \in Nat
    BY <1>1, <1>6, <2>1
  <2> QED
    BY <2>2
<1> QED
  BY <1>1, <1>5, <1>6, <1>7, <1>8

(* The levels of a tree whose root is that of a higher tree are the upper  *)
(* levels of that one.                                                     *)
LEMMA UpperLevels ==
  ASSUME NEW S, NEW data \in Seq(S), data # << >>, NEW T, NEW other \in Seq(T), other # << >>,
         Builds(data), Builds(other), RootNode(data) = RootNode(other),
         Top(data) <= Top(other)
  PROVE  \A j \in 0 .. Top(data) : Levels(data)[Top(data) - j] = Levels(other)[Top(other) - j]
<1> DEFINE k == Top(data)
           l == Top(other)
           Same == {j \in Nat : j <= k => Levels(data)[k - j] = Levels(other)[l - j]}
<1>1. /\ k \in 1 .. Len(data) /\ \A i \in 0 .. k - 1 : Size(data, i) = 2 * Size(data, i + 1)
      /\ l \in 1 .. Len(other) /\ \A i \in 0 .. l - 1 : Size(other, i) = 2 * Size(other, i + 1)
      /\ Len(data) \in Nat /\ Len(other) \in Nat
  BY TopFacts
<1>2. /\ \A i \in 0 .. Len(data) : Size(data, i) \in Nat /\ IsList(Levels(data)[i], Size(data, i))
      /\ \A i \in 0 .. Len(other) : Size(other, i) \in Nat /\ IsList(Levels(other)[i], Size(other, i))
  BY LevelFacts
<1>3. 0 \in Same
  <2>1. /\ IsList(Levels(data)[k], Size(data, k)) /\ IsList(Levels(other)[l], Size(other, l))
    BY <1>1, <1>2
  <2>2. Size(data, k) = 1 /\ Size(other, l) = 1 /\ Levels(data)[k][1] = Levels(other)[l][1]
    BY DEF Builds, RootNode, Size
  <2>3. Levels(data)[k] = Levels(other)[l]
    BY <2>1, <2>2, SameLists
  <2> QED
    BY <1>1, <2>3
<1>4. ASSUME NEW j \in Nat, j \in Same PROVE j + 1 \in Same
  <2> SUFFICES ASSUME j + 1 <= k PROVE Levels(data)[k - (j + 1)] = Levels(other)[l - (j + 1)]
    OBVIOUS
  <2> DEFINE a == k - (j + 1)
             b == l - (j + 1)
  <2>1. /\ a \in 0 .. Len(data) /\ a \in 0 .. k - 1 /\ a + 1 \in 1 .. Len(data) /\ a + 1 = k - j
        /\ b \in 0 .. Len(other) /\ b \in 0 .. l - 1 /\ b + 1 \in 1 .. Len(other) /\ b + 1 = l - j
        /\ (a + 1) - 1 = a /\ (b + 1) - 1 = b
    BY <1>1, SMTT(30)
  <2>2. Levels(data)[a + 1] = Levels(other)[b + 1]
    BY <1>1, <1>4, <2>1, SMTT(30)
  <2> HIDE DEF a, b, k, l, Same
  <2>3. /\ Size(data, a) = 2 * Size(data, a + 1) /\ Size(other, b) = 2 * Size(other, b + 1)
        /\ Size(data, a + 1) = Size(other, b + 1)
    BY <1>1, <2>1, <2>2 DEF Size
  <2>4. /\ IsList(Levels(data)[a], Size(data, a)) /\ IsList(Levels(other)[b], Size(data, a))
        /\ Size(data, a + 1) \in Nat
    BY <1>2, <2>1, <2>3
  <2>5. ASSUME NEW m \in 1 .. Size(data, a + 1)
        PROVE  /\ Levels(data)[a][2 * m - 1] = Levels(other)[b][2 * m - 1]
               /\ Levels(data)[a][2 * m] = Levels(other)[b][2 * m]
    <3>1. Levels(data)[a + 1][m] = <<Levels(data)[a][2 * m - 1], Levels(data)[a][2 * m]>>
      <4>1. Levels(data)[a + 1][m] = <<Levels(data)[(a + 1) - 1][2 * m - 1], Levels(data)[(a + 1) - 1][2 * m]>>
        BY <2>1, LevelFacts
      <4> QED
        BY <2>1, <4>1
    <3>2. Levels(other)[b + 1][m] = <<Levels(other)[b][2 * m - 1], Levels(other)[b][2 * m]>>
      <4>1. Levels(other)[b + 1][m] = <<Levels(other)[(b + 1) - 1][2 * m - 1], Levels(other)[(b + 1) - 1][2 * m]>>
        <5>1. m \in 1 .. Size(other, b + 1)
          BY <2>3
        <5> QED
          BY <2>1, <5>1, LevelFacts
      <4> QED
        BY <2>1, <4>1
    <3> QED
      BY <2>2, <3>1, <3>2
  <2>6. ASSUME NEW i \in 1 .. Size(data, a) PROVE Levels(data)[a][i] = Levels(other)[b][i]
    <3>1. \E m \in 1 .. Size(data, a + 1) : i = 2 * m - 1 \/ i = 2 * m
      <4>1. CASE i % 2 = 0
        <5>1. i \div 2 \in 1 .. Size(data, a + 1) /\ i = 2 * (i \div 2)
          BY <2>3, <2>4, <4>1
        <5> QED
          BY <5>1
      <4>2. CASE i % 2 = 1
        <5>1. (i + 1) \div 2 \in 1 .. Size(data, a + 1) /\ i = 2 * ((i + 1) \div 2) - 1
          BY <2>3, <2>4, <4>2
        <5> QED
          BY <5>1
      <4> QED
        BY <2>3, <2>4, <4>1, <4>2
    <3> QED
      BY <2>5, <3>1
  <2> QED
    BY <2>4, <2>6, SameLists DEF a, b
<1>5. Nat \subseteq Same
  <2> HIDE DEF Same
  <2> QED
    BY <1>3, <1>4, Induction
<1> QED
  BY <1>1, <1>5

LEMMA LeafIsNoPair == \A x, p, q : <<x>> # <<p, q>>
  OBVIOUS

(* Trees with the same root have the same leaves. *)
LEMMA RootTellsLeaves ==
  ASSUME NEW S, NEW data \in Seq(S), data # << >>, NEW T, NEW other \in Seq(T), other # << >>,
         Builds(data), Builds(other), RootNode(data) = RootNode(other)
  PROVE  Padded(data) = Padded(other)
<1>1. ASSUME NEW A, NEW x \in Seq(A), x # << >>, NEW B, NEW y \in Seq(B), y # << >>,
             Builds(x), Builds(y), RootNode(x) = RootNode(y), Top(x) <= Top(y)
      PROVE  Padded(x) = Padded(y)
  <2> DEFINE d == Top(y) - Top(x)
  <2>1. Top(x) \in 1 .. Len(x) /\ Top(y) \in 1 .. Len(y) /\ Len(x) \in Nat /\ Len(y) \in Nat
    BY <1>1, TopFacts
  <2>2. Levels(x)[0] = Levels(y)[d]
    <3>1. Top(x) \in 0 .. Top(x) /\ Top(x) - Top(x) = 0
      BY <2>1
    <3> QED
      BY <1>1, <3>1, UpperLevels
  <2>3. /\ Size(x, 0) \in 2 .. Len(x) + 1 /\ Size(x, 0) = Len(x) + (Len(x) % 2)
        /\ \A i \in 1 .. Size(x, 0) : Levels(x)[0][i] = <<Padded(x)[i]>>
    BY <1>1, LevelFacts
  <2>4. d = 0
    <3> SUFFICES ASSUME d # 0 PROVE FALSE
      OBVIOUS
    <3>1. d \in 1 .. Len(y)
      BY <1>1, <2>1
    <3>2. 1 \in 1 .. Size(x, 0) /\ Size(y, d) = Size(x, 0)
      BY <2>2, <2>3 DEF Size
    <3> HIDE DEF d
    <3>3. PICK p, q : Levels(y)[d][1] = <<p, q>>
      <4>1. \A j \in 1 .. Size(y, d) :
               Levels(y)[d][j] = <<Levels(y)[d - 1][2 * j - 1], Levels(y)[d - 1][2 * j]>>
        BY <1>1, <3>1, LevelFacts
      <4> QED
        BY <3>2, <4>1
    <3>4. Levels(x)[0][1] = <<Padded(x)[1]>>
      BY <2>3, <3>2
    <3> QED
      BY <2>2, <3>3, <3>4, LeafIsNoPair
  <2>5. /\ Size(y, 0) = Len(y) + (Len(y) % 2) /\ Size(y, 0) = Size(x, 0)
        /\ \A i \in 1 .. Size(y, 0) : Levels(y)[0][i] = <<Padded(y)[i]>>
    BY <1>1, <2>2, <2>4, LevelFacts, ZenonT(40) DEF Size
  <2>6. \A i \in 1 .. Size(x, 0) : Padded(x)[i] = Padded(y)[i]
    BY <2>2, <2>3, <2>4, <2>5
  <2>7. IsList(Padded(x), Size(x, 0)) /\ IsList(Padded(y), Size(x, 0))
    BY <1>1, <2>3, <2>5, PaddedFacts
  <2> QED
    BY <2>6, <2>7, SameLists
<1>2. Top(data) \in Nat /\ Top(other) \in Nat
  <2>1. Top(data) \in 1 .. Len(data) /\ Top(other) \in 1 .. Len(other)
    BY TopFacts
  <2> QED
    BY <2>1
<1> QED
  BY <1>1, <1>2

-----------------------------------------------------------------------------
(* The powers of two: each is twice the one before, so no two are equal. *)
LEMMA PowerStep ==
  /\ PowerOfTwo[0] = 1
  /\ \A e \in Nat : PowerOfTwo[e + 1] = 2 * PowerOfTwo[e]
  /\ \A e \in Nat : PowerOfTwo[e] \in Nat \ {0}
<1> DEFINE Twice == [x \in Nat |-> 2 * x]
           Value(g, n) == IF n = 0 THEN 1 ELSE 2 * g[n - 1]
           Chosen == CHOOSE g : g = [n \in Nat |-> Value(g, n)]
           Positive == {n \in Nat : Chosen[n] \in Nat \ {0}}
<1>1. PICK f \in [Nat -> Nat] : f[0] = 1 /\ \A n \in Nat : f[n + 1] = Twice[f[n]]
  <2> DEFINE Numbers == Nat
             one == 1
  <2>1. Twice \in [Numbers -> Numbers] /\ one \in Numbers
    OBVIOUS
  <2>2. \E f \in [Nat -> Numbers] : f[0] = one /\ \A n \in Nat : f[n + 1] = Twice[f[n]]
    <3> HIDE DEF Twice, Numbers, one
    <3> QED
      BY <2>1, RecursiveFunction
  <2> HIDE DEF Twice
  <2> QED
    BY <2>2
<1>2. f = [n \in Nat |-> Value(f, n)]
  <2>1. ASSUME NEW n \in Nat PROVE f[n] = Value(f, n)
    <3>1. CASE n = 0
      BY <1>1, <3>1
    <3>2. CASE n # 0
      <4>1. n - 1 \in Nat /\ (n - 1) + 1 = n /\ f[n - 1] \in Nat
        BY <3>2
      <4>2. f[n] = Twice[f[n - 1]]
        <5> HIDE DEF Twice
        <5> QED
          BY <1>1, <4>1
      <4> QED
        BY <3>2, <4>1, <4>2
    <3> QED
      BY <3>1, <3>2
  <2>2. f = [n \in Nat |-> f[n]]
    OBVIOUS
  <2> HIDE DEF Value
  <2> QED
    BY <2>1, <2>2
<1>3. Chosen = [n \in Nat |-> Value(Chosen, n)]
  <2> HIDE DEF Value
  <2> QED
    BY <1>2
<1>4. PowerOfTwo = Chosen
  BY DEF PowerOfTwo
<1> HIDE DEF Chosen
<1>5. \A n \in Nat : Chosen[n] = Value(Chosen, n)
  <2> HIDE DEF Value
  <2> QED
    BY <1>3
<1>6. Chosen[0] = 1 /\ \A e \in Nat : Chosen[e + 1] = 2 * Chosen[e]
  BY <1>5
<1>7. Nat \subseteq Positive
  <2>1. 0 \in Positive /\ \A n \in Nat : n \in Positive => n + 1 \in Positive
    BY <1>6
  <2> HIDE DEF Positive
  <2> QED
    BY <2>1, Induction
<1> QED
  BY <1>4, <1>6, <1>7

LEMMA PowersGrow ==
  ASSUME NEW a \in Nat, NEW b \in Nat, a < b
  PROVE  PowerOfTwo[a] < PowerOfTwo[b]
<1> DEFINE Bigger == {n \in Nat : PowerOfTwo[a] < PowerOfTwo[a + (n + 1)]}
<1>1. 0 \in Bigger
  BY PowerStep
<1>2. ASSUME NEW n \in Nat, n \in Bigger PROVE n + 1 \in Bigger
  <2>1. a + ((n + 1) + 1) = (a + (n + 1)) + 1 /\ a + (n + 1) \in Nat
    OBVIOUS
  <2>2. PowerOfTwo[(a + (n + 1)) + 1] = 2 * PowerOfTwo[a + (n + 1)]
    BY <2>1, PowerStep
  <2>3. PowerOfTwo[a + (n + 1)] \in Nat /\ PowerOfTwo[a] \in Nat
    BY <2>1, PowerStep
  <2>4. PowerOfTwo[a] < PowerOfTwo[a + (n + 1)]
    BY <1>2
  <2>5. PowerOfTwo[a] < PowerOfTwo[(a + (n + 1)) + 1]
    BY <2>2, <2>3, <2>4
  <2> QED
    BY <2>1, <2>5
<1>3. Nat \subseteq Bigger
  <2> HIDE DEF Bigger
  <2> QED
    BY <1>1, <1>2, Induction
<1>4. b - a - 1 \in Nat /\ a + ((b - a - 1) + 1) = b
  OBVIOUS
<1> QED
  BY <1>3, <1>4

(* A power of two exceeds its exponent. *)
LEMMA PowerExceeds == \A e \in Nat : e < PowerOfTwo[e]
<1> DEFINE Less == {n \in Nat : n < PowerOfTwo[n]}
<1>1. 0 \in Less /\ \A n \in Nat : n \in Less => n + 1 \in Less
  BY PowerStep
<1>2. Nat \subseteq Less
  <2> HIDE DEF Less
  <2> QED
    BY <1>1, Induction
<1> QED
  BY <1>2

(* A number that is halved until an odd one remains: the levels below the  *)
(* top are a power of two times as long as it.                             *)
LEMMA SizesBelow ==
  ASSUME NEW S, NEW data \in Seq(S), data # << >>
  PROVE  \A j \in 0 .. Top(data) :
            Size(data, Top(data) - j) = PowerOfTwo[j] * Size(data, Top(data))
<1> DEFINE t == Top(data)
           Fits == {j \in Nat : j <= t => Size(data, t - j) = PowerOfTwo[j] * Size(data, t)}
<1>1. /\ t \in 1 .. Len(data) /\ Len(data) \in Nat
      /\ \A k \in 0 .. t - 1 : Size(data, k) = 2 * Size(data, k + 1)
  BY TopFacts
<1>2. Size(data, t) \in Nat
  <2>1. t \in 0 .. Len(data)
    BY <1>1
  <2> QED
    BY <2>1, LevelFacts
<1> HIDE DEF t
<1>3. 0 \in Fits
  <2>1. t - 0 = t /\ PowerOfTwo[0] = 1
    BY <1>1, PowerStep
  <2> QED
    BY <1>2, <2>1
<1>4. ASSUME NEW j \in Nat, j \in Fits PROVE j + 1 \in Fits
  <2> SUFFICES ASSUME j + 1 <= t PROVE Size(data, t - (j + 1)) = PowerOfTwo[j + 1] * Size(data, t)
    OBVIOUS
  <2>1. t - (j + 1) \in 0 .. t - 1 /\ (t - (j + 1)) + 1 = t - j /\ j <= t
    BY <1>1
  <2>2. Size(data, t - (j + 1)) = 2 * Size(data, t - j)
    BY <1>1, <2>1
  <2>3. Size(data, t - j) = PowerOfTwo[j] * Size(data, t)
    BY <1>4, <2>1
  <2>4. PowerOfTwo[j + 1] = 2 * PowerOfTwo[j] /\ PowerOfTwo[j] \in Nat
    BY PowerStep
  <2> HIDE DEF Fits
  <2> QED
    BY <1>2, <2>2, <2>3, <2>4
<1>5. Nat \subseteq Fits
  <2> HIDE DEF Fits
  <2> QED
    BY <1>3, <1>4, Induction
<1> QED
  BY <1>1, <1>5 DEF t

LEMMA OddFactor ==
  ASSUME NEW t \in Nat, NEW s \in Nat, s % 2 = 1, NEW e \in Nat,
         PowerOfTwo[e] = PowerOfTwo[t] * s
  PROVE  s = 1
<1> DEFINE One == {n \in Nat : \A d \in Nat : PowerOfTwo[d] = PowerOfTwo[n] * s => s = 1}
<1>1. ASSUME NEW d \in Nat, d # 0
      PROVE  d - 1 \in Nat /\ PowerOfTwo[d] = 2 * PowerOfTwo[d - 1] /\ PowerOfTwo[d - 1] \in Nat
  <2>1. d - 1 \in Nat /\ (d - 1) + 1 = d
    BY <1>1
  <2> QED
    BY <2>1, PowerStep
<1>2. 0 \in One
  <2> SUFFICES ASSUME NEW d \in Nat, PowerOfTwo[d] = PowerOfTwo[0] * s PROVE s = 1
    OBVIOUS
  <2>1. PowerOfTwo[d] = s
    BY PowerStep
  <2>2. CASE d = 0
    BY <2>1, <2>2, PowerStep
  <2>3. CASE d # 0
    <3>1. PICK x \in Nat : s = 2 * x
      BY <1>1, <2>1, <2>3
    <3> QED
      BY <3>1
  <2> QED
    BY <2>2, <2>3
<1>3. ASSUME NEW n \in Nat, n \in One PROVE n + 1 \in One
  <2> SUFFICES ASSUME NEW d \in Nat, PowerOfTwo[d] = PowerOfTwo[n + 1] * s PROVE s = 1
    OBVIOUS
  <2>1. PICK x \in Nat : x = PowerOfTwo[n] * s
    BY PowerStep
  <2>2. PowerOfTwo[d] = 2 * x
    <3>1. PowerOfTwo[n + 1] = 2 * PowerOfTwo[n] /\ PowerOfTwo[n] \in Nat
      BY PowerStep
    <3> QED
      BY <2>1, <3>1
  <2>3. d # 0
    BY <2>2, PowerStep
  <2>4. PowerOfTwo[d - 1] = x /\ d - 1 \in Nat
    BY <1>1, <2>2, <2>3
  <2> QED
    BY <1>3, <2>1, <2>4
<1>4. Nat \subseteq One
  <2> HIDE DEF One
  <2> QED
    BY <1>2, <1>3, Induction
<1> QED
  BY <1>4

(* A tree is built of just those numbers of leaves that are counted.       *)
LEMMA BuildsWhenPairable ==
  ASSUME NEW S, NEW data \in Seq(S), data # << >>
  PROVE  /\ Builds(data) <=> Pairable(Len(data))
         /\ Builds(data) => Size(data, 0) = PowerOfTwo[Top(data)]
<1>1. /\ Top(data) \in 1 .. Len(data) /\ Len(data) \in Nat /\ Size(data, Top(data)) % 2 = 1
      /\ Size(data, Top(data)) \in Nat /\ Size(data, 0) = Len(data) + (Len(data) % 2)
  <2>1. Top(data) \in 1 .. Len(data) /\ Size(data, Top(data)) % 2 = 1 /\ Len(data) \in Nat
    BY TopFacts
  <2>2. Top(data) \in 0 .. Len(data)
    BY <2>1
  <2> QED
    BY <2>1, <2>2, LevelFacts
<1>2. Size(data, 0) = PowerOfTwo[Top(data)] * Size(data, Top(data))
  <2>1. Top(data) \in 0 .. Top(data) /\ Top(data) - Top(data) = 0
    BY <1>1
  <2> QED
    BY <2>1, SizesBelow
<1>3. Builds(data) <=> Size(data, Top(data)) = 1
  BY DEF Builds, Size
<1>4. Top(data) \in Nat /\ PowerOfTwo[Top(data)] \in Nat
  <2>1. Top(data) \in Nat
    BY <1>1
  <2> QED
    BY <2>1, PowerStep
<1>5. Builds(data) => Size(data, 0) = PowerOfTwo[Top(data)]
  BY <1>2, <1>3, <1>4
<1>6. ASSUME Pairable(Len(data)) PROVE Builds(data)
  <2>1. PICK e \in 1 .. Len(data) : Size(data, 0) = PowerOfTwo[e]
    BY <1>1, <1>6 DEF Pairable
  <2> QED
    BY <1>1, <1>2, <1>3, <1>4, <2>1, OddFactor
<1>7. ASSUME Builds(data) PROVE Pairable(Len(data))
  BY <1>1, <1>5, <1>7 DEF Pairable
<1> QED
  BY <1>5, <1>6, <1>7

-----------------------------------------------------------------------------
(* The halving tree: its node over 2^k leaves is the pair of those over    *)
(* their first and their second half.                                      *)
LEMMA TreeRootIs ==
  ASSUME NEW leaves, Len(leaves) \in Nat, NEW t \in 0 .. Len(leaves),
         PowerOfTwo[t] = Len(leaves)
  PROVE  \E over :
            /\ TreeRoot(leaves) = over[t][0]
            /\ \A i \in 0 .. Len(leaves) - 1 : over[0][i] = HashLeaf(leaves[i + 1])
            /\ \A k \in 1 .. Len(leaves) : \A i \in 0 .. Len(leaves) - PowerOfTwo[k] :
                  over[k][i] = HashPair(over[k - 1][i], over[k - 1][i + PowerOfTwo[k - 1]])
<1> DEFINE N == Len(leaves)
           Value(g, k) == [i \in 0 .. N - PowerOfTwo[k] |->
                              IF k = 0 THEN HashLeaf(leaves[i + 1])
                              ELSE HashPair(g[k - 1][i], g[k - 1][i + PowerOfTwo[k - 1]])]
           Good == {n \in Nat : \E g : g = [k \in 0 .. n |-> Value(g, k)]}
           Built == CHOOSE g : g = [k \in 0 .. N |-> Value(g, k)]
           Height == CHOOSE k \in 0 .. N : PowerOfTwo[k] = N
<1>1. 0 \in Good
  <2> DEFINE g == [k \in 0 .. 0 |-> Value(<< >>, 0)]
  <2>1. g = [k \in 0 .. 0 |-> Value(g, k)]
    OBVIOUS
  <2> QED
    BY <2>1
<1>2. ASSUME NEW n \in Nat, n \in Good PROVE n + 1 \in Good
  <2>1. PICK g : g = [k \in 0 .. n |-> Value(g, k)]
    BY <1>2
  <2> DEFINE h == [k \in 0 .. n + 1 |-> IF k = n + 1 THEN Value(g, k) ELSE g[k]]
  <2>2. ASSUME NEW k \in 0 .. n + 1 PROVE h[k] = Value(h, k)
    <3>1. h[k] = Value(g, k)
      <4>1. CASE k = n + 1
        BY <4>1
      <4>2. CASE k # n + 1
        <5>1. h[k] = g[k] /\ k \in 0 .. n
          BY <4>2
        <5> HIDE DEF h, Value
        <5> QED
          BY <2>1, <5>1
      <4> QED
        BY <4>1, <4>2
    <3>2. k # 0 => h[k - 1] = g[k - 1]
      OBVIOUS
    <3>3. Value(h, k) = Value(g, k)
      <4> HIDE DEF h
      <4> QED
        BY <3>2
    <3> QED
      BY <3>1, <3>3
  <2>3. h = [k \in 0 .. n + 1 |-> Value(h, k)]
    <3>1. h = [k \in 0 .. n + 1 |-> h[k]]
      OBVIOUS
    <3> HIDE DEF h, Value
    <3> QED
      BY <2>2, <3>1
  <2> HIDE DEF h, Value
  <2> QED
    BY <2>3
<1>3. N \in Good
  <2> HIDE DEF Good
  <2> QED
    BY <1>1, <1>2, Induction
<1>4. Built = [k \in 0 .. N |-> Value(Built, k)]
  <2> HIDE DEF Value
  <2> QED
    BY <1>3
<1>5. Height = t
  <2>1. Height \in 0 .. N /\ PowerOfTwo[Height] = N
    <3> HIDE DEF N
    <3>1. t \in 0 .. N /\ PowerOfTwo[t] = N
      BY DEF N
    <3> QED
      BY <3>1
  <2> HIDE DEF Height
  <2>2. ~(Height < t) /\ ~(t < Height)
    <3>1. Height \in Nat /\ t \in Nat
      BY <2>1
    <3> QED
      BY <2>1, <3>1, PowersGrow
  <2> QED
    BY <2>1, <2>2
<1>6. TreeRoot(leaves) = Built[Height][0]
  BY DEF TreeRoot
<1> HIDE DEF Built, Height
<1>7. \A k \in 0 .. N : Built[k] = Value(Built, k)
  <2> HIDE DEF Value
  <2> QED
    BY <1>4
<1>8. \A k \in 0 .. N : \A i \in 0 .. N - PowerOfTwo[k] :
         Built[k][i] = IF k = 0 THEN HashLeaf(leaves[i + 1])
                       ELSE HashPair(Built[k - 1][i], Built[k - 1][i + PowerOfTwo[k - 1]])
  BY <1>7
<1>9. \A i \in 0 .. N - 1 : Built[0][i] = HashLeaf(leaves[i + 1])
  <2>1. 0 \in 0 .. N /\ N - PowerOfTwo[0] = N - 1
    BY PowerStep
  <2> HIDE DEF N
  <2> QED
    BY <1>8, <2>1
<1>10. \A k \in 1 .. N : \A i \in 0 .. N - PowerOfTwo[k] :
          Built[k][i] = HashPair(Built[k - 1][i], Built[k - 1][i + PowerOfTwo[k - 1]])
  BY <1>8
<1> QED
  BY <1>5, <1>6, <1>9, <1>10

(* Where the halves of a segment begin: the i-th of 2Q leaves each, that   *)
(* end within the S segments.                                              *)
LEMMA Segments ==
  ASSUME NEW Q \in Nat, NEW S \in Nat, NEW i \in 1 .. S
  PROVE  /\ (2 * i - 2) * Q = (i - 1) * (2 * Q)
         /\ (2 * i - 1) * Q = (i - 1) * (2 * Q) + Q
         /\ (i - 1) * (2 * Q) \in 0 .. (2 * Q) * S - 2 * Q
<1>1. (i - 1) * (2 * Q) \in Nat /\ (S - i) * (2 * Q) \in Nat
  OBVIOUS
<1>2. (2 * Q) * S - 2 * Q = (i - 1) * (2 * Q) + (S - i) * (2 * Q)
  OBVIOUS
<1>3. (2 * i - 2) * Q = (i - 1) * (2 * Q) /\ (2 * i - 1) * Q = (i - 1) * (2 * Q) + Q
  OBVIOUS
<1> QED
  BY <1>1, <1>2, <1>3

(* The tree built level by level has the root of the halving tree.         *)
LEMMA RootIsTreeRoot ==
  ASSUME NEW S, NEW data \in Seq(S), data # << >>, Builds(data)
  PROVE  RootNode(data) = TreeRoot(Padded(data))
<1> DEFINE t == Top(data)
           M == Size(data, 0)
<1>1. /\ t \in 1 .. Len(data) /\ Len(data) \in Nat /\ M \in Nat /\ Len(data) <= M
      /\ \A k \in 0 .. t - 1 : Size(data, k) = 2 * Size(data, k + 1)
      /\ Len(Padded(data)) = M
  <2>1. M = Len(data) + (Len(data) % 2) /\ M \in 2 .. Len(data) + 1
    BY LevelFacts
  <2>2. IsList(Padded(data), M)
    BY <2>1, PaddedFacts
  <2>3. Len(Padded(data)) = M
    BY <2>2, ListFacts
  <2>4. t \in 1 .. Len(data) /\ Len(data) \in Nat
    BY TopFacts
  <2> QED
    BY <2>1, <2>3, <2>4, TopFacts
<1>2. t \in 0 .. M /\ M = PowerOfTwo[t]
  BY <1>1, BuildsWhenPairable
<1>3. PICK over :
         /\ TreeRoot(Padded(data)) = over[t][0]
         /\ \A i \in 0 .. M - 1 : over[0][i] = HashLeaf(Padded(data)[i + 1])
         /\ \A k \in 1 .. M : \A i \in 0 .. M - PowerOfTwo[k] :
               over[k][i] = HashPair(over[k - 1][i], over[k - 1][i + PowerOfTwo[k - 1]])
  <2> DEFINE leaves == Padded(data)
  <2>1. Len(leaves) = M /\ Len(leaves) \in Nat /\ t \in 0 .. Len(leaves) /\ PowerOfTwo[t] = Len(leaves)
    BY <1>1, <1>2
  <2> HIDE DEF leaves, t, M
  <2>2. \E over :
           /\ TreeRoot(leaves) = over[t][0]
           /\ \A i \in 0 .. Len(leaves) - 1 : over[0][i] = HashLeaf(leaves[i + 1])
           /\ \A k \in 1 .. Len(leaves) : \A i \in 0 .. Len(leaves) - PowerOfTwo[k] :
                 over[k][i] = HashPair(over[k - 1][i], over[k - 1][i + PowerOfTwo[k - 1]])
    BY <2>1, TreeRootIs
  <2> QED
    BY <2>1, <2>2 DEF leaves
<1>4. \A k \in 0 .. Len(data) : Size(data, k) \in Nat
  BY LevelFacts
<1>5. \A i \in 1 .. M : Levels(data)[0][i] = <<Padded(data)[i]>>
  BY LevelFacts
<1>6. \A k \in 1 .. Len(data), j \in 1 .. M : j <= Size(data, k) =>
         Levels(data)[k][j] = <<Levels(data)[k - 1][2 * j - 1], Levels(data)[k - 1][2 * j]>>
  <2> SUFFICES ASSUME NEW k \in 1 .. Len(data), NEW j \in 1 .. M, j <= Size(data, k)
               PROVE  Levels(data)[k][j] = <<Levels(data)[k - 1][2 * j - 1], Levels(data)[k - 1][2 * j]>>
    OBVIOUS
  <2>1. Size(data, k) \in Nat
    BY <1>1, <1>4
  <2>2. j \in 1 .. Size(data, k)
    BY <1>1, <2>1
  <2> QED
    BY <2>2, LevelFacts
<1> HIDE DEF t, M
<1> DEFINE Agrees(k) == /\ Size(data, k) <= M
                        /\ PowerOfTwo[k] * Size(data, k) = M
                        /\ \A i \in 1 .. Size(data, k) :
                              Levels(data)[k][i] = over[k][(i - 1) * PowerOfTwo[k]]
           Met == {k \in Nat : k <= t => Agrees(k)}
<1>7. 0 \in Met
  <2>1. Size(data, 0) = M /\ PowerOfTwo[0] = 1
    BY PowerStep DEF M
  <2>2. ASSUME NEW i \in 1 .. M PROVE Levels(data)[0][i] = over[0][(i - 1) * PowerOfTwo[0]]
    <3>1. i - 1 \in 0 .. M - 1 /\ (i - 1) + 1 = i /\ (i - 1) * PowerOfTwo[0] = i - 1
      BY <1>1, <2>1
    <3>2. over[0][i - 1] = HashLeaf(Padded(data)[(i - 1) + 1])
      BY <1>3, <3>1
    <3> QED
      BY <1>5, <3>1, <3>2 DEF HashLeaf
  <2> QED
    BY <1>1, <2>1, <2>2
<1>8. ASSUME NEW k \in Nat, k \in Met PROVE k + 1 \in Met
  <2> SUFFICES ASSUME k + 1 <= t PROVE Agrees(k + 1)
    OBVIOUS
  <2> DEFINE Q == PowerOfTwo[k]
             S2 == Size(data, k + 1)
  <2>1. /\ k <= t /\ k \in 0 .. t - 1 /\ k \in 0 .. Len(data) /\ k + 1 \in 1 .. Len(data)
        /\ k + 1 \in 0 .. Len(data) /\ (k + 1) - 1 = k /\ k + 1 \in 1 .. M
    BY <1>1
  <2>2. Agrees(k)
    BY <1>8, <2>1
  <2>3. /\ Size(data, k) = 2 * S2 /\ Size(data, k) \in Nat
        /\ S2 \in Nat /\ Size(data, k) <= M
    BY <1>1, <1>4, <2>1, <2>2
  <2>4. Q \in Nat /\ PowerOfTwo[k + 1] = 2 * Q
    BY PowerStep
  <2>5. (2 * Q) * S2 = M
    <3>1. Q * Size(data, k) = M
      BY <2>2
    <3> HIDE DEF Q, S2
    <3> QED
      BY <2>3, <2>4, <3>1
  <2>6. ASSUME NEW i \in 1 .. S2
        PROVE  Levels(data)[k + 1][i] = over[k + 1][(i - 1) * PowerOfTwo[k + 1]]
    <3>1. /\ i \in 1 .. M /\ i <= S2
          /\ 2 * i - 1 \in 1 .. Size(data, k) /\ 2 * i \in 1 .. Size(data, k)
          /\ (2 * i - 1) - 1 = 2 * i - 2
      BY <1>1, <2>3
    <3>2. Levels(data)[k + 1][i] = <<Levels(data)[k][2 * i - 1], Levels(data)[k][2 * i]>>
      <4>1. Levels(data)[k + 1][i] =
               <<Levels(data)[(k + 1) - 1][2 * i - 1], Levels(data)[(k + 1) - 1][2 * i]>>
        BY <1>6, <2>1, <3>1
      <4> QED
        BY <2>1, <4>1
    <3>3. /\ (2 * i - 2) * Q = (i - 1) * (2 * Q) /\ (2 * i - 1) * Q = (i - 1) * (2 * Q) + Q
          /\ (i - 1) * (2 * Q) \in 0 .. M - 2 * Q
      <4> HIDE DEF Q, S2
      <4> QED
        BY <2>3, <2>4, <2>5, Segments
    <3>4. over[k + 1][(i - 1) * (2 * Q)] =
             <<over[k][(i - 1) * (2 * Q)], over[k][(i - 1) * (2 * Q) + Q]>>
      <4> DEFINE first == (i - 1) * (2 * Q)
      <4>1. first \in 0 .. M - PowerOfTwo[k + 1]
        BY <2>4, <3>3
      <4> HIDE DEF first
      <4>2. over[k + 1][first] =
               HashPair(over[(k + 1) - 1][first], over[(k + 1) - 1][first + PowerOfTwo[(k + 1) - 1]])
        BY <1>3, <2>1, <4>1
      <4>3. over[k + 1][first] = <<over[k][first], over[k][first + Q]>>
        BY <2>1, <4>2 DEF HashPair
      <4> QED
        BY <4>3 DEF first
    <3>5. /\ Levels(data)[k][2 * i - 1] = over[k][((2 * i - 1) - 1) * Q]
          /\ Levels(data)[k][2 * i] = over[k][(2 * i - 1) * Q]
      BY <2>2, <3>1
    <3> HIDE DEF Q, S2
    <3> QED
      BY <2>4, <3>1, <3>2, <3>3, <3>4, <3>5
  <2>7. PowerOfTwo[k + 1] * S2 = M /\ S2 <= M
    BY <1>1, <2>3, <2>4, <2>5
  <2> QED
    BY <2>6, <2>7
<1>9. Nat \subseteq Met
  <2> HIDE DEF Met
  <2> QED
    BY <1>7, <1>8, Induction
<1>10. Agrees(t)
  <2>1. t \in Nat /\ t <= t
    BY <1>1
  <2> HIDE DEF Agrees
  <2> QED
    BY <1>9, <2>1
<1>11. Size(data, t) = 1
  BY DEF Builds, Size, t
<1>12. Levels(data)[t][1] = over[t][0]
  <2>1. t \in Nat /\ PowerOfTwo[t] \in Nat
    <3>1. t \in Nat
      BY <1>1
    <3> QED
      BY <3>1, PowerStep
  <2>2. (1 - 1) * PowerOfTwo[t] = 0
    BY <2>1
  <2> QED
    BY <1>10, <1>11, <2>2
<1> QED
  BY <1>3, <1>12 DEF RootNode, t

-----------------------------------------------------------------------------
(* What is encoded is a list as long, of transactions with their number.   *)
LEMMA EncodedFacts ==
  ASSUME NEW S, NEW txs \in Seq(S), txs # << >>, NEW n
  PROVE  /\ Encoded(n, txs) \in Seq({n} \X S) /\ Encoded(n, txs) # << >>
         /\ Len(Encoded(n, txs)) = Len(txs)
         /\ IsList(Padded(txs), Len(Padded(txs)))
         /\ IsList(Padded(Encoded(n, txs)), Len(Padded(txs)))
         /\ Len(Padded(txs)) \in Nat \ {0}
<1> DEFINE data == Encoded(n, txs)
<1>1. Len(txs) \in Nat \ {0} /\ \A i \in 1 .. Len(txs) : txs[i] \in S
  OBVIOUS
<1>2. data = [i \in 1 .. Len(txs) |-> <<n, txs[i]>>]
  BY DEF Encoded
<1>3. data \in Seq({n} \X S) /\ Len(data) = Len(txs) /\ data # << >>
  <2>1. \A i \in 1 .. Len(txs) : <<n, txs[i]>> \in {n} \X S
    BY <1>1
  <2> HIDE DEF data
  <2>2. data \in Seq({n} \X S) /\ Len(data) = Len(txs)
    BY <1>1, <1>2, <2>1
  <2> QED
    BY <1>1, <2>2
<1> HIDE DEF data
<1> DEFINE M == Len(txs) + (Len(txs) % 2)
<1>4. /\ IsList(Padded(txs), M) /\ IsList(Padded(data), M)
      /\ Len(Padded(txs)) = M /\ M \in Nat \ {0}
  <2>1. IsList(Padded(txs), M) /\ IsList(Padded(data), M)
    BY <1>3, PaddedFacts
  <2>2. Len(Padded(txs)) = M
    BY <2>1, ListFacts
  <2> QED
    BY <1>1, <2>1, <2>2
<1> QED
  BY <1>3, <1>4 DEF data

LEMMA EncodedAt ==
  ASSUME NEW S, NEW txs \in Seq(S), txs # << >>, NEW n, NEW i \in 1 .. Len(Padded(txs))
  PROVE  Padded(Encoded(n, txs))[i] = <<n, Padded(txs)[i]>>
<1> DEFINE data == Encoded(n, txs)
           M == Len(txs) + (Len(txs) % 2)
<1>1. Len(txs) \in Nat \ {0} /\ data = [j \in 1 .. Len(txs) |-> <<n, txs[j]>>]
  BY DEF Encoded
<1>2. data \in Seq({n} \X S) /\ data # << >> /\ Len(data) = Len(txs)
  BY EncodedFacts
<1> HIDE DEF data
<1>3. i \in 1 .. M
  <2>1. IsList(Padded(txs), M)
    BY PaddedFacts
  <2> QED
    BY <2>1, ListFacts
<1>4. CASE i \in 1 .. Len(txs)
  <2>1. data[i] = <<n, txs[i]>> /\ Padded(data)[i] = data[i] /\ Padded(txs)[i] = txs[i]
    BY <1>1, <1>2, <1>4, PaddedFacts
  <2> QED
    BY <2>1 DEF data
<1>5. CASE i \notin 1 .. Len(txs)
  <2>1. Len(txs) % 2 = 1 /\ i = Len(txs) + 1 /\ Len(txs) \in 1 .. Len(txs)
    BY <1>1, <1>3, <1>5
  <2>2. Padded(data)[i] = data[Len(txs)] /\ Padded(txs)[i] = txs[Len(txs)]
    BY <1>2, <2>1, PaddedFacts
  <2> QED
    BY <1>1, <2>1, <2>2 DEF data
<1> QED
  BY <1>4, <1>5

(* Lists of transactions: whether a tree is built of one is a matter of    *)
(* its length.                                                             *)
LEMMA EncodedBuilds ==
  ASSUME NEW txs \in Transactions, NEW n
  PROVE  /\ Builds(Encoded(n, txs)) <=> Pairable(Len(txs))
         /\ Builds(txs) <=> Pairable(Len(txs))
<1>1. txs \in Seq(ToSet(txs)) /\ txs # << >>
  BY ListsAssumption
<1>2. Builds(txs) <=> Pairable(Len(txs))
  BY <1>1, BuildsWhenPairable
<1>3. Builds(Encoded(n, txs)) <=> Pairable(Len(Encoded(n, txs)))
  <2>1. Encoded(n, txs) \in Seq({n} \X ToSet(txs)) /\ Encoded(n, txs) # << >>
    BY <1>1, EncodedFacts
  <2> QED
    BY <2>1, BuildsWhenPairable
<1>4. Len(Encoded(n, txs)) = Len(txs)
  BY <1>1, EncodedFacts
<1> QED
  BY <1>2, <1>3, <1>4

(* Equal roots: equal numbers and, the repeated last aside, equal lists. *)
LEMMA EqualRoots ==
  ASSUME NEW txs \in Transactions, NEW others \in Transactions, NEW n, NEW m,
         Pairable(Len(txs)), Pairable(Len(others)),
         RootNode(Encoded(n, txs)) = RootNode(Encoded(m, others))
  PROVE  n = m /\ Padded(txs) = Padded(others)
<1>1. txs \in Seq(ToSet(txs)) /\ txs # << >> /\ others \in Seq(ToSet(others)) /\ others # << >>
  BY ListsAssumption
<1>2. Padded(Encoded(n, txs)) = Padded(Encoded(m, others))
  <2>1. /\ Encoded(n, txs) \in Seq({n} \X ToSet(txs)) /\ Encoded(n, txs) # << >>
        /\ Encoded(m, others) \in Seq({m} \X ToSet(others)) /\ Encoded(m, others) # << >>
    BY <1>1, EncodedFacts
  <2>2. Builds(Encoded(n, txs)) /\ Builds(Encoded(m, others))
    BY EncodedBuilds
  <2> QED
    BY <2>1, <2>2, RootTellsLeaves
<1> DEFINE M == Len(Padded(txs))
           L == Len(Padded(others))
<1>3. /\ M \in Nat \ {0} /\ IsList(Padded(txs), M) /\ IsList(Padded(Encoded(n, txs)), M)
      /\ \A i \in 1 .. M : Padded(Encoded(n, txs))[i] = <<n, Padded(txs)[i]>>
      /\ L \in Nat \ {0} /\ IsList(Padded(others), L) /\ IsList(Padded(Encoded(m, others)), L)
      /\ \A i \in 1 .. L : Padded(Encoded(m, others))[i] = <<m, Padded(others)[i]>>
  <2>1. M \in Nat \ {0} /\ IsList(Padded(txs), M)
    BY <1>1, EncodedFacts
  <2>2. IsList(Padded(Encoded(n, txs)), M)
    BY <1>1, EncodedFacts
  <2>3. \A i \in 1 .. M : Padded(Encoded(n, txs))[i] = <<n, Padded(txs)[i]>>
    BY <1>1, EncodedAt
  <2>4. L \in Nat \ {0} /\ IsList(Padded(others), L)
    BY <1>1, EncodedFacts
  <2>5. IsList(Padded(Encoded(m, others)), L)
    BY <1>1, EncodedFacts
  <2>6. \A i \in 1 .. L : Padded(Encoded(m, others))[i] = <<m, Padded(others)[i]>>
    BY <1>1, EncodedAt
  <2> QED
    BY <2>1, <2>2, <2>3, <2>4, <2>5, <2>6
<1>4. M = L
  <2>1. Len(Padded(Encoded(n, txs))) = M /\ Len(Padded(Encoded(m, others))) = L
    BY <1>3, ListFacts
  <2> QED
    BY <1>2, <2>1
<1> HIDE DEF M, L
<1>5. \A i \in 1 .. M : <<n, Padded(txs)[i]>> = <<m, Padded(others)[i]>>
  BY <1>2, <1>3, <1>4
<1>6. \A i \in 1 .. M : n = m /\ Padded(txs)[i] = Padded(others)[i]
  BY <1>5
<1>7. 1 \in 1 .. M
  BY <1>3
<1>8. Padded(txs) = Padded(others)
  BY <1>3, <1>4, <1>6, SameLists
<1> QED
  BY <1>6, <1>7, <1>8

-----------------------------------------------------------------------------
(* A command numbers the type Transaction first; a server has numbered the *)
(* types of its "version" before.                                          *)
NumbersInv ==
    /\ \A s \in up : types[s] \in Nat \ {0}
    /\ \A s \in Server : number[s] = 0 \/ number[s] >= 2

BlocksInv ==
    \A b \in blocks :
        /\ Pairable(Len(b.txs))
        /\ b.root = RootNode(Encoded(b.number, b.txs))
        /\ b.by = "command" => b.number = 1
        /\ b.by # "command" => b.number # 1

ProofInv == TypeOK /\ NumbersInv /\ BlocksInv /\ PanicsAsCounted /\ CommandsValidate

LEMMA NumberedIn ==
  ASSUME TypeOK, NumbersInv, NEW s \in up
  PROVE  NumberIn(s) \in Nat /\ NumberIn(s) >= 2 /\ types[s] + 2 \in Nat /\ types[s] + 2 >= 2
  BY DEF TypeOK, NumbersInv, NumberIn

LEMMA MinesKeeps ==
  ASSUME BlocksInv, \A b \in blocks : b.txs \in Transactions,
         NEW by, NEW n, NEW txs \in Transactions, Mines(by, n, txs),
         by = "command" <=> n = 1
  PROVE  /\ \A b \in blocks' : b.txs \in Transactions
         /\ BlocksInv' /\ \A b \in blocks' : Pairable(Len(b.txs))
<1> DEFINE new == [by |-> by, number |-> n, txs |-> txs, root |-> RootNode(Encoded(n, txs))]
<1>1. blocks' = blocks \cup {new} /\ Builds(Encoded(n, txs))
  BY DEF Mines
<1>2. Pairable(Len(txs))
  BY <1>1, EncodedBuilds
<1>3. new.by = by /\ new.number = n /\ new.txs = txs /\ new.root = RootNode(Encoded(n, txs))
  OBVIOUS
<1> HIDE DEF new
<1> QED
  BY <1>1, <1>2, <1>3 DEF BlocksInv

LEMMA InitProof == Init => ProofInv
  BY DEF Init, ProofInv, TypeOK, NumbersInv, BlocksInv, PanicsAsCounted, CommandsValidate

LEMMA NextProof == ProofInv /\ [Next]_vars => ProofInv'
<1> SUFFICES ASSUME ProofInv, [Next]_vars PROVE ProofInv'
  OBVIOUS
<1>0. /\ TypeOK /\ NumbersInv /\ BlocksInv /\ PanicsAsCounted /\ CommandsValidate
      /\ \A b \in blocks : b.txs \in Transactions
  BY DEF ProofInv, TypeOK
<1> USE BoundAssumption
<1>1. ASSUME NEW s \in Server, Start(s) PROVE ProofInv'
  <2>1. TypeOK'
    BY <1>0, <1>1 DEF TypeOK, Start
  <2>2. NumbersInv'
    BY <1>0, <1>1 DEF TypeOK, NumbersInv, Start
  <2>3. BlocksInv' /\ PanicsAsCounted' /\ CommandsValidate'
    BY <1>0, <1>1 DEF BlocksInv, PanicsAsCounted, CommandsValidate, Start
  <2> QED
    BY <2>1, <2>2, <2>3 DEF ProofInv
<1>2. ASSUME NEW s \in Server, Ends(s)
      PROVE  /\ NumbersInv' /\ up' \subseteq Server
             /\ sent' \in [Server -> SUBSET (Message \cup {"version"})]
             /\ types' \in [Server -> Nat] /\ number' \in [Server -> Nat]
             /\ \A r \in Server \ up' : sent'[r] = {} /\ types'[r] = 0 /\ number'[r] = 0
             /\ \A r \in up' : "version" \in sent'[r]
  BY <1>0, <1>2 DEF TypeOK, NumbersInv, Ends
<1>3. ASSUME NEW s \in Server, Stop(s) PROVE ProofInv'
  <2>1. Ends(s) /\ UNCHANGED <<blocks, panicked, printed>>
    BY <1>3 DEF Stop
  <2>2. TypeOK' /\ NumbersInv'
    BY <1>0, <1>2, <2>1 DEF TypeOK
  <2>3. BlocksInv' /\ PanicsAsCounted' /\ CommandsValidate'
    BY <1>0, <2>1 DEF BlocksInv, PanicsAsCounted, CommandsValidate
  <2> QED
    BY <2>2, <2>3 DEF ProofInv
<1>4. ASSUME NEW s \in Server, NEW m \in Message, Send(s, m) PROVE ProofInv'
  <2>1. TypeOK'
    BY <1>0, <1>4 DEF TypeOK, Send
  <2>2. NumbersInv'
    BY <1>0, <1>4 DEF TypeOK, NumbersInv, Send
  <2>3. BlocksInv' /\ PanicsAsCounted' /\ CommandsValidate'
    BY <1>0, <1>4 DEF BlocksInv, PanicsAsCounted, CommandsValidate, Send
  <2> QED
    BY <2>1, <2>2, <2>3 DEF ProofInv
<1>5. ASSUME NEW s \in Server, AddBlock(s) PROVE ProofInv'
  <2>1. types[s] + 2 \in Nat /\ types[s] + 2 >= 2
    BY <1>0, <1>5, NumberedIn DEF AddBlock
  <2>2. TypeOK'
    BY <1>0, <1>5, <2>1 DEF TypeOK, AddBlock
  <2>3. NumbersInv'
    BY <1>0, <1>5, <2>1 DEF TypeOK, NumbersInv, AddBlock
  <2>4. BlocksInv' /\ PanicsAsCounted' /\ CommandsValidate'
    BY <1>0, <1>5 DEF BlocksInv, PanicsAsCounted, CommandsValidate, AddBlock
  <2> QED
    BY <2>2, <2>3, <2>4 DEF ProofInv
<1>6. ASSUME NEW s \in Server, NEW txs \in Transactions, MineTx(s, txs) PROVE ProofInv'
  <2>1. /\ NumberIn(s) \in Nat /\ NumberIn(s) >= 2 /\ s # "command" /\ s \in up
        /\ (s = "command" <=> NumberIn(s) = 1)
    BY <1>0, <1>6, NumberedIn DEF MineTx
  <2>2. CASE /\ Mines(s, NumberIn(s), txs)
             /\ number' = [number EXCEPT ![s] = NumberIn(s)]
             /\ UNCHANGED <<up, sent, types, panicked, printed>>
    <3>1. /\ \A b \in blocks' : b.txs \in Transactions
          /\ BlocksInv' /\ \A b \in blocks' : Pairable(Len(b.txs))
      BY <1>0, <2>1, <2>2, MinesKeeps
    <3>2. TypeOK'
      BY <1>0, <2>1, <2>2, <3>1 DEF TypeOK
    <3>3. NumbersInv'
      BY <1>0, <2>1, <2>2 DEF TypeOK, NumbersInv
    <3>4. PanicsAsCounted' /\ CommandsValidate'
      BY <1>0, <2>2, <3>1 DEF PanicsAsCounted, CommandsValidate
    <3> QED
      BY <3>1, <3>2, <3>3, <3>4 DEF ProofInv
  <2>3. CASE /\ Overtaxed(NumberIn(s), txs)
             /\ Ends(s)
             /\ UNCHANGED <<blocks, printed>>
    <3>1. panicked' = panicked \cup {txs} /\ ~Pairable(Len(txs))
      BY <2>3, EncodedBuilds DEF Overtaxed
    <3>2. TypeOK' /\ NumbersInv'
      BY <1>0, <1>2, <2>3, <3>1 DEF TypeOK
    <3>3. BlocksInv' /\ PanicsAsCounted' /\ CommandsValidate'
      BY <1>0, <2>3, <3>1 DEF BlocksInv, PanicsAsCounted, CommandsValidate
    <3> QED
      BY <3>2, <3>3 DEF ProofInv
  <2> QED
    BY <1>6, <2>2, <2>3 DEF MineTx
<1>7. ASSUME NEW txs \in Transactions, SendMine(txs) PROVE ProofInv'
  <2>1. Mines("command", 1, txs) /\ UNCHANGED <<up, sent, types, number, panicked, printed>>
    BY <1>7 DEF SendMine, CommandNumber
  <2>2. /\ \A b \in blocks' : b.txs \in Transactions
        /\ BlocksInv' /\ \A b \in blocks' : Pairable(Len(b.txs))
    BY <1>0, <2>1, MinesKeeps
  <2>3. TypeOK' /\ NumbersInv'
    BY <1>0, <2>1, <2>2 DEF TypeOK, NumbersInv
  <2>4. PanicsAsCounted' /\ CommandsValidate'
    BY <1>0, <2>1, <2>2 DEF PanicsAsCounted, CommandsValidate
  <2> QED
    BY <2>2, <2>3, <2>4 DEF ProofInv
<1>8. ASSUME PrintChain PROVE ProofInv'
  <2>1. /\ printed' = {<<b, Validates(CommandNumber, b)>> : b \in blocks}
        /\ UNCHANGED <<up, sent, types, number, blocks, panicked>>
    BY <1>8 DEF PrintChain
  <2>2. ASSUME NEW b \in blocks PROVE Validates(CommandNumber, b) <=> b.by = "command"
    <3>1. /\ b.txs \in Transactions /\ Pairable(Len(b.txs))
          /\ b.root = RootNode(Encoded(b.number, b.txs))
          /\ b.by = "command" => b.number = 1 
          /\ b.by # "command" => b.number # 1
      BY <1>0 DEF BlocksInv
    <3>2. Validates(CommandNumber, b) <=> RootNode(Encoded(1, b.txs)) = RootNode(Encoded(b.number, b.txs))
      BY <3>1 DEF Validates, CommandNumber
    <3>3. RootNode(Encoded(1, b.txs)) = RootNode(Encoded(b.number, b.txs)) => b.number = 1
      BY <3>1, EqualRoots
    <3> QED
      BY <3>1, <3>2, <3>3
  <2>3. CommandsValidate'
    <3> SUFFICES ASSUME NEW p \in printed' PROVE p[2] <=> p[1].by = "command"
      BY DEF CommandsValidate
    <3>1. PICK b \in blocks : p = <<b, Validates(CommandNumber, b)>>
      BY <2>1
    <3>2. p[1] = b /\ p[2] = Validates(CommandNumber, b)
      BY <3>1
    <3> QED
      BY <2>2, <3>2
  <2>4. TypeOK' /\ NumbersInv' /\ BlocksInv' /\ PanicsAsCounted'
    BY <1>0, <2>1 DEF TypeOK, NumbersInv, BlocksInv, PanicsAsCounted
  <2> QED
    BY <2>3, <2>4 DEF ProofInv
<1>9. ASSUME UNCHANGED vars PROVE ProofInv'
  BY <1>0, <1>9 DEF vars, ProofInv, TypeOK, NumbersInv, BlocksInv, PanicsAsCounted, CommandsValidate
<1> QED
  BY <1>1, <1>3, <1>4, <1>5, <1>6, <1>7, <1>8, <1>9 DEF Next

LEMMA ProofInvAlways == Spec => []ProofInv
  BY InitProof, NextProof, PTL DEF Spec

LEMMA BlockRoots ==
  ASSUME ProofInv, NEW b \in blocks
  PROVE  /\ b.txs \in Transactions /\ Pairable(Len(b.txs))
         /\ b.root = RootNode(Encoded(b.number, b.txs))
  BY DEF ProofInv, TypeOK, BlocksInv

-----------------------------------------------------------------------------
(* The variables keep their types, a process that does not run has         *)
(* numbered nothing, and one that runs has encoded its version.            *)
THEOREM TypeCorrect == Spec => []TypeOK
<1>1. ProofInv => TypeOK
  BY DEF ProofInv
<1> QED
  BY <1>1, ProofInvAlways, PTL

(* The root of every block, made level by level, is that of the tree which *)
(* halves its leaves: however many transactions it holds.                  *)
THEOREM RootIsMeantAlways == Spec => []RootIsMeant
<1>1. ProofInv => RootIsMeant
  <2> SUFFICES ASSUME ProofInv, NEW b \in blocks
               PROVE  b.root = TreeRoot(Padded(Encoded(b.number, b.txs)))
    BY DEF RootIsMeant
  <2>1. /\ b.txs \in Transactions /\ Pairable(Len(b.txs))
        /\ b.root = RootNode(Encoded(b.number, b.txs))
    BY BlockRoots
  <2>2. b.txs \in Seq(ToSet(b.txs)) /\ b.txs # << >>
    BY <2>1, ListsAssumption
  <2>3. /\ Encoded(b.number, b.txs) \in Seq({b.number} \X ToSet(b.txs))
        /\ Encoded(b.number, b.txs) # << >>
    BY <2>2, EncodedFacts
  <2>4. Builds(Encoded(b.number, b.txs))
    BY <2>1, EncodedBuilds
  <2> QED
    BY <2>1, <2>3, <2>4, RootIsTreeRoot
<1> QED
  BY <1>1, ProofInvAlways, PTL

(* NewMerkleTree panics just on the lists whose number, made even, is no   *)
(* power of two.                                                           *)
THEOREM PanicsAsCountedAlways == Spec => []PanicsAsCounted
<1>1. ProofInv => PanicsAsCounted
  BY DEF ProofInv
<1> QED
  BY <1>1, ProofInvAlways, PTL

(* Another list of transactions has another root than a block's, unless it *)
(* differs in the repeated last only.                                      *)
THEOREM RootTellsContentAlways == Spec => []RootTellsContent
<1>1. ProofInv => RootTellsContent
  <2> SUFFICES ASSUME ProofInv, NEW b \in blocks, NEW txs \in Transactions,
                      Builds(txs), RootNode(Encoded(b.number, txs)) = b.root
               PROVE  Padded(txs) = Padded(b.txs)
    BY DEF RootTellsContent
  <2>1. /\ b.txs \in Transactions /\ Pairable(Len(b.txs))
        /\ b.root = RootNode(Encoded(b.number, b.txs))
    BY BlockRoots
  <2>2. Pairable(Len(txs))
    BY EncodedBuilds
  <2> QED
    BY <2>1, <2>2, EqualRoots
<1> QED
  BY <1>1, ProofInvAlways, PTL

(* printchain finds the proof of the blocks of commands and of no others.  *)
THEOREM CommandsValidateAlways == Spec => []CommandsValidate
<1>1. ProofInv => CommandsValidate
  BY DEF ProofInv
<1> QED
  BY <1>1, ProofInvAlways, PTL

=============================================================================
