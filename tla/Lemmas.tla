------------------------------- MODULE Lemmas -------------------------------
(***************************************************************************)
(* Facts about numbers, finite sets, bags and lists that the proofs about  *)
(* several modules use.                                                    *)
(***************************************************************************)
EXTENDS Integers, FiniteSets, Bags, SequencesExt, Lists, FiniteSetTheorems, TLAPS

(* The natural numbers are well ordered.  (The sets 0 .. n - 1 are finite, *)
(* and the finite sets are well founded by inclusion.)                     *)
LEMMA SmallestExists ==
  ASSUME NEW T \in SUBSET Nat, T # {}
  PROVE  \E m \in T : \A n \in T : m <= n
<1> DEFINE Below == {0 .. n - 1 : n \in T}
<1>1. IsWellFoundedOn(StrictSubsetOrdering(Nat), FiniteSubsetsOf(Nat))
  BY FS_StrictSubsetOrderingWellFounded
<1>2. Below \subseteq FiniteSubsetsOf(Nat)
  <2>1. \A n \in Nat : 0 .. n - 1 \subseteq Nat /\ IsFiniteSet(0 .. n - 1)
    BY FS_Interval
  <2> QED
    BY <2>1 DEF FiniteSubsetsOf
<1>3. Below # {}
  OBVIOUS
<1>4. PICK B \in Below : \A C \in Below : <<C, B>> \notin StrictSubsetOrdering(Nat)
  <2> HIDE DEF Below
  <2> QED
    BY <1>1, <1>2, <1>3, WFMin
<1>5. PICK m \in T : B = 0 .. m - 1
  OBVIOUS
<1>6. ASSUME NEW n \in T, n < m PROVE FALSE
  <2>1. 0 .. n - 1 \subseteq 0 .. m - 1 /\ n \in 0 .. m - 1 /\ n \notin 0 .. n - 1
    BY <1>6
  <2>2. 0 .. n - 1 \subseteq Nat /\ 0 .. m - 1 \subseteq Nat
    OBVIOUS
  <2>3. 0 .. n - 1 \in Below
    OBVIOUS
  <2>4. <<0 .. n - 1, 0 .. m - 1>> \in StrictSubsetOrdering(Nat)
    BY <2>1, <2>2 DEF StrictSubsetOrdering
  <2> QED
    BY <1>4, <1>5, <2>3, <2>4
<1> QED
  BY <1>6

(* Induction over the natural numbers, for a set of them. *)
LEMMA Induction ==
  ASSUME NEW S, 0 \in S, \A n \in Nat : n \in S => n + 1 \in S
  PROVE  Nat \subseteq S
<1> SUFFICES ASSUME Nat \ S # {} PROVE FALSE
  OBVIOUS
<1>1. PICK m \in Nat \ S : \A n \in Nat \ S : m <= n
  <2>1. Nat \ S \in SUBSET Nat
    OBVIOUS
  <2> QED
    BY <2>1, SmallestExists
<1>2. m # 0 /\ m - 1 \in Nat
  BY <1>1
<1>3. m - 1 \in S
  BY <1>1, <1>2
<1> QED
  BY <1>1, <1>2, <1>3

(* A recursive function on the natural numbers exists. *)
LEMMA RecursiveFunction ==
  ASSUME NEW S, NEW base \in S, NEW F \in [S -> S]
  PROVE  \E f \in [Nat -> S] : f[0] = base /\ \A n \in Nat : f[n + 1] = F[f[n]]
<1> DEFINE Upto(n) == {g \in [0 .. n -> S] : g[0] = base /\ \A i \in 1 .. n : g[i] = F[g[i - 1]]}
           Good == {n \in Nat : Upto(n) # {}}
           Agree == {i \in Nat : \A n, m \in Nat : \A g \in Upto(n), h \in Upto(m) :
                        i <= n /\ i <= m => g[i] = h[i]}
           f == [n \in Nat |-> (CHOOSE g : g \in Upto(n))[n]]
<1>1. 0 \in Good
  <2>1. [i \in 0 .. 0 |-> base] \in Upto(0)
    OBVIOUS
  <2> QED
    BY <2>1
<1>2. ASSUME NEW n \in Nat, n \in Good PROVE n + 1 \in Good
  <2>1. PICK g : g \in Upto(n)
    BY <1>2
  <2> DEFINE h == [i \in 0 .. n + 1 |-> IF i = n + 1 THEN F[g[n]] ELSE g[i]]
  <2>2. h \in [0 .. n + 1 -> S] /\ h[0] = base
    BY <2>1
  <2>3. \A i \in 1 .. n + 1 : h[i] = F[h[i - 1]]
    BY <2>1
  <2>4. h \in Upto(n + 1)
    BY <2>2, <2>3
  <2> HIDE DEF Upto
  <2> QED
    BY <2>4
<1>3. Nat \subseteq Good
  <2> HIDE DEF Good
  <2> QED
    BY <1>1, <1>2, Induction
<1>4. 0 \in Agree
  OBVIOUS
<1>5. ASSUME NEW i \in Nat, i \in Agree PROVE i + 1 \in Agree
  <2>1. ASSUME NEW n \in Nat, NEW m \in Nat, NEW g \in Upto(n), NEW h \in Upto(m),
               i + 1 <= n, i + 1 <= m
        PROVE  g[i + 1] = h[i + 1]
    <3>1. g[i] = h[i]
      <4> HIDE DEF Upto
      <4> QED
        BY <1>5, <2>1
    <3>2. i + 1 \in 1 .. n /\ i + 1 \in 1 .. m /\ (i + 1) - 1 = i
      BY <2>1
    <3> QED
      BY <3>1, <3>2
  <2> HIDE DEF Upto
  <2> QED
    BY <2>1
<1>6. Nat \subseteq Agree
  <2> HIDE DEF Agree
  <2> QED
    BY <1>4, <1>5, Induction
<1> DEFINE C(n) == CHOOSE g : g \in Upto(n)
<1>7. \A n \in Nat : C(n) \in Upto(n) /\ f[n] = C(n)[n]
  <2> HIDE DEF Upto
  <2> QED
    BY <1>3
<1> HIDE DEF C
<1>8. f \in [Nat -> S]
  <2>1. \A n \in Nat : C(n)[n] \in S
    BY <1>7
  <2>2. f = [n \in Nat |-> C(n)[n]]
    BY DEF C
  <2> HIDE DEF f
  <2> QED
    BY <2>1, <2>2
<1> HIDE DEF f
<1>9. ASSUME NEW n \in Nat PROVE f[n] = IF n = 0 THEN base ELSE F[f[n - 1]]
  <2>1. CASE n = 0
    BY <1>7, <2>1
  <2>2. CASE n # 0
    <3>1. n - 1 \in Nat /\ n \in 1 .. n
      BY <2>2
    <3>2. C(n)[n] = F[C(n)[n - 1]]
      BY <1>7, <3>1
    <3>3. C(n)[n - 1] = C(n - 1)[n - 1]
      <4>1. n - 1 <= n /\ n - 1 <= n - 1
        BY <3>1
      <4> HIDE DEF Upto
      <4>2. C(n) \in Upto(n) /\ C(n - 1) \in Upto(n - 1)
        BY <1>7, <3>1
      <4>3. \A m, l \in Nat : \A g \in Upto(m), h \in Upto(l) :
               n - 1 <= m /\ n - 1 <= l => g[n - 1] = h[n - 1]
        BY <1>6, <3>1
      <4> QED
        BY <3>1, <4>1, <4>2, <4>3
    <3> QED
      BY <1>7, <2>2, <3>1, <3>2, <3>3
  <2> QED
    BY <2>1, <2>2
<1>10. f[0] = base /\ \A n \in Nat : f[n + 1] = F[f[n]]
  <2>1. ASSUME NEW n \in Nat PROVE f[n + 1] = F[f[n]]
    <3>1. n + 1 \in Nat /\ n + 1 # 0 /\ (n + 1) - 1 = n
      OBVIOUS
    <3> QED
      BY <1>9, <3>1
  <2> QED
    BY <1>9, <2>1
<1> QED
  BY <1>8, <1>10

(* So does one that goes through n steps. *)
Stepping(F, n, S) == \A k \in 1 .. n : F[k] \in [S -> S]

Follows(g, F, base, n, S) ==
    /\ g \in [0 .. n -> S]
    /\ g[0] = base /\ \A k \in 1 .. n : g[k] = F[k][g[k - 1]]

LEMMA Steps ==
  ASSUME NEW S, NEW base \in S, NEW n \in Nat, NEW F, Stepping(F, n, S)
  PROVE  \E g : Follows(g, F, base, n, S)
<1> DEFINE Upto(m) == {g \in [0 .. m -> S] :
                          g[0] = base /\ \A k \in 1 .. m : g[k] = F[k][g[k - 1]]}
           Good == {m \in Nat : m <= n => Upto(m) # {}}
<1>0. \A k \in 1 .. n : F[k] \in [S -> S]
  BY DEF Stepping
<1>1. 0 \in Good
  <2>1. [k \in 0 .. 0 |-> base] \in Upto(0)
    OBVIOUS
  <2> QED
    BY <2>1
<1>2. ASSUME NEW m \in Nat, m \in Good PROVE m + 1 \in Good
  <2> SUFFICES ASSUME m + 1 <= n PROVE Upto(m + 1) # {}
    <3> HIDE DEF Upto
    <3> QED
      OBVIOUS
  <2>1. PICK g : g \in Upto(m)
    <3> HIDE DEF Upto
    <3> QED
      BY <1>2
  <2> DEFINE h == [k \in 0 .. m + 1 |-> IF k = m + 1 THEN F[m + 1][g[m]] ELSE g[k]]
  <2>2. F[m + 1][g[m]] \in S
    <3>1. m + 1 \in 1 .. n /\ g[m] \in S
      BY <2>1
    <3> QED
      BY <1>0, <3>1
  <2>3. h \in [0 .. m + 1 -> S] /\ h[0] = base
    BY <2>1, <2>2
  <2>4. ASSUME NEW k \in 1 .. m + 1 PROVE h[k] = F[k][h[k - 1]]
    <3>1. h[k - 1] = g[k - 1]
      OBVIOUS
    <3>2. CASE k = m + 1
      <4>1. h[k] = F[m + 1][g[m]] /\ k - 1 = m
        BY <3>2
      <4> HIDE DEF h
      <4> QED
        BY <3>1, <3>2, <4>1
    <3>3. CASE k # m + 1
      <4>1. h[k] = g[k] /\ k \in 1 .. m
        BY <3>3
      <4> HIDE DEF h
      <4> QED
        BY <2>1, <3>1, <4>1
    <3> QED
      BY <3>2, <3>3
  <2>5. h \in Upto(m + 1)
    BY <2>3, <2>4
  <2> HIDE DEF Upto
  <2> QED
    BY <2>5
<1>3. n \in Good
  <2> HIDE DEF Good
  <2> QED
    BY <1>1, <1>2, Induction
<1> QED
  BY <1>3 DEF Follows

(* Induction over the rounds of a loop. *)
LEMMA Rounds ==
  ASSUME NEW n \in Nat, NEW T, 0 \in T, \A k \in 1 .. n : k - 1 \in T => k \in T
  PROVE  0 .. n \subseteq T
<1> DEFINE Good == {k \in Nat : k <= n => k \in T}
<1>1. 0 \in Good
  OBVIOUS
<1>2. ASSUME NEW k \in Nat, k \in Good PROVE k + 1 \in Good
  <2>1. k + 1 <= n => k + 1 \in 1 .. n /\ (k + 1) - 1 = k /\ k \in T
    BY <1>2
  <2> QED
    BY <2>1
<1>3. Nat \subseteq Good
  <2> HIDE DEF Good
  <2> QED
    BY <1>1, <1>2, Induction
<1> QED
  BY <1>3

LEMMA SameSteps ==
  ASSUME NEW n \in Nat, NEW g, NEW h, h[0] = g[0],
         \A k \in 1 .. n : h[k - 1] = g[k - 1] => h[k] = g[k]
  PROVE  \A k \in 0 .. n : h[k] = g[k]
<1> DEFINE Same == {k \in 0 .. n : h[k] = g[k]}
<1>1. 0 \in Same
  OBVIOUS
<1>2. \A k \in 1 .. n : k - 1 \in Same => k \in Same
  OBVIOUS
<1>3. 0 .. n \subseteq Same
  <2> HIDE DEF Same
  <2> QED
    BY <1>1, <1>2, Rounds
<1> QED
  BY <1>3

(* Max finds the largest element of a bounded set. *)
LEMMA MaxOfSet ==
  ASSUME NEW n \in Nat, NEW T \in SUBSET (0 .. n), T # {}
  PROVE  Max(T) \in T /\ \A x \in T : x <= Max(T)
<1> DEFINE Slack == {n - x : x \in T}
<1>1. \A x \in T : x \in 0 .. n /\ n - x \in Nat
  <2>1. T \subseteq 0 .. n
    OBVIOUS
  <2> QED
    BY <2>1
<1>2. PICK s \in Slack : \A r \in Slack : s <= r
  <2>1. Slack \in SUBSET Nat /\ Slack # {}
    BY <1>1
  <2> HIDE DEF Slack
  <2> QED
    BY <2>1, SmallestExists
<1>3. PICK x \in T : s = n - x
  OBVIOUS
<1>4. \A y \in T : x >= y
  <2> TAKE y \in T
  <2>1. n - y \in Slack
    OBVIOUS
  <2>2. n - x <= n - y
    BY <1>2, <1>3, <2>1
  <2> QED
    BY <1>1, <2>2
<1>5. \E m \in T : \A y \in T : m >= y
  BY <1>4
<1>6. Max(T) \in T /\ \A y \in T : Max(T) >= y
  BY <1>5 DEF Max
<1> QED
  BY <1>6, <1>1

-----------------------------------------------------------------------------
(* Bags: what is put in is in, what is taken out leaves the rest. *)
LEMMA BagAdd ==
  ASSUME NEW B, IsABag(B), NEW S
  PROVE  /\ IsABag(B (+) SetToBag(S))
         /\ BagToSet(B (+) SetToBag(S)) = BagToSet(B) \cup S
  BY DEF IsABag, BagToSet, SetToBag, (+)

LEMMA BagRemove ==
  ASSUME NEW B, IsABag(B), NEW x \in BagToSet(B)
  PROVE  /\ IsABag(B (-) SetToBag({x}))
         /\ BagToSet(B (-) SetToBag({x})) \subseteq BagToSet(B)
         /\ BagToSet(B) \subseteq BagToSet(B (-) SetToBag({x})) \cup {x}
  BY DEF IsABag, BagToSet, SetToBag, (-)

(* How often an element is in a bag that others were put into, or taken from. *)
LEMMA BagAddCount ==
  ASSUME NEW B, IsABag(B), NEW S
  PROVE  \A x \in BagToSet(B) \cup S :
             /\ x \notin S => (B (+) SetToBag(S))[x] = B[x]
             /\ x \notin BagToSet(B) => (B (+) SetToBag(S))[x] = 1
  BY DEF IsABag, BagToSet, SetToBag, (+)

LEMMA BagRemoveCount ==
  ASSUME NEW B, IsABag(B), NEW x \in BagToSet(B)
  PROVE  /\ \A y \in BagToSet(B (-) SetToBag({x})) :
                y # x => (B (-) SetToBag({x}))[y] = B[y]
         /\ B[x] = 1 => x \notin BagToSet(B (-) SetToBag({x}))
  BY DEF IsABag, BagToSet, SetToBag, (-)

LEMMA BagEmpty ==
  /\ IsABag(EmptyBag)
  /\ BagToSet(EmptyBag) = {}
  /\ \A B : IsABag(B) /\ BagToSet(B) = {} => B = EmptyBag
  BY DEF IsABag, BagToSet, SetToBag, EmptyBag

LEMMA BagSingleton ==
  ASSUME NEW x
  PROVE  /\ EmptyBag (+) SetToBag({x}) = SetToBag({x})
         /\ SetToBag({x}) (-) SetToBag({x}) = EmptyBag
         /\ BagToSet(SetToBag({x})) = {x}
         /\ IsABag(SetToBag({x}))
         /\ SetToBag({x}) # EmptyBag
  BY DEF IsABag, BagToSet, SetToBag, EmptyBag, (+), (-)

-----------------------------------------------------------------------------
(* Lists and the sets of their elements. *)
LEMMA AppendElements ==
  ASSUME NEW S, NEW list \in Seq(S), NEW x \in S
  PROVE  /\ Append(list, x) \in Seq(S)
         /\ ToSet(Append(list, x)) = ToSet(list) \cup {x}
<1>1. /\ Append(list, x) \in Seq(S)
      /\ Len(Append(list, x)) = Len(list) + 1
      /\ \A i \in 1 .. Len(list) : Append(list, x)[i] = list[i]
      /\ Append(list, x)[Len(list) + 1] = x
      /\ Len(list) \in Nat
  OBVIOUS
<1>2. DOMAIN Append(list, x) = 1 .. Len(list) + 1 /\ DOMAIN list = 1 .. Len(list)
  OBVIOUS
<1> QED
  BY <1>1, <1>2 DEF ToSet

LEMMA HeadTailElements ==
  ASSUME NEW S, NEW list \in Seq(S), list # << >>
  PROVE  /\ Head(list) \in S
         /\ Tail(list) \in Seq(S)
         /\ ToSet(list) = {Head(list)} \cup ToSet(Tail(list))
<1>1. /\ Head(list) = list[1]
      /\ Head(list) \in S
      /\ Tail(list) \in Seq(S)
      /\ Len(list) \in Nat \ {0}
      /\ Len(Tail(list)) = Len(list) - 1
      /\ \A i \in 1 .. Len(list) - 1 : Tail(list)[i] = list[i + 1]
      /\ DOMAIN list = 1 .. Len(list) /\ DOMAIN Tail(list) = 1 .. Len(list) - 1
  OBVIOUS
<1>2. ASSUME NEW i \in 1 .. Len(list) PROVE list[i] \in {Head(list)} \cup ToSet(Tail(list))
  <2>1. CASE i = 1
    BY <1>1, <2>1
  <2>2. CASE i # 1
    <3>1. i - 1 \in 1 .. Len(list) - 1 /\ Tail(list)[i - 1] = list[i]
      BY <1>1, <2>2
    <3> QED
      BY <1>1, <3>1 DEF ToSet
  <2> QED
    BY <2>1, <2>2
<1>3. ASSUME NEW i \in 1 .. Len(list) - 1 PROVE Tail(list)[i] \in ToSet(list)
  BY <1>1 DEF ToSet
<1>4. Head(list) \in ToSet(list)
  BY <1>1 DEF ToSet
<1> QED
  BY <1>1, <1>2, <1>3, <1>4 DEF ToSet

-----------------------------------------------------------------------------
(* Without keeps the elements that are not taken out, and nothing else. *)
LEMMA WithoutElements ==
  ASSUME NEW S, NEW list \in Seq(S), NEW gone
  PROVE  /\ Without(list, gone) \in Seq(S)
         /\ ToSet(Without(list, gone)) = ToSet(list) \ gone
<1> DEFINE Dom == 0 .. Len(list)
           Value(g, i) == IF i = 0 THEN << >>
                          ELSE IF list[i] \in gone THEN g[i - 1]
                          ELSE Append(g[i - 1], list[i])
           Upto(n) == {g \in [0 .. n -> Seq(S)] : \A i \in 0 .. n : g[i] = Value(g, i)}
           Good == {n \in Nat : n <= Len(list) => Upto(n) # {}}
           Kept == CHOOSE g : g = [i \in Dom |-> Value(g, i)]
<1>0. Len(list) \in Nat /\ \A i \in 1 .. Len(list) : list[i] \in S
  OBVIOUS
<1>1. 0 \in Good
  <2>1. [i \in 0 .. 0 |-> << >>] \in Upto(0)
    OBVIOUS
  <2> QED
    BY <2>1
<1>2. ASSUME NEW n \in Nat, n \in Good PROVE n + 1 \in Good
  <2> SUFFICES ASSUME n + 1 <= Len(list) PROVE Upto(n + 1) # {}
    <3> HIDE DEF Upto
    <3> QED
      OBVIOUS
  <2>1. PICK g : g \in Upto(n)
    <3> HIDE DEF Upto
    <3> QED
      BY <1>0, <1>2
  <2> DEFINE h == [i \in 0 .. n + 1 |-> IF i = n + 1 THEN Value(g, i) ELSE g[i]]
  <2>2. g \in [0 .. n -> Seq(S)] /\ \A i \in 0 .. n : g[i] = Value(g, i)
    BY <2>1
  <2>3. list[n + 1] \in S /\ g[n] \in Seq(S)
    BY <1>0, <2>2
  <2>4. h \in [0 .. n + 1 -> Seq(S)]
    BY <2>2, <2>3
  <2>5. ASSUME NEW i \in 0 .. n + 1 PROVE h[i] = Value(h, i)
    <3>1. CASE i = 0
      BY <3>1, <2>2
    <3>2. CASE i # 0
      <4>1. h[i - 1] = g[i - 1]
        BY <3>2
      <4>2. h[i] = Value(g, i)
        <5>1. CASE i = n + 1
          BY <5>1
        <5>2. CASE i # n + 1
          <6>1. h[i] = g[i] /\ i \in 0 .. n
            BY <5>2
          <6> HIDE DEF h, Value
          <6> QED
            BY <2>2, <6>1
        <5> QED
          BY <5>1, <5>2
      <4> HIDE DEF h
      <4> QED
        BY <3>2, <4>1, <4>2
    <3> QED
      BY <3>1, <3>2
  <2> QED
    BY <2>4, <2>5
<1>3. Nat \subseteq Good
  <2> HIDE DEF Good
  <2> QED
    BY <1>1, <1>2, Induction
<1>4. PICK f : f \in Upto(Len(list))
  <2> HIDE DEF Upto
  <2> QED
    BY <1>0, <1>3
<1>5. f = [i \in Dom |-> Value(f, i)]
  BY <1>4
<1>6. Kept = [i \in Dom |-> Value(Kept, i)]
  <2> HIDE DEF Value
  <2> QED
    BY <1>5
<1>7. Without(list, gone) = Kept[Len(list)]
  BY DEF Without
<1>8. \A i \in 0 .. Len(list) : Kept[i] = Value(Kept, i)
  <2> HIDE DEF Value, Kept
  <2> QED
    BY <1>6
<1> HIDE DEF Kept
<1> DEFINE Holds(i) == /\ Kept[i] \in Seq(S)
                       /\ ToSet(Kept[i]) = {list[j] : j \in 1 .. i} \ gone
           Fine == {i \in Nat : i <= Len(list) => Holds(i)}
<1>9. 0 \in Fine
  <2>1. Kept[0] = << >>
    BY <1>0, <1>8
  <2>2. << >> \in Seq(S) /\ ToSet(<< >>) = {} /\ 1 .. 0 = {}
    BY DEF ToSet
  <2>3. Holds(0)
    BY <2>1, <2>2
  <2> HIDE DEF Holds
  <2> QED
    BY <2>3
<1>10. ASSUME NEW n \in Nat, n \in Fine PROVE n + 1 \in Fine
  <2> SUFFICES ASSUME n + 1 <= Len(list) PROVE Holds(n + 1)
    OBVIOUS
  <2>1. Holds(n) /\ list[n + 1] \in S
    <3> HIDE DEF Holds
    <3> QED
      BY <1>0, <1>10
  <2>2. Kept[n + 1] = IF list[n + 1] \in gone THEN Kept[n] ELSE Append(Kept[n], list[n + 1])
    BY <1>0, <1>8
  <2>3. {list[j] : j \in 1 .. n + 1} = {list[j] : j \in 1 .. n} \cup {list[n + 1]}
    OBVIOUS
  <2>4. CASE list[n + 1] \in gone
    BY <2>1, <2>2, <2>3, <2>4
  <2>5. CASE list[n + 1] \notin gone
    <3>1. Kept[n + 1] = Append(Kept[n], list[n + 1])
      BY <2>2, <2>5
    <3>2. ToSet(Kept[n + 1]) = ToSet(Kept[n]) \cup {list[n + 1]}
      BY <2>1, <3>1, AppendElements
    <3> QED
      BY <2>1, <2>3, <2>5, <3>1, <3>2
  <2> QED
    BY <2>4, <2>5
<1>11. Nat \subseteq Fine
  <2> HIDE DEF Fine
  <2> QED
    BY <1>9, <1>10, Induction
<1>12. Holds(Len(list))
  <2> HIDE DEF Holds
  <2> QED
    BY <1>0, <1>11
<1>13. ToSet(list) = {list[j] : j \in 1 .. Len(list)}
  BY <1>0 DEF ToSet
<1> QED
  BY <1>7, <1>12, <1>13

=============================================================================
