--------------------------- MODULE WalletsProofs ----------------------------
(***************************************************************************)
(* Proofs about Wallets, for every number of commands and every set of     *)
(* keys.                                                                   *)
(***************************************************************************)
EXTENDS Wallets, Lemmas, SequenceTheorems

(* A command makes one key and forgets it when it ends. *)
LEMMA TypeStep == TypeOK /\ [Next]_vars => TypeOK'
<1> SUFFICES ASSUME TypeOK, [Next]_vars PROVE TypeOK'
  OBVIOUS
<1> USE DEF TypeOK, Creating, Goes
<1>1. ASSUME NEW p \in Process, NEW k \in Key, Create(p, k)
      PROVE  TypeOK'
  BY <1>1, FS_Singleton, ZenonT(40) DEF Create, Saved
<1>2. ASSUME NEW p \in Process, Truncate(p)
      PROVE  TypeOK'
  BY <1>2 DEF Truncate
<1>3. ASSUME NEW p \in Process, Write(p)
      PROVE  TypeOK'
  BY <1>3, FS_EmptySet DEF Write, Idle
<1>4. ASSUME NEW p \in Process, Kill(p)
      PROVE  TypeOK'
  BY <1>4, FS_EmptySet DEF Kill, Idle
<1>5. ASSUME NEW p \in Process, NEW k \in Key, NEW sig \in Pairs, Send(p, k, sig)
      PROVE  TypeOK'
  BY <1>5 DEF Send
<1>6. CASE UNCHANGED vars
  BY <1>6 DEF vars
<1> QED
  BY <1>1, <1>2, <1>3, <1>4, <1>5, <1>6 DEF Next

THEOREM TypeCorrect == Spec => []TypeOK
<1>1. Init => TypeOK
  <2> SUFFICES ASSUME Init PROVE TypeOK
    OBVIOUS
  <2>1. Cardinality({}) = 0
    BY FS_EmptySet
  <2> QED
    BY <2>1 DEF Init, TypeOK, Idle, Creating
<1> QED
  BY <1>1, TypeStep, PTL DEF Spec

-----------------------------------------------------------------------------
LEMMA ReadableStep == TypeOK /\ Readable /\ [Next]_vars => Readable'
<1> SUFFICES ASSUME TypeOK, Readable, [Next]_vars PROVE Readable'
  OBVIOUS
<1> USE FileAssumption DEF TypeOK, Readable, Goes
<1>1. ASSUME NEW p \in Process, NEW k \in Key, Create(p, k)
      PROVE  Readable'
  BY <1>1 DEF Create
<1>2. ASSUME NEW p \in Process, Truncate(p)
      PROVE  Readable'
  BY <1>2 DEF Truncate
<1>3. ASSUME NEW p \in Process, Write(p)
      PROVE  Readable'
  BY <1>3 DEF Write
<1>4. ASSUME NEW p \in Process, Kill(p)
      PROVE  Readable'
  BY <1>4 DEF Kill
<1>5. CASE UNCHANGED <<file, command, torn>>
  BY <1>5
<1> QED
  BY <1>1, <1>2, <1>3, <1>4, <1>5 DEF Next, Send, vars

(* Whatever commands overlap, a file that does not decode is about to be   *)
(* written, unless a command was killed just then.                         *)
THEOREM ReadableAlways == Spec => []Readable
<1>1. Init => Readable
  BY FileAssumption DEF Init, Readable
<1> QED
  BY <1>1, ReadableStep, TypeCorrect, PTL DEF Spec

-----------------------------------------------------------------------------
(* While no commands overlap and none is killed while it saves, only one   *)
(* makes a key, and it has loaded all keys whose addresses are known.      *)
KeysInv ==
    ~overlapped /\ ~torn =>
        /\ \A p \in Process : Creating(p) =>
            /\ printed \subseteq command[p].keys
            /\ \A q \in Process : Creating(q) => q = p
        /\ file # Empty => printed \subseteq Saved

LEMMA KeysStep == TypeOK /\ KeysInv /\ [Next]_vars => KeysInv'
<1> SUFFICES ASSUME TypeOK, KeysInv, [Next]_vars, ~overlapped', ~torn' PROVE KeysInv'
  BY DEF KeysInv
<1> USE FileAssumption DEF TypeOK, KeysInv, Creating, Saved, Goes
<1>1. ASSUME NEW p \in Process, NEW k \in Key, Create(p, k)
      PROVE  KeysInv'
  <2>1. ~overlapped /\ ~torn /\ \A q \in Process : ~Creating(q)
    BY <1>1, Zenon DEF Create
  <2>2. /\ file # Empty /\ file' = file /\ printed' = printed
        /\ command'[p].keys = Saved
        /\ \A q \in Process \ {p} : command'[q] = command[q]
    BY <1>1 DEF Create
  <2> QED
    BY <2>1, <2>2
<1>2. ASSUME NEW p \in Process, Truncate(p)
      PROVE  KeysInv'
  BY <1>2 DEF Truncate
<1>3. ASSUME NEW p \in Process, Write(p)
      PROVE  KeysInv'
  BY <1>3 DEF Write, Idle
<1>4. ASSUME NEW p \in Process, Kill(p)
      PROVE  KeysInv'
  BY <1>4 DEF Kill, Idle
<1>5. CASE UNCHANGED <<file, command, printed, overlapped, torn>>
  BY <1>5
<1> QED
  BY <1>1, <1>2, <1>3, <1>4, <1>5 DEF Next, Send, vars

(* No key whose address was printed is lost, whatever is killed and        *)
(* whoever reads the file, as long as no two commands make keys at once    *)
(* and none is killed between truncating and writing.                      *)
THEOREM KeysKeptAlways == Spec => []KeysKept
<1>1. Init => KeysInv
  BY DEF Init, KeysInv, Creating, Idle
<1>2. TypeOK /\ KeysInv /\ Readable => KeysKept
  BY DEF TypeOK, KeysInv, KeysKept, Creating, Readable
<1> QED
  BY <1>1, <1>2, KeysStep, TypeCorrect, ReadableAlways, PTL DEF Spec

-----------------------------------------------------------------------------
(* Numbers as bytes.  The powers of the base: *)
LEMMA PowerStep ==
  /\ Power[0] = 1
  /\ \A e \in Nat : Power[e + 1] = Base * Power[e]
  /\ \A e \in Nat : Power[e] \in Nat \ {0}
<1> DEFINE Times == [x \in Nat |-> Base * x]
           Value(g, n) == IF n = 0 THEN 1 ELSE Base * g[n - 1]
           Chosen == CHOOSE g : g = [n \in Nat |-> Value(g, n)]
           Positive == {n \in Nat : Chosen[n] \in Nat \ {0}}
<1>0. Base \in Nat /\ Base > 1
  BY WidthAssumption
<1>1. PICK f \in [Nat -> Nat] : f[0] = 1 /\ \A n \in Nat : f[n + 1] = Times[f[n]]
  <2> DEFINE Numbers == Nat
             one == 1
  <2>1. Times \in [Numbers -> Numbers] /\ one \in Numbers
    BY <1>0
  <2>2. \E f \in [Nat -> Numbers] : f[0] = one /\ \A n \in Nat : f[n + 1] = Times[f[n]]
    <3> HIDE DEF Times, Numbers, one
    <3> QED
      BY <2>1, RecursiveFunction
  <2> HIDE DEF Times
  <2> QED
    BY <2>2
<1>2. f = [n \in Nat |-> Value(f, n)]
  <2>1. ASSUME NEW n \in Nat PROVE f[n] = Value(f, n)
    <3>1. CASE n = 0
      BY <1>1, <3>1
    <3>2. CASE n # 0
      <4>1. n - 1 \in Nat /\ (n - 1) + 1 = n /\ f[n - 1] \in Nat
        BY <3>2
      <4>2. f[n] = Times[f[n - 1]]
        <5> HIDE DEF Times
        <5> QED
          BY <1>1, <4>1
      <4> QED
        BY <3>2, <4>1, <4>2
    <3> QED
      BY <3>1, <3>2
  <2>2. f = [n \in Nat |-> f[n]]
    OBVIOUS
  <2> HIDE DEF Value
  <2> QED
    BY <2>1, <2>2
<1>3. Chosen = [n \in Nat |-> Value(Chosen, n)]
  <2> HIDE DEF Value
  <2> QED
    BY <1>2
<1>4. Power = Chosen
  BY DEF Power
<1> HIDE DEF Chosen
<1>5. \A n \in Nat : Chosen[n] = Value(Chosen, n)
  <2> HIDE DEF Value
  <2> QED
    BY <1>3
<1>6. Chosen[0] = 1 /\ \A e \in Nat : Chosen[e + 1] = Base * Chosen[e]
  BY <1>5
<1>7. Nat \subseteq Positive
  <2>1. 0 \in Positive /\ \A n \in Nat : n \in Positive => n + 1 \in Positive
    BY <1>0, <1>6
  <2> HIDE DEF Positive
  <2> QED
    BY <2>1, Induction
<1> QED
  BY <1>4, <1>6, <1>7

(* A digit is what is left of a number when the higher ones are taken off. *)
LEMMA Quotient ==
  ASSUME NEW b \in Nat \ {0}, NEW p \in Nat \ {0}, NEW n \in Nat
  PROVE  (n \div p) \div b = n \div (b * p)
<1> DEFINE q == n \div p
           s == n % p
           d == q \div b
           t == q % b
<1>1. q \in Nat /\ s \in Nat /\ s < p /\ n = q * p + s
  OBVIOUS
<1>2. d \in Nat /\ t \in Nat /\ t <= b - 1 /\ q = d * b + t
  BY <1>1
<1> HIDE DEF q, s, d, t
<1>3. q * p = d * (b * p) + t * p
  BY <1>1, <1>2
<1>4. t * p <= (b - 1) * p /\ (b - 1) * p = b * p - p /\ t * p \in Nat
  BY <1>2
<1>5. b * p \in Nat \ {0}
  OBVIOUS
<1>6. n = d * (b * p) + (t * p + s) /\ t * p + s \in Nat /\ t * p + s < b * p
  <2> DEFINE u == t * p
             v == b * p
             x == d * (b * p)
             y == q * p
  <2>1. u \in Nat /\ v \in Nat /\ x \in Nat /\ y \in Nat /\ y = x + u /\ u <= v - p
    BY <1>1, <1>2, <1>3, <1>4, <1>5
  <2>2. n = y + s /\ s \in Nat /\ s < p
    BY <1>1
  <2> HIDE DEF u, v, x, y
  <2>3. n = x + (u + s) /\ u + s \in Nat /\ u + s < v
    BY <2>1, <2>2
  <2> QED
    BY <2>3 DEF u, v, x
<1>7. n \div (b * p) = d
  <2> DEFINE w == b * p
             r == t * p + s
  <2>1. w \in Nat \ {0} /\ r \in Nat /\ r < w /\ n = d * w + r
    BY <1>5, <1>6
  <2> HIDE DEF w, r
  <2>2. n \div w = d
    BY <2>1, <1>2
  <2> QED
    BY <2>2 DEF w
<1> QED
  BY <1>7 DEF d, q

LEMMA Digit ==
  ASSUME NEW n \in Nat, NEW j \in Nat
  PROVE  /\ n \div Power[j] \in Nat
         /\ n \div Power[j] = Base * (n \div Power[j + 1]) + ((n \div Power[j]) % Base)
<1>1. Base \in Nat \ {0} /\ Power[j] \in Nat \ {0} /\ Power[j + 1] = Base * Power[j]
  BY PowerStep, WidthAssumption
<1>2. (n \div Power[j]) \div Base = n \div Power[j + 1]
  <2>1. \A b, p \in Nat \ {0} : (n \div p) \div b = n \div (b * p)
    BY Quotient
  <2> QED
    BY <1>1, <2>1
<1>3. n \div Power[j] \in Nat
  BY <1>1
<1> DEFINE q == n \div Power[j]
<1> HIDE DEF q
<1>4. q \in Nat => q = Base * (q \div Base) + (q % Base)
  BY <1>1
<1> QED
  BY <1>2, <1>3, <1>4 DEF q

(* SetBytes, byte by byte. *)
Reads(g, bytes) ==
    /\ g \in [0 .. Len(bytes) -> Nat]
    /\ g[0] = 0 /\ \A k \in 1 .. Len(bytes) : g[k] = Base * g[k - 1] + bytes[k]

LEMMA FromBytesSteps ==
  ASSUME NEW bytes \in Seq(Nat)
  PROVE  \E g : Reads(g, bytes) /\ FromBytes(bytes) = g[Len(bytes)]
<1> DEFINE N == Len(bytes)
           S == Nat
           base == 0
           Step(x, k) == Base * x + bytes[k]
           Value(g, k) == IF k = 0 THEN base ELSE Step(g[k - 1], k)
           Chosen == CHOOSE g : g = [k \in 0 .. N |-> Value(g, k)]
           F == [k \in 1 .. N |-> [x \in S |-> Step(x, k)]]
<1>1. N \in Nat /\ base \in S /\ \A x \in S, k \in 1 .. N : Step(x, k) \in S
  BY WidthAssumption
<1>2. PICK g : Follows(g, F, base, N, S)
  <2>1. Stepping(F, N, S)
    <3> HIDE DEF Step, S, N
    <3> QED
      BY <1>1 DEF Stepping
  <2> HIDE DEF F, S, N, base
  <2> QED
    BY <1>1, <2>1, Steps
<1>3. g \in [0 .. N -> S] /\ g[0] = base /\ \A k \in 1 .. N : g[k] = Step(g[k - 1], k)
  <2>1. g \in [0 .. N -> S] /\ g[0] = base /\ \A k \in 1 .. N : g[k] = F[k][g[k - 1]]
    <3> HIDE DEF F, S, N, base
    <3> QED
      BY <1>2 DEF Follows
  <2>2. \A k \in 1 .. N : g[k - 1] \in S
    <3>1. \A k \in 1 .. N : k - 1 \in 0 .. N
      BY <1>1
    <3> HIDE DEF S, N, base, F
    <3> QED
      BY <2>1, <3>1
  <2> HIDE DEF Step, S, N, base
  <2> QED
    BY <2>1, <2>2
<1> HIDE DEF S, F
<1>4. g = [k \in 0 .. N |-> Value(g, k)]
  <2>1. g = [k \in 0 .. N |-> g[k]]
    BY <1>3
  <2>2. ASSUME NEW k \in 0 .. N PROVE g[k] = Value(g, k)
    <3>1. k = 0 \/ k \in 1 .. N
      BY <1>1
    <3> HIDE DEF Step, base
    <3> QED
      BY <1>1, <1>3, <3>1
  <2> HIDE DEF Value
  <2> QED
    BY <2>1, <2>2
<1>5. Chosen = [k \in 0 .. N |-> Value(Chosen, k)]
  <2> HIDE DEF Value
  <2> QED
    BY <1>4
<1>6. FromBytes(bytes) = Chosen[N]
  BY DEF FromBytes
<1> HIDE DEF Chosen
<1>7. \A k \in 0 .. N : Chosen[k] = Value(Chosen, k)
  <2> HIDE DEF Value
  <2> QED
    BY <1>5
<1>8. Chosen[N] = g[N]
  <2>1. Chosen[0] = g[0] /\ \A k \in 1 .. N : Chosen[k - 1] = g[k - 1] => Chosen[k] = g[k]
    <3> HIDE DEF Step, base
    <3> QED
      BY <1>1, <1>3, <1>7
  <2> HIDE DEF N, Value, Step
  <2>2. \A k \in 0 .. N : Chosen[k] = g[k]
    BY <1>1, <2>1, SameSteps, ZenonT(40)
  <2> QED
    BY <1>1, <2>2
<1> QED
  BY <1>3, <1>6, <1>8 DEF S, Reads

(* The numbers that signatures and keys consist of.  Their bytes are as    *)
(* many as they need.                                                      *)
Number == 1 .. Power[Width] - 1

LEMMA ByteLenFacts ==
  ASSUME NEW n \in Number
  PROVE  /\ n \in Nat \ {0} /\ ByteLen(n) \in Nat \ {0} /\ n < Power[ByteLen(n)]
         /\ Bytes(n) \in Seq(Nat) /\ Len(Bytes(n)) = ByteLen(n)
         /\ \A i \in 1 .. ByteLen(n) : Bytes(n)[i] = (n \div Power[ByteLen(n) - i]) % Base
<1>1. Base \in Nat \ {0} /\ Width \in Nat /\ Power[0] = 1 /\ \A e \in Nat : Power[e] \in Nat \ {0}
  BY PowerStep, WidthAssumption
<1>2. n \in Nat \ {0} /\ n < Power[Width]
  BY <1>1 DEF Number
<1> DEFINE Enough == {k \in Nat : n < Power[k]}
<1>3. PICK m \in Enough : \A k \in Enough : m <= k
  <2>1. Enough \in SUBSET Nat /\ Enough # {}
    BY <1>1, <1>2
  <2> HIDE DEF Enough
  <2> QED
    BY <2>1, SmallestExists
<1>4. m \in 0 .. Width /\ n < Power[m] /\ \A i \in 0 .. m - 1 : n >= Power[i]
  BY <1>1, <1>2, <1>3
<1>5. /\ ByteLen(n) \in 0 .. Width
      /\ n < Power[ByteLen(n)] /\ \A i \in 0 .. ByteLen(n) - 1 : n >= Power[i]
  BY <1>4 DEF ByteLen
<1>6. ByteLen(n) \in Nat \ {0}
  BY <1>1, <1>2, <1>5
<1> DEFINE L == ByteLen(n)
<1> HIDE DEF L
<1>7. \A i \in 1 .. L : L \in Nat => (n \div Power[L - i]) % Base \in Nat
  <2> SUFFICES ASSUME NEW i \in 1 .. L, L \in Nat PROVE (n \div Power[L - i]) % Base \in Nat
    OBVIOUS
  <2>1. L - i \in Nat /\ Power[L - i] \in Nat \ {0}
    BY <1>1
  <2> DEFINE p == Power[L - i]
  <2> HIDE DEF p
  <2>2. p \in Nat \ {0} => n \div p \in Nat
    BY <1>2
  <2> DEFINE q == n \div p
  <2> HIDE DEF q
  <2>3. q \in Nat => q % Base \in Nat
    BY <1>1
  <2> QED
    BY <2>1, <2>2, <2>3 DEF p, q
<1>8. Bytes(n) = [i \in 1 .. L |-> (n \div Power[L - i]) % Base]
  BY DEF Bytes, L
<1>9. Bytes(n) \in Seq(Nat) /\ Len(Bytes(n)) = L
  BY <1>6, <1>7, <1>8 DEF L
<1> QED
  BY <1>2, <1>5, <1>6, <1>8, <1>9 DEF L

(* The first m bytes of a number, read back, are the number without its    *)
(* other digits.                                                           *)
LEMMA PrefixValue ==
  ASSUME NEW n \in Number, NEW m \in 0 .. ByteLen(n), NEW g, g[0] = 0,
         \A k \in 1 .. m : g[k] = Base * g[k - 1] + Bytes(n)[k]
  PROVE  g[m] = n \div Power[ByteLen(n) - m]
<1> DEFINE L == ByteLen(n)
           Good == {k \in 0 .. m : g[k] = n \div Power[L - k]}
<1>1. /\ n \in Nat \ {0} /\ L \in Nat \ {0} /\ n < Power[L]
      /\ \A i \in 1 .. L : Bytes(n)[i] = (n \div Power[L - i]) % Base
  BY ByteLenFacts
<1>2. m \in 0 .. L
  OBVIOUS
<1> HIDE DEF L
<1>3. 0 \in Good
  <2>1. Power[L] \in Nat \ {0}
    BY <1>1, PowerStep
  <2> DEFINE p == Power[L]
  <2> HIDE DEF p
  <2>2. p \in Nat \ {0} /\ n < p => n \div p = 0
    BY <1>1
  <2> QED
    BY <1>1, <1>2, <2>1, <2>2 DEF p
<1>4. ASSUME NEW k \in 1 .. m, k - 1 \in Good PROVE k \in Good
  <2>1. k \in 1 .. L /\ L - k \in Nat /\ (L - k) + 1 = L - (k - 1)
    BY <1>1, <1>2
  <2>2. g[k] = Base * (n \div Power[L - (k - 1)]) + Bytes(n)[k]
    BY <1>4
  <2>3. Bytes(n)[k] = (n \div Power[L - k]) % Base
    BY <1>1, <2>1
  <2>4. n \div Power[L - k] = Base * (n \div Power[(L - k) + 1]) + ((n \div Power[L - k]) % Base)
    BY <1>1, <2>1, Digit
  <2>5. g[k] = n \div Power[L - k]
    BY <2>1, <2>2, <2>3, <2>4
  <2> QED
    BY <2>5
<1>5. 0 .. m \subseteq Good
  <2> HIDE DEF Good
  <2> QED
    BY <1>1, <1>2, <1>3, <1>4, Rounds
<1> QED
  BY <1>1, <1>2, <1>5 DEF L

(* Read back whole, a number is itself; without some of its last bytes it  *)
(* is less, and with a byte more, whatever follows, greater.               *)
LEMMA WholeNumber ==
  ASSUME NEW n \in Number, NEW bytes \in Seq(Nat), Len(bytes) = ByteLen(n),
         \A k \in 1 .. Len(bytes) : bytes[k] = Bytes(n)[k]
  PROVE  FromBytes(bytes) = n
<1>1. PICK g : Reads(g, bytes) /\ FromBytes(bytes) = g[Len(bytes)]
  BY FromBytesSteps
<1>2. n \in Nat /\ ByteLen(n) \in Nat /\ Power[0] = 1
  BY ByteLenFacts, PowerStep
<1>3. g[ByteLen(n)] = n \div Power[ByteLen(n) - ByteLen(n)]
  <2>1. ByteLen(n) \in 0 .. ByteLen(n) /\ g[0] = 0
        /\ \A k \in 1 .. ByteLen(n) : g[k] = Base * g[k - 1] + Bytes(n)[k]
    BY <1>1, <1>2 DEF Reads
  <2> QED
    BY <2>1, PrefixValue
<1> QED
  BY <1>1, <1>2, <1>3

LEMMA CutNumber ==
  ASSUME NEW n \in Number, NEW bytes \in Seq(Nat), Len(bytes) < ByteLen(n),
         \A k \in 1 .. Len(bytes) : bytes[k] = Bytes(n)[k]
  PROVE  FromBytes(bytes) # n
<1> DEFINE m == Len(bytes)
           e == ByteLen(n) - m
<1>1. PICK g : Reads(g, bytes) /\ FromBytes(bytes) = g[m]
  BY FromBytesSteps
<1>2. n \in Nat \ {0} /\ ByteLen(n) \in Nat /\ m \in 0 .. ByteLen(n) /\ e \in Nat \ {0}
  BY ByteLenFacts
<1>3. g[m] = n \div Power[e]
  <2>1. g[0] = 0 /\ \A k \in 1 .. m : g[k] = Base * g[k - 1] + Bytes(n)[k]
    BY <1>1 DEF Reads
  <2> QED
    BY <1>2, <2>1, PrefixValue
<1> HIDE DEF e
<1>4. Base \in Nat \ {0, 1} /\ e - 1 \in Nat /\ (e - 1) + 1 = e
  BY <1>2, WidthAssumption
<1>5. Power[e] = Base * Power[e - 1] /\ Power[e - 1] \in Nat \ {0}
  BY <1>4, PowerStep
<1>6. Power[e] \in Nat /\ Power[e] >= 2
  <2> DEFINE p == Power[e - 1]
  <2> HIDE DEF p
  <2>1. p \in Nat \ {0} => Base * p \in Nat /\ Base * p >= 2 * p /\ 2 * p >= 2
    BY <1>4
  <2>2. p \in Nat \ {0} => Base * p \in Nat /\ 2 * p \in Nat
    BY <1>4
  <2> QED
    BY <1>5, <2>1, <2>2 DEF p
<1>7. n \div Power[e] < n
  <2> DEFINE p == Power[e]
             q == n \div p
  <2>1. p \in Nat \ {0} /\ p >= 2 /\ n \in Nat \ {0}
    BY <1>2, <1>6
  <2> HIDE DEF p
  <2>a. q \in Nat /\ n % p \in Nat /\ n = q * p + (n % p)
    BY <2>1, SMTT(30)
  <2>2. q \in Nat /\ p * q \in Nat /\ p * q <= n
    <3>1. p * q = q * p /\ p * q \in Nat
      BY <2>1, <2>a
    <3> DEFINE r == n % p
               w == p * q
    <3>2. n = w + r /\ r \in Nat /\ w \in Nat
      BY <2>a, <3>1
    <3> HIDE DEF r, w
    <3>3. w <= n
      BY <3>2
    <3> QED
      BY <2>a, <3>1, <3>3 DEF w
  <2> HIDE DEF q
  <2>3. p * q >= 2 * q
    BY <2>1, <2>2
  <2>4. q < n
    BY <2>1, <2>2, <2>3
  <2> QED
    BY <2>4 DEF p, q
<1> QED
  BY <1>1, <1>2, <1>3, <1>7

LEMMA ExtendedNumber ==
  ASSUME NEW n \in Number, NEW bytes \in Seq(Nat), Len(bytes) > ByteLen(n),
         \A k \in 1 .. ByteLen(n) : bytes[k] = Bytes(n)[k]
  PROVE  FromBytes(bytes) # n
<1> DEFINE m == Len(bytes)
           L == ByteLen(n)
<1>1. PICK g : Reads(g, bytes) /\ FromBytes(bytes) = g[m]
  BY FromBytesSteps
<1>2. n \in Nat \ {0} /\ L \in Nat /\ m \in Nat /\ m > L /\ Base \in Nat /\ Base >= 2 /\ Power[0] = 1
  BY ByteLenFacts, WidthAssumption, PowerStep
<1>3. g[L] = n
  <2>1. L \in 0 .. ByteLen(n) /\ g[0] = 0
        /\ \A k \in 1 .. L : g[k] = Base * g[k - 1] + Bytes(n)[k]
    BY <1>1, <1>2 DEF Reads
  <2>2. g[L] = n \div Power[ByteLen(n) - L]
    <3> HIDE DEF L
    <3> QED
      BY <2>1, PrefixValue
  <2> QED
    BY <1>2, <2>2
<1>4. \A k \in 1 .. m : k - 1 \in 0 .. m /\ g[k - 1] \in Nat /\ bytes[k] \in Nat
                        /\ g[k] = Base * g[k - 1] + bytes[k]
  <2>1. /\ g \in [0 .. m -> Nat] /\ \A k \in 1 .. m : bytes[k] \in Nat
        /\ \A k \in 1 .. m : g[k] = Base * g[k - 1] + bytes[k]
    BY <1>1 DEF Reads
  <2> HIDE DEF m, L
  <2>2. \A k \in 1 .. m : k - 1 \in 0 .. m
    BY <1>2
  <2> QED
    BY <2>1, <2>2
<1> HIDE DEF L, m
<1>5. ASSUME NEW k \in 1 .. m, g[k - 1] >= n PROVE g[k] > n
  <2> DEFINE x == g[k - 1]
             b == bytes[k]
  <2>1. x \in Nat /\ b \in Nat /\ x >= n /\ g[k] = Base * x + b
    BY <1>4, <1>5
  <2> HIDE DEF x, b
  <2>2. Base * x >= 2 * x
    BY <1>2, <2>1
  <2>3. Base * x \in Nat
    BY <1>2, <2>1
  <2> QED
    BY <1>2, <2>1, <2>2, <2>3
<1>6. \A k \in 0 .. m : k > L => g[k] > n
  <2> DEFINE T == {k \in 0 .. m : k > L => g[k] > n}
  <2>1. 0 \in T
    BY <1>2
  <2>2. ASSUME NEW k \in 1 .. m, k - 1 \in T PROVE k \in T
    <3>1. k > L => g[k - 1] >= n
      <4>1. k > L => k - 1 = L \/ k - 1 > L
        BY <1>2
      <4>2. k - 1 > L => g[k - 1] > n
        BY <2>2
      <4>3. g[k - 1] \in Nat
        BY <1>4
      <4> QED
        BY <1>2, <1>3, <4>1, <4>2, <4>3
    <3> QED
      BY <1>2, <1>5, <3>1
  <2>3. 0 .. m \subseteq T
    <3> HIDE DEF T
    <3> QED
      BY <1>2, <2>1, <2>2, Rounds
  <2> QED
    BY <2>3
<1>7. g[m] > n
  BY <1>2, <1>6
<1> QED
  BY <1>1, <1>2, <1>7

(* A pair is recovered just when the halves are cut where it was joined. *)
LEMMA RecoveredWhenEven ==
  ASSUME NEW pair \in Number \X Number
  PROVE  Recovered(pair) <=> ByteLen(pair[2]) - ByteLen(pair[1]) \in {0, 1}
<1> DEFINE a == pair[1]
           b == pair[2]
           la == ByteLen(a)
           lb == ByteLen(b)
           J == Bytes(a) \o Bytes(b)
           H == Len(J) \div 2
           First == SubSeq(J, 1, H)
           Second == SubSeq(J, H + 1, Len(J))
<1>1. a \in Number /\ b \in Number /\ pair = <<a, b>>
  OBVIOUS
<1> HIDE DEF a, b
<1>2. /\ la \in Nat \ {0} /\ Bytes(a) \in Seq(Nat) /\ Len(Bytes(a)) = la
      /\ lb \in Nat \ {0} /\ Bytes(b) \in Seq(Nat) /\ Len(Bytes(b)) = lb
  BY <1>1, ByteLenFacts
<1> HIDE DEF la, lb
<1>3. /\ J \in Seq(Nat) /\ Len(J) = la + lb
      /\ \A k \in 1 .. la : J[k] = Bytes(a)[k]
      /\ \A k \in 1 .. lb : J[la + k] = Bytes(b)[k]
  <2>1. \A s, t \in Seq(Nat) :
            /\ s \o t \in Seq(Nat) /\ Len(s \o t) = Len(s) + Len(t)
            /\ \A k \in 1 .. Len(s) : (s \o t)[k] = s[k]
            /\ \A k \in 1 .. Len(t) : (s \o t)[Len(s) + k] = t[k]
    OBVIOUS
  <2> QED
    BY <1>2, <2>1
<1>4. Recovered(pair) <=> FromBytes(First) = a /\ FromBytes(Second) = b
  BY <1>1 DEF Recovered, Halves, Joined, a, b
<1> HIDE DEF J
<1>5. H \in Nat /\ H <= la + lb /\ (H = la <=> lb - la \in {0, 1}) /\ H <= Len(J)
  BY <1>2, <1>3
<1> HIDE DEF H
<1>6. /\ First \in Seq(Nat) /\ Len(First) = H
      /\ \A k \in 1 .. H : First[k] = J[k]
  BY <1>3, <1>5
<1>7. /\ Second \in Seq(Nat) /\ Len(Second) = Len(J) - H
      /\ \A k \in 1 .. Len(J) - H : Second[k] = J[H + k]
  <2>1. Len(J) \in Nat /\ H + 1 \in 1 .. Len(J) + 1
    BY <1>2, <1>3, <1>5
  <2>2. /\ Second \in Seq(Nat) /\ Len(Second) = Len(J) - H
        /\ \A k \in 1 .. Len(J) - H : Second[k] = J[((H + 1) + k) - 1]
    <3> DEFINE i == H + 1
               N == Len(J)
    <3>1. i \in Int /\ N \in Int /\ (IF i <= N THEN N - i + 1 ELSE 0) = N - H /\ N - i + 1 = N - H
      BY <1>5, <2>1
    <3>2. \A k \in i .. N : J[k] \in Nat
      BY <1>3, <1>5
    <3> HIDE DEF i, N
    <3>3. /\ SubSeq(J, i, N) \in Seq(Nat)
          /\ Len(SubSeq(J, i, N)) = N - H
          /\ \A k \in 1 .. N - H : SubSeq(J, i, N)[k] = J[i + k - 1]
      BY <3>1, <3>2, SubSeqProperties
    <3> QED
      BY <3>3 DEF i, N, Second
  <2>3. \A k \in 1 .. Len(J) - H : ((H + 1) + k) - 1 = H + k
    BY <1>5, <2>1
  <2> QED
    BY <2>2, <2>3
<1> HIDE DEF First, Second
<1>8. CASE H = la
  <2>1. FromBytes(First) = a
    BY <1>1, <1>2, <1>3, <1>6, <1>8, WholeNumber DEF la
  <2>2. FromBytes(Second) = b
    <3>1. Len(Second) = lb /\ \A k \in 1 .. lb : Second[k] = Bytes(b)[k]
      BY <1>2, <1>3, <1>7, <1>8
    <3> QED
      BY <1>1, <1>7, <3>1, WholeNumber DEF lb
  <2> QED
    BY <1>4, <1>5, <1>8, <2>1, <2>2 DEF la, lb, a, b
<1>9. CASE H < la
  <2>1. \A k \in 1 .. Len(First) : First[k] = Bytes(a)[k]
    BY <1>2, <1>3, <1>5, <1>6, <1>9
  <2>2. FromBytes(First) # a
    BY <1>1, <1>6, <1>9, <2>1, CutNumber DEF la
  <2>3. H # la
    BY <1>2, <1>5, <1>9
  <2> QED
    BY <1>4, <1>5, <2>2, <2>3 DEF la, lb, a, b
<1>10. CASE H > la
  <2>1. \A k \in 1 .. la : First[k] = Bytes(a)[k]
    BY <1>2, <1>3, <1>5, <1>6, <1>10
  <2>2. FromBytes(First) # a
    BY <1>1, <1>6, <1>10, <2>1, ExtendedNumber DEF la
  <2>3. H # la
    BY <1>2, <1>5, <1>10
  <2> QED
    BY <1>4, <1>5, <2>2, <2>3 DEF la, lb, a, b
<1> QED
  BY <1>2, <1>5, <1>8, <1>9, <1>10

(* Of every payment: it is accepted just when of signature and public key  *)
(* both second numbers are as long as the first, or one byte longer.       *)
THEOREM AcceptedWhenEvenAlways == Spec => []AcceptedWhenEven
<1>1. Init => AcceptedWhenEven
  BY DEF Init, AcceptedWhenEven
<1>2. AcceptedWhenEven /\ [Next]_vars => AcceptedWhenEven'
  <2> SUFFICES ASSUME AcceptedWhenEven, [Next]_vars PROVE AcceptedWhenEven'
    OBVIOUS
  <2>1. ASSUME NEW p \in Process, NEW k \in Key, NEW sig \in Pairs, Send(p, k, sig)
        PROVE  AcceptedWhenEven'
    <3>1. sig \in Number \X Number /\ Point[k] \in Number \X Number
      BY KeyAssumption DEF Number
    <3>2. /\ Recovered(sig) <=> ByteLen(sig[2]) - ByteLen(sig[1]) \in {0, 1}
          /\ Recovered(Point[k]) <=> ByteLen(Point[k][2]) - ByteLen(Point[k][1]) \in {0, 1}
      BY <3>1, RecoveredWhenEven
    <3>3. verdicts' = {[key |-> k, sig |-> sig,
                        accepted |-> Recovered(sig) /\ Recovered(Point[k])]}
      BY <2>1 DEF Send
    <3> SUFFICES ASSUME NEW v \in verdicts'
                 PROVE  v.accepted <=> \A pair \in {v.sig, Point[v.key]} :
                                           ByteLen(pair[2]) - ByteLen(pair[1]) \in {0, 1}
      BY DEF AcceptedWhenEven
    <3>4. v.key = k /\ v.sig = sig /\ v.accepted = (Recovered(sig) /\ Recovered(Point[k]))
      BY <3>3
    <3>5. v.accepted <=> Recovered(sig) /\ Recovered(Point[k])
      BY <3>4, Zenon
    <3> DEFINE Even(pair) == ByteLen(pair[2]) - ByteLen(pair[1]) \in {0, 1}
    <3>6. (Recovered(sig) <=> Even(sig)) /\ (Recovered(Point[k]) <=> Even(Point[k]))
      BY <3>2
    <3> HIDE DEF Even
    <3>7. v.accepted <=> \A pair \in {v.sig, Point[v.key]} : Even(pair)
      BY <3>4, <3>5, <3>6, Zenon
    <3> QED
      BY <3>7 DEF Even
  <2>2. CASE UNCHANGED verdicts
    BY <2>2 DEF AcceptedWhenEven
  <2> QED
    BY <2>1, <2>2 DEF Next, Create, Truncate, Write, Kill, vars
<1> QED
  BY <1>1, <1>2, PTL DEF Spec

=============================================================================
