-------------------------- MODULE CliLedgerProofs ---------------------------
(***************************************************************************)
(* Proofs about the ledger of the command line, for any owners, amounts    *)
(* and lengths of the chain.                                               *)
(***************************************************************************)
EXTENDS CliLedger, Lemmas, SequenceTheorems

-----------------------------------------------------------------------------
(* Types. *)
Output == [value : Nat \ {0}, owner : Owner]

Input == [id : TxId \cup {NoTx}, out : Nat, key : Owner]

Transaction == [id : TxId, ins : Seq(Input), outs : Seq(Output)]

Index == [TxId -> Seq(Output)]

Scan == [utxo : Index, spent : SUBSET ((TxId \cup {NoTx}) \X Nat)]

Upd == [index : Index, absent : SUBSET TxId]

Picks == [value : Nat, outs : [TxId -> Seq(Nat)]]

LEMMA EmptyIndex == NoOutputs \in Index /\ NoOutputs \in [TxId -> Seq(Nat)]
  BY DEF NoOutputs, Index

-----------------------------------------------------------------------------
(* The loops, step by step: each is the last of a series of values, one    *)
(* for every round.                                                        *)
Keeping(g, list, P) ==
    \A k \in 1 .. Len(list) : g[k] = IF k \in P THEN Append(g[k - 1], list[k]) ELSE g[k - 1]

LEMMA KeepAtSteps ==
  ASSUME NEW X, NEW list \in Seq(X), NEW P
  PROVE  \E g \in [0 .. Len(list) -> Seq(X)] :
            g[0] = << >> /\ KeepAt(list, P) = g[Len(list)] /\ Keeping(g, list, P)
<1> DEFINE N == Len(list)
           S == Seq(X)
           base == << >>
           Step(x, k) == IF k \in P THEN Append(x, list[k]) ELSE x
           Value(g, k) == IF k = 0 THEN base ELSE Step(g[k - 1], k)
           Chosen == CHOOSE g : g = [k \in 0 .. N |-> Value(g, k)]
           F == [k \in 1 .. N |-> [x \in S |-> Step(x, k)]]
<1>1. N \in Nat /\ base \in S /\ \A x \in S, k \in 1 .. N : Step(x, k) \in S
  OBVIOUS
<1>2. PICK g : Follows(g, F, base, N, S)
  <2>1. Stepping(F, N, S)
    <3> HIDE DEF Step, S, N
    <3> QED
      BY <1>1 DEF Stepping
  <2> HIDE DEF F, S, N, base
  <2> QED
    BY <1>1, <2>1, Steps
<1>3. g \in [0 .. N -> S] /\ g[0] = base /\ \A k \in 1 .. N : g[k] = Step(g[k - 1], k)
  <2>1. g \in [0 .. N -> S] /\ g[0] = base /\ \A k \in 1 .. N : g[k] = F[k][g[k - 1]]
    <3> HIDE DEF F, S, N, base
    <3> QED
      BY <1>2 DEF Follows
  <2>2. \A k \in 1 .. N : g[k - 1] \in S
    <3>1. \A k \in 1 .. N : k - 1 \in 0 .. N
      BY <1>1
    <3> HIDE DEF S, N, base, F
    <3> QED
      BY <2>1, <3>1
  <2> HIDE DEF Step, S, N, base
  <2> QED
    BY <2>1, <2>2
<1> HIDE DEF S, F
<1>4. g = [k \in 0 .. N |-> Value(g, k)]
  <2>1. g = [k \in 0 .. N |-> g[k]]
    BY <1>3
  <2>2. ASSUME NEW k \in 0 .. N PROVE g[k] = Value(g, k)
    <3>1. k = 0 \/ k \in 1 .. N
      BY <1>1
    <3> HIDE DEF Step, base
    <3> QED
      BY <1>1, <1>3, <3>1
  <2> HIDE DEF Value
  <2> QED
    BY <2>1, <2>2
<1>5. Chosen = [k \in 0 .. N |-> Value(Chosen, k)]
  <2> HIDE DEF Value
  <2> QED
    BY <1>4
<1>6. KeepAt(list, P) = Chosen[N]
  BY DEF KeepAt
<1> HIDE DEF Chosen
<1>7. \A k \in 0 .. N : Chosen[k] = Value(Chosen, k)
  <2> HIDE DEF Value
  <2> QED
    BY <1>5
<1>8. Chosen[N] = g[N]
  <2>1. Chosen[0] = g[0] /\ \A k \in 1 .. N : Chosen[k - 1] = g[k - 1] => Chosen[k] = g[k]
    <3> HIDE DEF Step, base
    <3> QED
      BY <1>1, <1>3, <1>7
  <2> HIDE DEF N, Value, Step
  <2>2. \A k \in 0 .. N : Chosen[k] = g[k]
    BY <1>1, <2>1, SameSteps, ZenonT(40)
  <2> QED
    BY <1>1, <2>2
<1> QED
  BY <1>3, <1>6, <1>8 DEF S, Keeping

LEMMA KeepAtType ==
  ASSUME NEW X, NEW list \in Seq(X), NEW P
  PROVE  KeepAt(list, P) \in Seq(X)
<1>1. PICK g \in [0 .. Len(list) -> Seq(X)] : KeepAt(list, P) = g[Len(list)]
  BY KeepAtSteps
<1>2. Len(list) \in 0 .. Len(list)
  OBVIOUS
<1> QED
  BY <1>1, <1>2

LEMMA SpendsType ==
  ASSUME NEW tx \in Transaction
  PROVE  Spends(tx) \subseteq (TxId \cup {NoTx}) \X Nat
<1>1. \A in \in ToSet(tx.ins) : in \in Input
  BY DEF Transaction, ToSet
<1>2. \A in \in ToSet(tx.ins) : <<in.id, in.out>> \in (TxId \cup {NoTx}) \X Nat
  BY <1>1 DEF Input
<1> QED
  BY <1>2 DEF Spends

LEMMA ScanTxType ==
  ASSUME NEW scan \in Scan, NEW tx \in Transaction
  PROVE  ScanTx(scan, tx) \in Scan
<1> DEFINE kept == KeepAt(tx.outs, {p \in DOMAIN tx.outs : <<tx.id, p>> \notin scan.spent})
<1>1. scan.utxo \in Index /\ scan.spent \in SUBSET ((TxId \cup {NoTx}) \X Nat)
  BY DEF Scan
<1>2. tx.id \in TxId /\ kept \in Seq(Output)
  BY KeepAtType DEF Transaction
<1>3. scan.utxo[tx.id] \o kept \in Seq(Output)
  BY <1>1, <1>2 DEF Index
<1>4. [scan.utxo EXCEPT ![tx.id] = @ \o kept] \in Index
  <2> HIDE DEF kept
  <2> QED
    BY <1>1, <1>2, <1>3 DEF Index
<1>5. scan.spent \cup Spends(tx) \in SUBSET ((TxId \cup {NoTx}) \X Nat)
  BY <1>1, SpendsType
<1> QED
  BY <1>4, <1>5 DEF ScanTx, Scan

LEMMA RemoveInputType ==
  ASSUME NEW upd \in Upd, NEW in \in Input
  PROVE  RemoveInput(upd, in) \in Upd
<1>1. upd.index \in Index /\ upd.absent \subseteq TxId
  BY DEF Upd
<1>2. [upd.index EXCEPT ![in.id] = KeepAt(@, DOMAIN @ \ {in.out})] \in Index
  <2>1. CASE in.id \in TxId
    <3>1. upd.index[in.id] \in Seq(Output)
      BY <1>1, <2>1 DEF Index
    <3>2. KeepAt(upd.index[in.id], DOMAIN upd.index[in.id] \ {in.out}) \in Seq(Output)
      BY <3>1, KeepAtType
    <3> QED
      BY <1>1, <2>1, <3>2 DEF Index
  <2>2. CASE in.id \notin TxId
    BY <1>1, <2>2 DEF Index
  <2> QED
    BY <2>1, <2>2
<1> QED
  BY <1>1, <1>2 DEF RemoveInput, Upd

LEMMA PickType ==
  ASSUME NEW pick \in Picks, NEW id \in TxId, NEW p \in Nat, NEW out \in Output,
         NEW owner, NEW amount \in Nat
  PROVE  Pick(pick, id, p, out, owner, amount) \in Picks
<1>1. pick.value \in Nat /\ pick.outs \in [TxId -> Seq(Nat)] /\ out.value \in Nat
  BY DEF Picks, Output
<1>2. [pick.outs EXCEPT ![id] = Append(@, p)] \in [TxId -> Seq(Nat)]
  BY <1>1
<1> QED
  BY <1>1, <1>2 DEF Pick, Picks

(* The inputs of the picked positions of one id. *)
Listed(ins, list, id, owner) ==
    /\ Len(ins) = Len(list)
    /\ \A k \in 1 .. Len(list) : ins[k] = [id |-> id, out |-> list[k], key |-> owner]

LEMMA InputsFromType ==
  ASSUME NEW picked \in [TxId -> Seq(Nat)], NEW id \in TxId, NEW owner \in Owner
  PROVE  /\ InputsFrom(picked, id, owner) \in Seq(Input)
         /\ Listed(InputsFrom(picked, id, owner), picked[id], id, owner)
<1>1. picked[id] \in Seq(Nat)
  OBVIOUS
<1>2. /\ Len(picked[id]) \in Nat /\ DOMAIN picked[id] = 1 .. Len(picked[id])
      /\ \A k \in 1 .. Len(picked[id]) : picked[id][k] \in Nat
  BY <1>1
<1>3. \A k \in 1 .. Len(picked[id]) : [id |-> id, out |-> picked[id][k], key |-> owner] \in Input
  BY <1>2 DEF Input
<1>4. InputsFrom(picked, id, owner) =
         [k \in 1 .. Len(picked[id]) |-> [id |-> id, out |-> picked[id][k], key |-> owner]]
  BY <1>2 DEF InputsFrom
<1> QED
  BY <1>2, <1>3, <1>4 DEF Listed

LEMMA ScanBlockSteps ==
  ASSUME NEW scan \in Scan, NEW block \in Seq(Transaction)
  PROVE  \E g \in [0 .. Len(block) -> Scan] :
            /\ g[0] = scan /\ ScanBlock(scan, block) = g[Len(block)]
            /\ \A k \in 1 .. Len(block) : g[k] = ScanTx(g[k - 1], block[k])
<1> DEFINE N == Len(block)
           S == Scan
           base == scan
           Step(x, k) == ScanTx(x, block[k])
           Value(g, k) == IF k = 0 THEN base ELSE Step(g[k - 1], k)
           Chosen == CHOOSE g : g = [k \in 0 .. N |-> Value(g, k)]
           F == [k \in 1 .. N |-> [x \in S |-> Step(x, k)]]
<1>1. N \in Nat /\ base \in S /\ \A x \in S, k \in 1 .. N : Step(x, k) \in S
  <2>1. N \in Nat /\ \A k \in 1 .. N : block[k] \in Transaction
    OBVIOUS
  <2> QED
    BY <2>1, ScanTxType
<1>2. PICK g : Follows(g, F, base, N, S)
  <2>1. Stepping(F, N, S)
    <3> HIDE DEF Step, S, N
    <3> QED
      BY <1>1 DEF Stepping
  <2> HIDE DEF F, S, N, base
  <2> QED
    BY <1>1, <2>1, Steps
<1>3. g \in [0 .. N -> S] /\ g[0] = base /\ \A k \in 1 .. N : g[k] = Step(g[k - 1], k)
  <2>1. g \in [0 .. N -> S] /\ g[0] = base /\ \A k \in 1 .. N : g[k] = F[k][g[k - 1]]
    <3> HIDE DEF F, S, N, base
    <3> QED
      BY <1>2 DEF Follows
  <2>2. \A k \in 1 .. N : g[k - 1] \in S
    <3>1. \A k \in 1 .. N : k - 1 \in 0 .. N
      BY <1>1
    <3> HIDE DEF S, N, base, F
    <3> QED
      BY <2>1, <3>1
  <2> HIDE DEF Step, S, N, base
  <2> QED
    BY <2>1, <2>2
<1> HIDE DEF S, F
<1>4. g = [k \in 0 .. N |-> Value(g, k)]
  <2>1. g = [k \in 0 .. N |-> g[k]]
    BY <1>3
  <2>2. ASSUME NEW k \in 0 .. N PROVE g[k] = Value(g, k)
    <3>1. k = 0 \/ k \in 1 .. N
      BY <1>1
    <3> HIDE DEF Step, base
    <3> QED
      BY <1>1, <1>3, <3>1
  <2> HIDE DEF Value
  <2> QED
    BY <2>1, <2>2
<1>5. Chosen = [k \in 0 .. N |-> Value(Chosen, k)]
  <2> HIDE DEF Value
  <2> QED
    BY <1>4
<1>6. ScanBlock(scan, block) = Chosen[N]
  BY DEF ScanBlock
<1> HIDE DEF Chosen
<1>7. \A k \in 0 .. N : Chosen[k] = Value(Chosen, k)
  <2> HIDE DEF Value
  <2> QED
    BY <1>5
<1>8. Chosen[N] = g[N]
  <2>1. Chosen[0] = g[0] /\ \A k \in 1 .. N : Chosen[k - 1] = g[k - 1] => Chosen[k] = g[k]
    <3> HIDE DEF Step, base
    <3> QED
      BY <1>1, <1>3, <1>7
  <2> HIDE DEF N, Value, Step
  <2>2. \A k \in 0 .. N : Chosen[k] = g[k]
    BY <1>1, <2>1, SameSteps, ZenonT(40)
  <2> QED
    BY <1>1, <2>2
<1> QED
  BY <1>3, <1>6, <1>8 DEF S

LEMMA FindUTXOSteps ==
  ASSUME NEW blocks \in Seq(Seq(Transaction))
  PROVE  \E g \in [0 .. Len(blocks) -> Scan] :
            /\ g[0] = NotScanned /\ FindUTXO(blocks) = g[Len(blocks)].utxo
            /\ \A k \in 1 .. Len(blocks) : g[k] = ScanBlock(g[k - 1], blocks[Len(blocks) - k + 1])
<1> DEFINE N == Len(blocks)
           S == Scan
           base == NotScanned
           Step(x, k) == ScanBlock(x, blocks[Len(blocks) - k + 1])
           Value(g, k) == IF k = 0 THEN base ELSE Step(g[k - 1], k)
           Chosen == CHOOSE g : g = [k \in 0 .. N |-> Value(g, k)]
           F == [k \in 1 .. N |-> [x \in S |-> Step(x, k)]]
<1>1. N \in Nat /\ base \in S /\ \A x \in S, k \in 1 .. N : Step(x, k) \in S
  <2>1. N \in Nat /\ \A k \in 1 .. N : blocks[N - k + 1] \in Seq(Transaction)
    <3>1. \A k \in 1 .. N : N - k + 1 \in 1 .. N
      OBVIOUS
    <3> QED
      BY <3>1
  <2>2. ASSUME NEW x \in S, NEW k \in 1 .. N PROVE Step(x, k) \in S
    <3>1. PICK block \in Seq(Transaction) : block = blocks[N - k + 1]
      BY <2>1
    <3>2. PICK g \in [0 .. Len(block) -> Scan] : ScanBlock(x, block) = g[Len(block)]
      BY ScanBlockSteps
    <3>3. Len(block) \in 0 .. Len(block)
      OBVIOUS
    <3> QED
      BY <3>1, <3>2, <3>3
  <2>3. base \in S
    BY EmptyIndex DEF NotScanned, Scan
  <2> QED
    BY <2>1, <2>2, <2>3
<1>2. PICK g : Follows(g, F, base, N, S)
  <2>1. Stepping(F, N, S)
    <3> HIDE DEF Step, S, N
    <3> QED
      BY <1>1 DEF Stepping
  <2> HIDE DEF F, S, N, base
  <2> QED
    BY <1>1, <2>1, Steps
<1>3. g \in [0 .. N -> S] /\ g[0] = base /\ \A k \in 1 .. N : g[k] = Step(g[k - 1], k)
  <2>1. g \in [0 .. N -> S] /\ g[0] = base /\ \A k \in 1 .. N : g[k] = F[k][g[k - 1]]
    <3> HIDE DEF F, S, N, base
    <3> QED
      BY <1>2 DEF Follows
  <2>2. \A k \in 1 .. N : g[k - 1] \in S
    <3>1. \A k \in 1 .. N : k - 1 \in 0 .. N
      BY <1>1
    <3> HIDE DEF S, N, base, F
    <3> QED
      BY <2>1, <3>1
  <2> HIDE DEF Step, S, N, base
  <2> QED
    BY <2>1, <2>2
<1> HIDE DEF S, F
<1>4. g = [k \in 0 .. N |-> Value(g, k)]
  <2>1. g = [k \in 0 .. N |-> g[k]]
    BY <1>3
  <2>2. ASSUME NEW k \in 0 .. N PROVE g[k] = Value(g, k)
    <3>1. k = 0 \/ k \in 1 .. N
      BY <1>1
    <3> HIDE DEF Step, base
    <3> QED
      BY <1>1, <1>3, <3>1
  <2> HIDE DEF Value
  <2> QED
    BY <2>1, <2>2
<1>5. Chosen = [k \in 0 .. N |-> Value(Chosen, k)]
  <2> HIDE DEF Value
  <2> QED
    BY <1>4
<1>6. FindUTXO(blocks) = Chosen[N].utxo
  BY DEF FindUTXO
<1> HIDE DEF Chosen
<1>7. \A k \in 0 .. N : Chosen[k] = Value(Chosen, k)
  <2> HIDE DEF Value
  <2> QED
    BY <1>5
<1>8. Chosen[N] = g[N]
  <2>1. Chosen[0] = g[0] /\ \A k \in 1 .. N : Chosen[k - 1] = g[k - 1] => Chosen[k] = g[k]
    <3> HIDE DEF Step, base
    <3> QED
      BY <1>1, <1>3, <1>7
  <2> HIDE DEF N, Value, Step
  <2>2. \A k \in 0 .. N : Chosen[k] = g[k]
    BY <1>1, <2>1, SameSteps, ZenonT(40)
  <2> QED
    BY <1>1, <2>2
<1> QED
  BY <1>3, <1>6, <1>8 DEF S

LEMMA RemoveSteps ==
  ASSUME NEW upd \in Upd, NEW ins \in Seq(Input)
  PROVE  \E g \in [0 .. Len(ins) -> Upd] :
            /\ g[0] = upd /\ RemoveInputs(upd, ins) = g[Len(ins)]
            /\ \A k \in 1 .. Len(ins) : g[k] = RemoveInput(g[k - 1], ins[k])
<1> DEFINE N == Len(ins)
           S == Upd
           base == upd
           Step(x, k) == RemoveInput(x, ins[k])
           Value(g, k) == IF k = 0 THEN base ELSE Step(g[k - 1], k)
           Chosen == CHOOSE g : g = [k \in 0 .. N |-> Value(g, k)]
           F == [k \in 1 .. N |-> [x \in S |-> Step(x, k)]]
<1>1. N \in Nat /\ base \in S /\ \A x \in S, k \in 1 .. N : Step(x, k) \in S
  <2>1. N \in Nat /\ \A k \in 1 .. N : ins[k] \in Input
    OBVIOUS
  <2> QED
    BY <2>1, RemoveInputType
<1>2. PICK g : Follows(g, F, base, N, S)
  <2>1. Stepping(F, N, S)
    <3> HIDE DEF Step, S, N
    <3> QED
      BY <1>1 DEF Stepping
  <2> HIDE DEF F, S, N, base
  <2> QED
    BY <1>1, <2>1, Steps
<1>3. g \in [0 .. N -> S] /\ g[0] = base /\ \A k \in 1 .. N : g[k] = Step(g[k - 1], k)
  <2>1. g \in [0 .. N -> S] /\ g[0] = base /\ \A k \in 1 .. N : g[k] = F[k][g[k - 1]]
    <3> HIDE DEF F, S, N, base
    <3> QED
      BY <1>2 DEF Follows
  <2>2. \A k \in 1 .. N : g[k - 1] \in S
    <3>1. \A k \in 1 .. N : k - 1 \in 0 .. N
      BY <1>1
    <3> HIDE DEF S, N, base, F
    <3> QED
      BY <2>1, <3>1
  <2> HIDE DEF Step, S, N, base
  <2> QED
    BY <2>1, <2>2
<1> HIDE DEF S, F
<1>4. g = [k \in 0 .. N |-> Value(g, k)]
  <2>1. g = [k \in 0 .. N |-> g[k]]
    BY <1>3
  <2>2. ASSUME NEW k \in 0 .. N PROVE g[k] = Value(g, k)
    <3>1. k = 0 \/ k \in 1 .. N
      BY <1>1
    <3> HIDE DEF Step, base
    <3> QED
      BY <1>1, <1>3, <3>1
  <2> HIDE DEF Value
  <2> QED
    BY <2>1, <2>2
<1>5. Chosen = [k \in 0 .. N |-> Value(Chosen, k)]
  <2> HIDE DEF Value
  <2> QED
    BY <1>4
<1>6. RemoveInputs(upd, ins) = Chosen[N]
  BY DEF RemoveInputs
<1> HIDE DEF Chosen
<1>7. \A k \in 0 .. N : Chosen[k] = Value(Chosen, k)
  <2> HIDE DEF Value
  <2> QED
    BY <1>5
<1>8. Chosen[N] = g[N]
  <2>1. Chosen[0] = g[0] /\ \A k \in 1 .. N : Chosen[k - 1] = g[k - 1] => Chosen[k] = g[k]
    <3> HIDE DEF Step, base
    <3> QED
      BY <1>1, <1>3, <1>7
  <2> HIDE DEF N, Value, Step
  <2>2. \A k \in 0 .. N : Chosen[k] = g[k]
    BY <1>1, <2>1, SameSteps, ZenonT(40)
  <2> QED
    BY <1>1, <2>2
<1> QED
  BY <1>3, <1>6, <1>8 DEF S

LEMMA RemovedType ==
  ASSUME NEW upd \in Upd, NEW tx \in Transaction
  PROVE  Removed(upd, tx) \in Upd
<1>1. CASE IsCoinBase(tx)
  BY <1>1 DEF Removed
<1>2. CASE ~IsCoinBase(tx)
  <2>1. tx.ins \in Seq(Input) /\ Removed(upd, tx) = RemoveInputs(upd, tx.ins)
    BY <1>2 DEF Transaction, Removed
  <2>2. PICK g \in [0 .. Len(tx.ins) -> Upd] : RemoveInputs(upd, tx.ins) = g[Len(tx.ins)]
    BY <2>1, RemoveSteps
  <2>3. Len(tx.ins) \in 0 .. Len(tx.ins)
    BY <2>1
  <2> QED
    BY <2>1, <2>2, <2>3
<1> QED
  BY <1>1, <1>2

LEMMA ApplyTxType ==
  ASSUME NEW upd \in Upd, NEW tx \in Transaction
  PROVE  ApplyTx(upd, tx) \in Upd
<1>1. Removed(upd, tx) \in Upd /\ tx.id \in TxId /\ tx.outs \in Seq(Output)
  BY RemovedType DEF Transaction
<1> QED
  BY <1>1 DEF ApplyTx, Upd, Index

LEMMA UpdateSteps ==
  ASSUME NEW entries \in Index, NEW block \in Seq(Transaction)
  PROVE  \E g \in [0 .. Len(block) -> Upd] :
            /\ g[0] = [index |-> entries, absent |-> {}] /\ Update(entries, block) = g[Len(block)]
            /\ \A k \in 1 .. Len(block) : g[k] = ApplyTx(g[k - 1], block[k])
<1> DEFINE N == Len(block)
           S == Upd
           base == [index |-> entries, absent |-> {}]
           Step(x, k) == ApplyTx(x, block[k])
           Value(g, k) == IF k = 0 THEN base ELSE Step(g[k - 1], k)
           Chosen == CHOOSE g : g = [k \in 0 .. N |-> Value(g, k)]
           F == [k \in 1 .. N |-> [x \in S |-> Step(x, k)]]
<1>1. N \in Nat /\ base \in S /\ \A x \in S, k \in 1 .. N : Step(x, k) \in S
  <2>1. N \in Nat /\ \A k \in 1 .. N : block[k] \in Transaction
    OBVIOUS
  <2>2. base \in S
    BY DEF Upd
  <2> QED
    BY <2>1, <2>2, ApplyTxType
<1>2. PICK g : Follows(g, F, base, N, S)
  <2>1. Stepping(F, N, S)
    <3> HIDE DEF Step, S, N
    <3> QED
      BY <1>1 DEF Stepping
  <2> HIDE DEF F, S, N, base
  <2> QED
    BY <1>1, <2>1, Steps
<1>3. g \in [0 .. N -> S] /\ g[0] = base /\ \A k \in 1 .. N : g[k] = Step(g[k - 1], k)
  <2>1. g \in [0 .. N -> S] /\ g[0] = base /\ \A k \in 1 .. N : g[k] = F[k][g[k - 1]]
    <3> HIDE DEF F, S, N, base
    <3> QED
      BY <1>2 DEF Follows
  <2>2. \A k \in 1 .. N : g[k - 1] \in S
    <3>1. \A k \in 1 .. N : k - 1 \in 0 .. N
      BY <1>1
    <3> HIDE DEF S, N, base, F
    <3> QED
      BY <2>1, <3>1
  <2> HIDE DEF Step, S, N, base
  <2> QED
    BY <2>1, <2>2
<1> HIDE DEF S, F
<1>4. g = [k \in 0 .. N |-> Value(g, k)]
  <2>1. g = [k \in 0 .. N |-> g[k]]
    BY <1>3
  <2>2. ASSUME NEW k \in 0 .. N PROVE g[k] = Value(g, k)
    <3>1. k = 0 \/ k \in 1 .. N
      BY <1>1
    <3> HIDE DEF Step, base
    <3> QED
      BY <1>1, <1>3, <3>1
  <2> HIDE DEF Value
  <2> QED
    BY <2>1, <2>2
<1>5. Chosen = [k \in 0 .. N |-> Value(Chosen, k)]
  <2> HIDE DEF Value
  <2> QED
    BY <1>4
<1>6. Update(entries, block) = Chosen[N]
  BY DEF Update
<1> HIDE DEF Chosen
<1>7. \A k \in 0 .. N : Chosen[k] = Value(Chosen, k)
  <2> HIDE DEF Value
  <2> QED
    BY <1>5
<1>8. Chosen[N] = g[N]
  <2>1. Chosen[0] = g[0] /\ \A k \in 1 .. N : Chosen[k - 1] = g[k - 1] => Chosen[k] = g[k]
    <3> HIDE DEF Step, base
    <3> QED
      BY <1>1, <1>3, <1>7
  <2> HIDE DEF N, Value, Step
  <2>2. \A k \in 0 .. N : Chosen[k] = g[k]
    BY <1>1, <2>1, SameSteps, ZenonT(40)
  <2> QED
    BY <1>1, <2>2
<1> QED
  BY <1>3, <1>6, <1>8 DEF S

Picking(g, id, outs, owner, amount) ==
    \A k \in 1 .. Len(outs) : g[k] = Pick(g[k - 1], id, k, outs[k], owner, amount)

LEMMA PickFromSteps ==
  ASSUME NEW pick \in Picks, NEW id \in TxId, NEW outs \in Seq(Output), NEW owner, NEW amount \in Nat
  PROVE  \E g \in [0 .. Len(outs) -> Picks] :
            /\ g[0] = pick /\ PickFrom(pick, id, outs, owner, amount) = g[Len(outs)]
            /\ Picking(g, id, outs, owner, amount)
<1> DEFINE N == Len(outs)
           S == Picks
           base == pick
           Step(x, k) == Pick(x, id, k, outs[k], owner, amount)
           Value(g, k) == IF k = 0 THEN base ELSE Step(g[k - 1], k)
           Chosen == CHOOSE g : g = [k \in 0 .. N |-> Value(g, k)]
           F == [k \in 1 .. N |-> [x \in S |-> Step(x, k)]]
<1>1. N \in Nat /\ base \in S /\ \A x \in S, k \in 1 .. N : Step(x, k) \in S
  <2>1. N \in Nat /\ \A k \in 1 .. N : outs[k] \in Output /\ k \in Nat
    OBVIOUS
  <2> QED
    BY <2>1, PickType
<1>2. PICK g : Follows(g, F, base, N, S)
  <2>1. Stepping(F, N, S)
    <3> HIDE DEF Step, S, N
    <3> QED
      BY <1>1 DEF Stepping
  <2> HIDE DEF F, S, N, base
  <2> QED
    BY <1>1, <2>1, Steps
<1>3. g \in [0 .. N -> S] /\ g[0] = base /\ \A k \in 1 .. N : g[k] = Step(g[k - 1], k)
  <2>1. g \in [0 .. N -> S] /\ g[0] = base /\ \A k \in 1 .. N : g[k] = F[k][g[k - 1]]
    <3> HIDE DEF F, S, N, base
    <3> QED
      BY <1>2 DEF Follows
  <2>2. \A k \in 1 .. N : g[k - 1] \in S
    <3>1. \A k \in 1 .. N : k - 1 \in 0 .. N
      BY <1>1
    <3> HIDE DEF S, N, base, F
    <3> QED
      BY <2>1, <3>1
  <2> HIDE DEF Step, S, N, base
  <2> QED
    BY <2>1, <2>2
<1> HIDE DEF S, F
<1>4. g = [k \in 0 .. N |-> Value(g, k)]
  <2>1. g = [k \in 0 .. N |-> g[k]]
    BY <1>3
  <2>2. ASSUME NEW k \in 0 .. N PROVE g[k] = Value(g, k)
    <3>1. k = 0 \/ k \in 1 .. N
      BY <1>1
    <3> HIDE DEF Step, base
    <3> QED
      BY <1>1, <1>3, <3>1
  <2> HIDE DEF Value
  <2> QED
    BY <2>1, <2>2
<1>5. Chosen = [k \in 0 .. N |-> Value(Chosen, k)]
  <2> HIDE DEF Value
  <2> QED
    BY <1>4
<1>6. PickFrom(pick, id, outs, owner, amount) = Chosen[N]
  BY DEF PickFrom
<1> HIDE DEF Chosen
<1>7. \A k \in 0 .. N : Chosen[k] = Value(Chosen, k)
  <2> HIDE DEF Value
  <2> QED
    BY <1>5
<1>8. Chosen[N] = g[N]
  <2>1. Chosen[0] = g[0] /\ \A k \in 1 .. N : Chosen[k - 1] = g[k - 1] => Chosen[k] = g[k]
    <3> HIDE DEF Step, base
    <3> QED
      BY <1>1, <1>3, <1>7
  <2> HIDE DEF N, Value, Step
  <2>2. \A k \in 0 .. N : Chosen[k] = g[k]
    BY <1>1, <2>1, SameSteps, ZenonT(40)
  <2> QED
    BY <1>1, <2>2
<1> QED
  BY <1>3, <1>6, <1>8 DEF S, Picking

LEMMA SpendableSteps ==
  ASSUME NEW entries \in Index, NEW keys \in Seq(TxId), NEW owner, NEW amount \in Nat
  PROVE  \E g \in [0 .. Len(keys) -> Picks] :
            /\ g[0] = [value |-> 0, outs |-> NoOutputs] /\ FindSpendableOutputs(entries, keys, owner, amount) = g[Len(keys)]
            /\ \A k \in 1 .. Len(keys) : g[k] = PickFrom(g[k - 1], keys[k], entries[keys[k]], owner, amount)
<1> DEFINE N == Len(keys)
           S == Picks
           base == [value |-> 0, outs |-> NoOutputs]
           Step(x, k) == PickFrom(x, keys[k], entries[keys[k]], owner, amount)
           Value(g, k) == IF k = 0 THEN base ELSE Step(g[k - 1], k)
           Chosen == CHOOSE g : g = [k \in 0 .. N |-> Value(g, k)]
           F == [k \in 1 .. N |-> [x \in S |-> Step(x, k)]]
<1>1. N \in Nat /\ base \in S /\ \A x \in S, k \in 1 .. N : Step(x, k) \in S
  <2>1. N \in Nat /\ \A k \in 1 .. N : keys[k] \in TxId /\ entries[keys[k]] \in Seq(Output)
    BY DEF Index
  <2>2. ASSUME NEW x \in S, NEW k \in 1 .. N PROVE Step(x, k) \in S
    <3>1. PICK outs \in Seq(Output), id \in TxId : outs = entries[keys[k]] /\ id = keys[k]
      BY <2>1
    <3>2. x \in Picks
      OBVIOUS
    <3>3. PICK g \in [0 .. Len(outs) -> Picks] : PickFrom(x, id, outs, owner, amount) = g[Len(outs)]
      BY <3>2, PickFromSteps
    <3>4. Len(outs) \in 0 .. Len(outs)
      OBVIOUS
    <3> QED
      BY <3>1, <3>3, <3>4
  <2>3. base \in S
    BY EmptyIndex DEF Picks
  <2> QED
    BY <2>1, <2>2, <2>3
<1>2. PICK g : Follows(g, F, base, N, S)
  <2>1. Stepping(F, N, S)
    <3> HIDE DEF Step, S, N
    <3> QED
      BY <1>1 DEF Stepping
  <2> HIDE DEF F, S, N, base
  <2> QED
    BY <1>1, <2>1, Steps
<1>3. g \in [0 .. N -> S] /\ g[0] = base /\ \A k \in 1 .. N : g[k] = Step(g[k - 1], k)
  <2>1. g \in [0 .. N -> S] /\ g[0] = base /\ \A k \in 1 .. N : g[k] = F[k][g[k - 1]]
    <3> HIDE DEF F, S, N, base
    <3> QED
      BY <1>2 DEF Follows
  <2>2. \A k \in 1 .. N : g[k - 1] \in S
    <3>1. \A k \in 1 .. N : k - 1 \in 0 .. N
      BY <1>1
    <3> HIDE DEF S, N, base, F
    <3> QED
      BY <2>1, <3>1
  <2> HIDE DEF Step, S, N, base
  <2> QED
    BY <2>1, <2>2
<1> HIDE DEF S, F
<1>4. g = [k \in 0 .. N |-> Value(g, k)]
  <2>1. g = [k \in 0 .. N |-> g[k]]
    BY <1>3
  <2>2. ASSUME NEW k \in 0 .. N PROVE g[k] = Value(g, k)
    <3>1. k = 0 \/ k \in 1 .. N
      BY <1>1
    <3> HIDE DEF Step, base
    <3> QED
      BY <1>1, <1>3, <3>1
  <2> HIDE DEF Value
  <2> QED
    BY <2>1, <2>2
<1>5. Chosen = [k \in 0 .. N |-> Value(Chosen, k)]
  <2> HIDE DEF Value
  <2> QED
    BY <1>4
<1>6. FindSpendableOutputs(entries, keys, owner, amount) = Chosen[N]
  BY DEF FindSpendableOutputs
<1> HIDE DEF Chosen
<1>7. \A k \in 0 .. N : Chosen[k] = Value(Chosen, k)
  <2> HIDE DEF Value
  <2> QED
    BY <1>5
<1>8. Chosen[N] = g[N]
  <2>1. Chosen[0] = g[0] /\ \A k \in 1 .. N : Chosen[k - 1] = g[k - 1] => Chosen[k] = g[k]
    <3> HIDE DEF Step, base
    <3> QED
      BY <1>1, <1>3, <1>7
  <2> HIDE DEF N, Value, Step
  <2>2. \A k \in 0 .. N : Chosen[k] = g[k]
    BY <1>1, <2>1, SameSteps, ZenonT(40)
  <2> QED
    BY <1>1, <2>2
<1> QED
  BY <1>3, <1>6, <1>8 DEF S

LEMMA InputsSteps ==
  ASSUME NEW picked \in [TxId -> Seq(Nat)], NEW order \in Seq(TxId), NEW owner \in Owner
  PROVE  \E g \in [0 .. Len(order) -> Seq(Input)] :
            /\ g[0] = << >> /\ InputsOf(picked, order, owner) = g[Len(order)]
            /\ \A k \in 1 .. Len(order) : g[k] = g[k - 1] \o InputsFrom(picked, order[k], owner)
<1> DEFINE N == Len(order)
           S == Seq(Input)
           base == << >>
           Step(x, k) == x \o InputsFrom(picked, order[k], owner)
           Value(g, k) == IF k = 0 THEN base ELSE Step(g[k - 1], k)
           Chosen == CHOOSE g : g = [k \in 0 .. N |-> Value(g, k)]
           F == [k \in 1 .. N |-> [x \in S |-> Step(x, k)]]
<1>1. N \in Nat /\ base \in S /\ \A x \in S, k \in 1 .. N : Step(x, k) \in S
  <2>1. N \in Nat /\ base \in S
    OBVIOUS
  <2>2. \A k \in 1 .. N : InputsFrom(picked, order[k], owner) \in Seq(Input)
    <3>1. \A k \in 1 .. N : order[k] \in TxId
      OBVIOUS
    <3> QED
      BY <3>1, InputsFromType
  <2> QED
    BY <2>1, <2>2
<1>2. PICK g : Follows(g, F, base, N, S)
  <2>1. Stepping(F, N, S)
    <3> HIDE DEF Step, S, N
    <3> QED
      BY <1>1 DEF Stepping
  <2> HIDE DEF F, S, N, base
  <2> QED
    BY <1>1, <2>1, Steps
<1>3. g \in [0 .. N -> S] /\ g[0] = base /\ \A k \in 1 .. N : g[k] = Step(g[k - 1], k)
  <2>1. g \in [0 .. N -> S] /\ g[0] = base /\ \A k \in 1 .. N : g[k] = F[k][g[k - 1]]
    <3> HIDE DEF F, S, N, base
    <3> QED
      BY <1>2 DEF Follows
  <2>2. \A k \in 1 .. N : g[k - 1] \in S
    <3>1. \A k \in 1 .. N : k - 1 \in 0 .. N
      BY <1>1
    <3> HIDE DEF S, N, base, F
    <3> QED
      BY <2>1, <3>1
  <2> HIDE DEF Step, S, N, base
  <2> QED
    BY <2>1, <2>2
<1> HIDE DEF S, F
<1>4. g = [k \in 0 .. N |-> Value(g, k)]
  <2>1. g = [k \in 0 .. N |-> g[k]]
    BY <1>3
  <2>2. ASSUME NEW k \in 0 .. N PROVE g[k] = Value(g, k)
    <3>1. k = 0 \/ k \in 1 .. N
      BY <1>1
    <3> HIDE DEF Step, base
    <3> QED
      BY <1>1, <1>3, <3>1
  <2> HIDE DEF Value
  <2> QED
    BY <2>1, <2>2
<1>5. Chosen = [k \in 0 .. N |-> Value(Chosen, k)]
  <2> HIDE DEF Value
  <2> QED
    BY <1>4
<1>6. InputsOf(picked, order, owner) = Chosen[N]
  BY DEF InputsOf, InputsFrom
<1> HIDE DEF Chosen
<1>7. \A k \in 0 .. N : Chosen[k] = Value(Chosen, k)
  <2> HIDE DEF Value
  <2> QED
    BY <1>5
<1>8. Chosen[N] = g[N]
  <2>1. Chosen[0] = g[0] /\ \A k \in 1 .. N : Chosen[k - 1] = g[k - 1] => Chosen[k] = g[k]
    <3> HIDE DEF Step, base
    <3> QED
      BY <1>1, <1>3, <1>7
  <2> HIDE DEF N, Value, Step
  <2>2. \A k \in 0 .. N : Chosen[k] = g[k]
    BY <1>1, <2>1, SameSteps, ZenonT(40)
  <2> QED
    BY <1>1, <2>2
<1> QED
  BY <1>3, <1>6, <1>8 DEF S

-----------------------------------------------------------------------------
(* Lists: what KeepAt keeps, and where InsertAt inserts. *)

(* KeepAt never makes a list longer. *)
LEMMA KeepAtLength ==
  ASSUME NEW X, NEW list \in Seq(X), NEW P
  PROVE  /\ Len(KeepAt(list, P)) \in Nat
         /\ Len(KeepAt(list, P)) <= Len(list)
<1>1. PICK g \in [0 .. Len(list) -> Seq(X)] :
         /\ g[0] = << >> /\ KeepAt(list, P) = g[Len(list)]
         /\ \A k \in 1 .. Len(list) : g[k] = IF k \in P THEN Append(g[k - 1], list[k]) ELSE g[k - 1]
  <2>1. PICK g \in [0 .. Len(list) -> Seq(X)] :
         g[0] = << >> /\ KeepAt(list, P) = g[Len(list)] /\ Keeping(g, list, P)
    BY KeepAtSteps
  <2> QED
    BY <2>1 DEF Keeping
<1> DEFINE N == Len(list)
           T == {k \in 0 .. N : Len(g[k]) <= k}
<1>2. N \in Nat /\ \A k \in 1 .. N : list[k] \in X
  OBVIOUS
<1>3. \A k \in 1 .. N : k - 1 \in T => k \in T
  <2> TAKE k \in 1 .. N
  <2> HAVE k - 1 \in T
  <2>1. g[k - 1] \in Seq(X) /\ g[k] \in Seq(X) /\ Len(g[k - 1]) <= k - 1 /\ k \in 0 .. N
    BY <1>1
  <2>2. g[k] = Append(g[k - 1], list[k]) \/ g[k] = g[k - 1]
    BY <1>1
  <2>3. Len(g[k]) <= Len(g[k - 1]) + 1
    BY <1>2, <2>1, <2>2
  <2> QED
    BY <2>1, <2>3
<1>4. 0 \in T
  BY <1>1
<1>5. 0 .. N \subseteq T
  <2> HIDE DEF T, N
  <2> QED
    BY <1>2, <1>3, <1>4, Rounds
<1> QED
  BY <1>1, <1>2, <1>5

(* It keeps a start of the list when those are the positions asked for. *)
LEMMA KeepAtStart ==
  ASSUME NEW X, NEW list \in Seq(X), NEW P, NEW n \in 0 .. Len(list),
         \A k \in 1 .. Len(list) : k \in P <=> k <= n
  PROVE  KeepAt(list, P) = SubSeq(list, 1, n)
<1>1. PICK g \in [0 .. Len(list) -> Seq(X)] :
         /\ g[0] = << >> /\ KeepAt(list, P) = g[Len(list)]
         /\ \A k \in 1 .. Len(list) : g[k] = IF k \in P THEN Append(g[k - 1], list[k]) ELSE g[k - 1]
  <2>1. PICK g \in [0 .. Len(list) -> Seq(X)] :
           g[0] = << >> /\ KeepAt(list, P) = g[Len(list)] /\ Keeping(g, list, P)
    BY KeepAtSteps
  <2> QED
    BY <2>1 DEF Keeping
<1> DEFINE N == Len(list)
           Upto(k) == IF k <= n THEN k ELSE n
           T == {k \in 0 .. N : Len(g[k]) = Upto(k) /\ \A i \in 1 .. Upto(k) : g[k][i] = list[i]}
<1>2. N \in Nat /\ n \in Nat /\ n <= N /\ \A k \in 1 .. N : list[k] \in X
  OBVIOUS
<1>3. \A k \in 1 .. N : k - 1 \in T => k \in T
  <2> TAKE k \in 1 .. N
  <2> HAVE k - 1 \in T
  <2>1. g[k - 1] \in Seq(X) /\ k \in 0 .. N
    BY <1>1
  <2>2. Len(g[k - 1]) = Upto(k - 1) /\ \A i \in 1 .. Upto(k - 1) : g[k - 1][i] = list[i]
    OBVIOUS
  <2>3. CASE k <= n
    <3>1. g[k] = Append(g[k - 1], list[k])
      BY <1>1, <2>3
    <3>2. Upto(k - 1) = k - 1 /\ Upto(k) = k
      BY <1>2, <2>3
    <3>3. Len(g[k]) = k /\ \A i \in 1 .. k : g[k][i] = IF i = k THEN list[k] ELSE g[k - 1][i]
      BY <1>2, <2>1, <2>2, <3>1, <3>2
    <3> QED
      <4>1. \A i \in 1 .. k - 1 : i \in 1 .. k /\ g[k - 1][i] = list[i]
        BY <2>2, <3>2
      <4>2. \A i \in 1 .. k : i = k \/ i \in 1 .. k - 1
        OBVIOUS
      <4>3. Len(g[k]) = Upto(k) /\ \A i \in 1 .. Upto(k) : g[k][i] = list[i]
        BY <3>2, <3>3, <4>1, <4>2
      <4> QED
        BY <2>1, <4>3
  <2>4. CASE ~(k <= n)
    <3>1. g[k] = g[k - 1] /\ Upto(k - 1) = n /\ Upto(k) = n
      BY <1>1, <1>2, <2>4
    <3> QED
      BY <2>1, <2>2, <3>1
  <2> QED
    BY <2>3, <2>4
<1>4. 0 \in T
  BY <1>1, <1>2
<1>5. 0 .. N \subseteq T
  <2> HIDE DEF T, N
  <2> QED
    BY <1>2, <1>3, <1>4, Rounds
<1>6. Len(g[N]) = n /\ \A i \in 1 .. n : g[N][i] = list[i]
  <2>1. N \in T /\ Upto(N) = n
    BY <1>2, <1>5
  <2> QED
    BY <2>1
<1>7. g[N] \in Seq(X)
  BY <1>1, <1>2
<1>8. SubSeq(list, 1, n) \in Seq(X) /\ Len(SubSeq(list, 1, n)) = n
      /\ \A i \in 1 .. n : SubSeq(list, 1, n)[i] = list[i]
  BY <1>2
<1> QED
  BY <1>1, <1>6, <1>7, <1>8, SeqEqual

(* It loses no more than the one output whose position is left out. *)
LEMMA KeepAtWithout ==
  ASSUME NEW X, NEW list \in Seq(X), NEW gone
  PROVE  Len(KeepAt(list, DOMAIN list \ {gone})) >= Len(list) - 1
<1> DEFINE P == DOMAIN list \ {gone}
<1>1. PICK g \in [0 .. Len(list) -> Seq(X)] :
         /\ g[0] = << >> /\ KeepAt(list, P) = g[Len(list)]
         /\ \A k \in 1 .. Len(list) : g[k] = IF k \in P THEN Append(g[k - 1], list[k]) ELSE g[k - 1]
  <2> HIDE DEF P
  <2> QED
    <3>1. PICK g \in [0 .. Len(list) -> Seq(X)] :
           g[0] = << >> /\ KeepAt(list, P) = g[Len(list)] /\ Keeping(g, list, P)
      BY KeepAtSteps
    <3> QED
      BY <3>1 DEF Keeping
<1> DEFINE N == Len(list)
           Past(k) == gone \in 1 .. k
           T == {k \in 0 .. N : Len(g[k]) >= IF Past(k) THEN k - 1 ELSE k}
<1>2. N \in Nat /\ P = 1 .. N \ {gone} /\ \A k \in 1 .. N : list[k] \in X
  OBVIOUS
<1>3. \A k \in 1 .. N : k - 1 \in T => k \in T
  <2> TAKE k \in 1 .. N
  <2> HAVE k - 1 \in T
  <2>1. g[k - 1] \in Seq(X) /\ k \in 0 .. N /\ Len(g[k - 1]) >= IF Past(k - 1) THEN k - 2 ELSE k - 1
    BY <1>1
  <2>2. CASE k = gone
    <3>1. g[k] = g[k - 1] /\ Past(k) /\ ~Past(k - 1)
      BY <1>1, <1>2, <2>2
    <3> QED
      BY <2>1, <3>1
  <2>3. CASE k # gone
    <3>1. g[k] = Append(g[k - 1], list[k]) /\ (Past(k) <=> Past(k - 1))
      <4>1. k \in P /\ k \in 1 .. N
        BY <1>2, <2>3
      <4>2. g[k] = Append(g[k - 1], list[k])
        BY <1>1, <4>1
      <4>3. \A i : i \in 1 .. k <=> i \in 1 .. k - 1 \/ i = k
        BY <1>2
      <4> QED
        BY <2>3, <4>2, <4>3
    <3>2. Len(g[k]) = Len(g[k - 1]) + 1
      BY <2>1, <3>1
    <3> QED
      BY <2>1, <3>1, <3>2
  <2> QED
    BY <2>2, <2>3
<1>4. 0 \in T
  BY <1>1
<1>5. 0 .. N \subseteq T
  <2> HIDE DEF T, N
  <2> QED
    BY <1>2, <1>3, <1>4, Rounds
<1>6. N \in T /\ g[N] \in Seq(X)
  BY <1>1, <1>2, <1>5
<1> QED
  BY <1>1, <1>2, <1>6

Injective(list) == \A i, j \in DOMAIN list : list[i] = list[j] => i = j

(* A new hash among the others: no id is lost, none comes twice. *)
LEMMA Inserted ==
  ASSUME NEW X, NEW list \in Seq(X), NEW i \in 1 .. Len(list) + 1, NEW x \in X
  PROVE  /\ InsertAt(list, i, x) \in Seq(X)
         /\ Len(InsertAt(list, i, x)) = Len(list) + 1
         /\ ToSet(InsertAt(list, i, x)) = ToSet(list) \cup {x}
         /\ Injective(list) /\ x \notin ToSet(list) => Injective(InsertAt(list, i, x))
<1> DEFINE new == InsertAt(list, i, x)
           a == SubSeq(list, 1, i - 1)
           b == SubSeq(list, i, Len(list))
           N == Len(list)
<1>1. N \in Nat /\ i \in Nat /\ 1 <= i /\ i <= N + 1 /\ DOMAIN list = 1 .. N
  OBVIOUS
<1>2. a \in Seq(X) /\ Len(a) = i - 1 /\ \A j \in 1 .. i - 1 : a[j] = list[j]
  BY <1>1
<1>3. b \in Seq(X) /\ Len(b) = N - i + 1 /\ \A j \in 1 .. N - i + 1 : b[j] = list[i + j - 1]
  BY <1>1
<1>4. new = a \o <<x>> \o b
  BY DEF InsertAt
<1> HIDE DEF a, b, new
<1>5. /\ new \in Seq(X) /\ Len(new) = N + 1
      /\ \A j \in 1 .. N + 1 : new[j] = IF j < i THEN a[j] ELSE IF j = i THEN x ELSE b[j - i]
  <2>1. /\ <<x>> \in Seq(X) /\ Len(<<x>>) = 1 /\ <<x>>[1] = x
        /\ \A j \in 1 .. N + 1 : j < i \/ j = i \/ j > i
    BY <1>1
  <2> DEFINE one == <<x>>
             c == a \o one
  <2>2. c \in Seq(X) /\ Len(c) = i /\ \A j \in 1 .. i : c[j] = IF j < i THEN a[j] ELSE x
    <3>0. a \in Seq(X) /\ one \in Seq(X) /\ Len(one) = 1
      BY <1>2, <2>1
    <3>1. /\ c \in Seq(X) /\ Len(c) = Len(a) + Len(one)
          /\ \A j \in 1 .. Len(a) + Len(one) : c[j] = IF j <= Len(a) THEN a[j] ELSE one[j - Len(a)]
      <4> HIDE DEF one
      <4> QED
        BY <3>0, ConcatProperties
    <3> QED
      BY <1>1, <1>2, <2>1, <3>0, <3>1
  <2>3. new = c \o b
    BY <1>4
  <2> HIDE DEF c
  <2>4. /\ new \in Seq(X) /\ Len(new) = i + Len(b)
        /\ \A j \in 1 .. i + Len(b) : new[j] = IF j <= i THEN c[j] ELSE b[j - i]
    <3>1. /\ c \o b \in Seq(X) /\ Len(c \o b) = Len(c) + Len(b)
          /\ \A j \in 1 .. Len(c) + Len(b) : (c \o b)[j] = IF j <= Len(c) THEN c[j] ELSE b[j - Len(c)]
      BY <1>3, <2>2, ConcatProperties
    <3> QED
      BY <2>2, <2>3, <3>1
  <2>5. i + Len(b) = N + 1
    BY <1>1, <1>3
  <2>6. \A j \in 1 .. N + 1 : new[j] = IF j < i THEN a[j] ELSE IF j = i THEN x ELSE b[j - i]
    BY <1>1, <2>2, <2>4, <2>5
  <2> QED
    BY <2>4, <2>5, <2>6
<1>6. \A j \in 1 .. N + 1 : new[j] = IF j < i THEN list[j] ELSE IF j = i THEN x ELSE list[j - 1]
  <2> TAKE j \in 1 .. N + 1
  <2>1. j > i => b[j - i] = list[j - 1]
    <3> HAVE j > i
    <3>1. j - i \in 1 .. N - i + 1 /\ i + (j - i) - 1 = j - 1
      BY <1>1
    <3> QED
      BY <1>3, <3>1
  <2>2. j < i => a[j] = list[j]
    BY <1>1, <1>2
  <2>3. j < i \/ j = i \/ j > i
    BY <1>1
  <2> QED
    BY <1>1, <1>5, <2>1, <2>2, <2>3
<1>7. DOMAIN new = 1 .. N + 1
  BY <1>5
<1>8. ToSet(new) = ToSet(list) \cup {x}
  <2>1. ASSUME NEW j \in 1 .. N + 1 PROVE new[j] \in ToSet(list) \cup {x}
    <3>1. j < i => j \in 1 .. N
      BY <1>1
    <3>2. j > i => j - 1 \in 1 .. N
      BY <1>1
    <3> QED
      BY <1>1, <1>6, <3>1, <3>2 DEF ToSet
  <2>2. ASSUME NEW j \in 1 .. N PROVE list[j] \in ToSet(new)
    <3>1. CASE j < i
      <4>1. j \in 1 .. N + 1 /\ new[j] = list[j]
        BY <1>1, <1>6, <3>1
      <4> QED
        BY <1>7, <4>1 DEF ToSet
    <3>2. CASE j >= i
      <4>1. j + 1 \in 1 .. N + 1 /\ new[j + 1] = list[j]
        BY <1>1, <1>6, <3>2
      <4> QED
        BY <1>7, <4>1 DEF ToSet
    <3> QED
      BY <1>1, <3>1, <3>2
  <2>3. x \in ToSet(new)
    BY <1>1, <1>6, <1>7 DEF ToSet
  <2> QED
    BY <1>1, <1>7, <2>1, <2>2, <2>3 DEF ToSet
<1>9. ASSUME Injective(list), x \notin ToSet(list) PROVE Injective(new)
  <2> SUFFICES ASSUME NEW j \in 1 .. N + 1, NEW l \in 1 .. N + 1, new[j] = new[l] PROVE j = l
    BY <1>7 DEF Injective
  <2> DEFINE At(k) == IF k < i THEN k ELSE k - 1
  <2>1. \A k \in 1 .. N + 1 : k # i => At(k) \in 1 .. N /\ new[k] = list[At(k)]
    BY <1>1, <1>6
  <2>2. \A k \in 1 .. N + 1 : k # i => new[k] # x
    BY <1>1, <1>9, <2>1 DEF ToSet
  <2>3. (j = i) <=> (l = i)
    BY <1>1, <1>6, <2>2
  <2>4. ASSUME j # i, l # i PROVE j = l
    <3>1. At(j) = At(l)
      BY <1>1, <1>9, <2>1, <2>4 DEF Injective
    <3> QED
      BY <1>1, <2>4, <3>1
  <2> QED
    BY <2>3, <2>4
<1> QED
  BY <1>5, <1>8, <1>9 DEF new

-----------------------------------------------------------------------------
(* What FindSpendableOutputs picks: under every id, positions of outputs   *)
(* that are there, in ascending order.                                     *)
Rising(positions, n) ==
    /\ \A i \in DOMAIN positions : positions[i] \in 1 .. n
    /\ \A i, j \in DOMAIN positions : i < j => positions[i] < positions[j]

SomePicked(pick) == pick.value > 0 => \E id \in TxId : pick.outs[id] # << >>

(* One output looked at: the positions picked under its id still ascend. *)
LEMMA PickOne ==
  ASSUME NEW pick \in Picks, NEW id \in TxId, NEW p \in Nat \ {0}, NEW out \in Output,
         NEW owner, NEW amount \in Nat, Rising(pick.outs[id], p - 1), SomePicked(pick)
  PROVE  LET next == Pick(pick, id, p, out, owner, amount)
         IN  /\ Rising(next.outs[id], p) /\ SomePicked(next)
             /\ \A other \in TxId : other # id => next.outs[other] = pick.outs[other]
<1> DEFINE next == Pick(pick, id, p, out, owner, amount)
           list == pick.outs[id]
<1>1. pick.value \in Nat /\ pick.outs \in [TxId -> Seq(Nat)] /\ list \in Seq(Nat)
  BY DEF Picks
<1>2. /\ Len(list) \in Nat /\ DOMAIN list = 1 .. Len(list)
      /\ list \in Seq(Nat) /\ Rising(list, p - 1)
  BY <1>1
<1>3. CASE next = pick
  <2> HIDE DEF list
  <2>1. \A i \in 1 .. Len(list) : list[i] \in 1 .. p - 1 /\ list[i] \in 1 .. p
    BY <1>2 DEF Rising
  <2>2. Rising(list, p)
    BY <1>2, <2>1 DEF Rising
  <2> QED
    BY <1>3, <2>2 DEF list
<1>4. CASE next = [value |-> pick.value + out.value, outs |-> [pick.outs EXCEPT ![id] = Append(@, p)]]
  <2> DEFINE longer == Append(list, p)
  <2>1. next.outs[id] = longer
        /\ \A other \in TxId : other # id => next.outs[other] = pick.outs[other]
    BY <1>1, <1>4
  <2>2. /\ DOMAIN longer = 1 .. Len(list) + 1
        /\ \A i \in 1 .. Len(list) : longer[i] = list[i]
        /\ longer[Len(list) + 1] = p /\ longer # << >>
    <3>1. p \in Nat /\ list \in Seq(Nat)
      BY <1>2
    <3> HIDE DEF list
    <3>2. /\ longer \in Seq(Nat) /\ Len(longer) = Len(list) + 1
          /\ \A i \in 1 .. Len(list) : longer[i] = list[i]
          /\ longer[Len(list) + 1] = p /\ longer # << >>
      BY <3>1, AppendProperties
    <3> HIDE DEF longer
    <3> QED
      BY <3>2
  <2>3. \A i \in 1 .. Len(list) : list[i] \in Nat /\ list[i] \in 1 .. p - 1
    <3> HIDE DEF list
    <3> QED
      BY <1>2 DEF Rising
  <2> HIDE DEF list, longer, next
  <2>4. Rising(longer, p)
    <3>1. \A i \in 1 .. Len(list) + 1 : longer[i] \in 1 .. p
      <4> TAKE i \in 1 .. Len(list) + 1
      <4>1. CASE i = Len(list) + 1
        BY <2>2, <4>1
      <4>2. CASE i # Len(list) + 1
        <5>1. i \in 1 .. Len(list) /\ longer[i] = list[i]
          BY <1>2, <2>2, <4>2
        <5> QED
          BY <2>3, <5>1
      <4> QED
        BY <4>1, <4>2
    <3>2. ASSUME NEW i \in 1 .. Len(list) + 1, NEW j \in 1 .. Len(list) + 1, i < j
          PROVE  longer[i] < longer[j]
      <4>0. i \in 1 .. Len(list) /\ i # Len(list) + 1
        BY <1>2, <3>2
      <4>1. i \in 1 .. Len(list) /\ longer[i] = list[i] /\ list[i] < p
        BY <2>2, <2>3, <4>0
      <4>2. CASE j = Len(list) + 1
        BY <2>2, <4>1, <4>2
      <4>3. CASE j # Len(list) + 1
        <5>1. j \in 1 .. Len(list) /\ longer[j] = list[j]
          BY <1>2, <2>2, <4>3
        <5>2. list[i] < list[j]
          BY <1>2, <3>2, <4>1, <5>1 DEF Rising
        <5> QED
          BY <4>1, <5>1, <5>2
      <4> QED
        BY <4>2, <4>3
    <3> QED
      BY <2>2, <3>1, <3>2 DEF Rising
  <2>5. SomePicked(next)
    BY <2>1, <2>2 DEF SomePicked
  <2> QED
    BY <2>1, <2>4, <2>5 DEF next
<1>5. next = pick \/ next = [value |-> pick.value + out.value, outs |-> [pick.outs EXCEPT ![id] = Append(@, p)]]
  BY DEF Pick
<1> QED
  BY <1>3, <1>4, <1>5

(* All outputs under one key. *)
LEMMA PickedFrom ==
  ASSUME NEW pick \in Picks, NEW id \in TxId, NEW outs \in Seq(Output),
         NEW owner, NEW amount \in Nat, pick.outs[id] = << >>, SomePicked(pick)
  PROVE  LET next == PickFrom(pick, id, outs, owner, amount)
         IN  /\ next \in Picks /\ Rising(next.outs[id], Len(outs)) /\ SomePicked(next)
             /\ \A other \in TxId : other # id => next.outs[other] = pick.outs[other]
<1>1. PICK g \in [0 .. Len(outs) -> Picks] :
         /\ g[0] = pick /\ PickFrom(pick, id, outs, owner, amount) = g[Len(outs)]
         /\ \A k \in 1 .. Len(outs) : g[k] = Pick(g[k - 1], id, k, outs[k], owner, amount)
  <2>1. PICK g \in [0 .. Len(outs) -> Picks] :
           /\ g[0] = pick /\ PickFrom(pick, id, outs, owner, amount) = g[Len(outs)]
           /\ Picking(g, id, outs, owner, amount)
    BY PickFromSteps
  <2> QED
    BY <2>1 DEF Picking
<1> DEFINE N == Len(outs)
           Good(k) == /\ Rising(g[k].outs[id], k) /\ SomePicked(g[k])
                      /\ \A other \in TxId : other # id => g[k].outs[other] = pick.outs[other]
           T == {k \in 0 .. N : Good(k)}
<1>2. N \in Nat /\ \A k \in 1 .. N : outs[k] \in Output
  OBVIOUS
<1>3. \A k \in 1 .. N : k - 1 \in T => k \in T
  <2> TAKE k \in 1 .. N
  <2> HAVE k - 1 \in T
  <2>1. /\ g[k - 1] \in Picks /\ k \in Nat \ {0} /\ k \in 0 .. N /\ outs[k] \in Output
        /\ g[k] = Pick(g[k - 1], id, k, outs[k], owner, amount)
    BY <1>1, <1>2
  <2>2. Good(k - 1)
    OBVIOUS
  <2>3. /\ Rising(g[k].outs[id], k) /\ SomePicked(g[k])
        /\ \A other \in TxId : other # id => g[k].outs[other] = g[k - 1].outs[other]
    BY <2>1, <2>2, PickOne
  <2> QED
    BY <2>1, <2>2, <2>3
<1>4. 0 \in T
  BY <1>1, <1>2 DEF Rising
<1>5. 0 .. N \subseteq T
  <2> HIDE DEF T, N
  <2> QED
    BY <1>2, <1>3, <1>4, Rounds
<1>6. N \in T /\ g[N] \in Picks
  BY <1>1, <1>2, <1>5
<1> QED
  BY <1>1, <1>6

(* All keys: an id without a key among the hashes has nothing picked. *)
LEMMA Spendable ==
  ASSUME NEW entries \in Index, NEW keys \in Seq(TxId), Injective(keys),
         NEW owner, NEW amount \in Nat
  PROVE  LET pick == FindSpendableOutputs(entries, keys, owner, amount)
         IN  /\ pick \in Picks /\ SomePicked(pick)
             /\ \A id \in TxId : /\ Rising(pick.outs[id], Len(entries[id]))
                                 /\ id \notin ToSet(keys) => pick.outs[id] = << >>
<1>1. PICK g \in [0 .. Len(keys) -> Picks] :
         /\ g[0] = [value |-> 0, outs |-> NoOutputs]
         /\ FindSpendableOutputs(entries, keys, owner, amount) = g[Len(keys)]
         /\ \A k \in 1 .. Len(keys) : g[k] = PickFrom(g[k - 1], keys[k], entries[keys[k]], owner, amount)
  BY SpendableSteps
<1> DEFINE N == Len(keys)
           Good(k) == /\ SomePicked(g[k])
                      /\ \A id \in TxId : Rising(g[k].outs[id], Len(entries[id]))
                      /\ \A id \in TxId : (\A i \in 1 .. k : keys[i] # id) => g[k].outs[id] = << >>
           T == {k \in 0 .. N : Good(k)}
<1>2. N \in Nat /\ DOMAIN keys = 1 .. N
      /\ \A k \in 1 .. N : keys[k] \in TxId /\ entries[keys[k]] \in Seq(Output)
  BY DEF Index
<1>3. ASSUME NEW k \in 1 .. N, Good(k - 1) PROVE Good(k)
  <2> DEFINE id == keys[k]
             outs == entries[id]
  <2>1. /\ g[k - 1] \in Picks /\ k \in 0 .. N /\ id \in TxId /\ outs \in Seq(Output)
        /\ g[k] = PickFrom(g[k - 1], id, outs, owner, amount)
    BY <1>1, <1>2
  <2>2. /\ SomePicked(g[k - 1])
        /\ \A i \in TxId : Rising(g[k - 1].outs[i], Len(entries[i]))
        /\ \A i \in TxId : (\A j \in 1 .. k - 1 : keys[j] # i) => g[k - 1].outs[i] = << >>
    BY <1>3
  <2>3. g[k - 1].outs[id] = << >>
    <3>1. \A i \in 1 .. k - 1 : i \in 1 .. N /\ i # k
      BY <1>2
    <3>2. \A i \in 1 .. k - 1 : keys[i] # id
      BY <1>2, <3>1 DEF Injective
    <3> QED
      BY <2>1, <2>2, <3>2
  <2> HIDE DEF id, outs
  <2>4. /\ Rising(g[k].outs[id], Len(outs)) /\ SomePicked(g[k])
        /\ \A other \in TxId : other # id => g[k].outs[other] = g[k - 1].outs[other]
    BY <2>1, <2>2, <2>3, PickedFrom
  <2>5. ASSUME NEW i \in TxId PROVE Rising(g[k].outs[i], Len(entries[i]))
    BY <2>2, <2>4 DEF outs
  <2>6. ASSUME NEW i \in TxId, \A j \in 1 .. k : keys[j] # i PROVE g[k].outs[i] = << >>
    <3>1. i # id /\ \A j \in 1 .. k - 1 : keys[j] # i
      BY <1>2, <2>6 DEF id
    <3> QED
      BY <2>2, <2>4, <3>1
  <2> QED
    BY <2>4, <2>5, <2>6
<1>4. Good(0)
  <2>1. g[0].value = 0 /\ \A id \in TxId : g[0].outs[id] = << >>
    BY <1>1 DEF NoOutputs
  <2> QED
    BY <1>2, <2>1 DEF SomePicked, Rising
<1>5. 0 .. N \subseteq T
  <2> HIDE DEF Good, N
  <2>1. 0 \in T /\ \A k \in 1 .. N : k - 1 \in T => k \in T
    BY <1>2, <1>3, <1>4
  <2> HIDE DEF T
  <2> QED
    BY <1>2, <2>1, Rounds
<1>6. Good(N) /\ g[N] \in Picks
  <2> HIDE DEF Good
  <2> QED
    BY <1>1, <1>2, <1>5
<1>7. ASSUME NEW id \in TxId, id \notin ToSet(keys) PROVE \A i \in 1 .. N : keys[i] # id
  BY <1>2, <1>7 DEF ToSet
<1> QED
  BY <1>1, <1>6, <1>7

-----------------------------------------------------------------------------
(* The inputs made of the picked positions, and their removal. *)
Ascending(ins) ==
    \A j, l \in DOMAIN ins : j < l /\ ins[j].id = ins[l].id => ins[j].out < ins[l].out

Names(ins, picked, order, owner) ==
    \A j \in DOMAIN ins : \E k \in DOMAIN order : \E q \in DOMAIN picked[order[k]] :
        ins[j] = [id |-> order[k], out |-> picked[order[k]][q], key |-> owner]

Rises(list) == \A p, q \in DOMAIN list : p < q => list[p] < list[q]

NotIn(id, ins) == \A j \in DOMAIN ins : ins[j].id # id

Grown(next, ins, list, id, owner) ==
    /\ Ascending(next)
    /\ \A j \in DOMAIN next :
          \/ j \in DOMAIN ins /\ next[j] = ins[j]
          \/ \E q \in DOMAIN list : next[j] = [id |-> id, out |-> list[q], key |-> owner]
    /\ ins # << >> \/ list # << >> => next # << >>

(* The inputs made of the positions picked under one more id. *)
LEMMA InputsAdded ==
  ASSUME NEW ins \in Seq(Input), NEW more \in Seq(Input), NEW list \in Seq(Nat), NEW id, NEW owner,
         Listed(more, list, id, owner), Rises(list), Ascending(ins), NotIn(id, ins)
  PROVE  Grown(ins \o more, ins, list, id, owner)
<1> DEFINE next == ins \o more
           M == Len(ins)
           L == Len(list)
<1>1. /\ M \in Nat /\ DOMAIN ins = 1 .. M /\ L \in Nat /\ DOMAIN list = 1 .. L
      /\ (ins # << >> => M > 0) /\ (list # << >> => L > 0)
  OBVIOUS
<1>2. /\ next \in Seq(Input) /\ Len(next) = M + L
      /\ \A j \in 1 .. M + L : next[j] = IF j <= M THEN ins[j] ELSE more[j - M]
  <2>1. /\ next \in Seq(Input) /\ Len(next) = Len(ins) + Len(more)
        /\ \A j \in 1 .. Len(ins) + Len(more) :
              next[j] = IF j <= Len(ins) THEN ins[j] ELSE more[j - Len(ins)]
    BY ConcatProperties
  <2>2. M = Len(ins) /\ L = Len(more)
    BY DEF Listed
  <2> HIDE DEF next, M, L
  <2> QED
    BY <2>1, <2>2
<1>3. DOMAIN next = 1 .. M + L
  <2> HIDE DEF next, M, L
  <2> QED
    BY <1>2
<1> HIDE DEF next, M, L
<1>4. ASSUME NEW j \in 1 .. M PROVE j \in 1 .. M + L /\ next[j] = ins[j] /\ next[j].id # id
  <2>1. j \in 1 .. M + L /\ j <= M
    BY <1>1
  <2> QED
    BY <1>1, <1>2, <2>1 DEF NotIn
<1>5. ASSUME NEW j \in 1 .. M + L, ~(j <= M)
      PROVE  /\ j - M \in DOMAIN list /\ j - M \in Int
             /\ next[j] = [id |-> id, out |-> list[j - M], key |-> owner]
             /\ next[j].id = id /\ next[j].out = list[j - M]
  <2>1. j - M \in 1 .. L
    BY <1>1, <1>5
  <2>2. next[j] = more[j - M]
    BY <1>2, <1>5
  <2>3. next[j] = [id |-> id, out |-> list[j - M], key |-> owner]
    BY <2>1, <2>2 DEF Listed, L
  <2> QED
    BY <1>1, <2>1, <2>3
<1>6. ASSUME NEW j \in 1 .. M + L, NEW l \in 1 .. M + L, j < l, next[j].id = next[l].id
      PROVE  next[j].out < next[l].out
  <2>1. CASE l <= M
    <3>1. j \in 1 .. M /\ l \in 1 .. M
      BY <1>1, <1>6, <2>1
    <3>2. next[j] = ins[j] /\ next[l] = ins[l]
      BY <1>4, <3>1
    <3>3. ins[j].out < ins[l].out
      BY <1>1, <1>6, <3>1, <3>2 DEF Ascending
    <3> QED
      BY <3>2, <3>3
  <2>2. CASE ~(l <= M) /\ j <= M
    <3>1. j \in 1 .. M
      BY <1>1, <2>2
    <3>2. next[j].id # id /\ next[l].id = id
      BY <1>4, <1>5, <2>2, <3>1
    <3> QED
      BY <1>6, <3>2
  <2>3. CASE ~(l <= M) /\ ~(j <= M)
    <3>1. /\ j - M \in DOMAIN list /\ l - M \in DOMAIN list
          /\ next[j].out = list[j - M] /\ next[l].out = list[l - M]
      BY <1>5, <2>3
    <3>2. j - M < l - M
      BY <1>1, <1>6
    <3> QED
      BY <3>1, <3>2 DEF Rises
  <2> QED
    BY <2>1, <2>2, <2>3
<1>7. Ascending(next)
  BY <1>3, <1>6 DEF Ascending
<1>8. ASSUME NEW j \in 1 .. M + L
      PROVE  \/ j \in DOMAIN ins /\ next[j] = ins[j]
             \/ \E q \in DOMAIN list : next[j] = [id |-> id, out |-> list[q], key |-> owner]
  <2>1. CASE j <= M
    <3>1. j \in 1 .. M
      BY <1>1, <2>1
    <3> QED
      BY <1>1, <1>4, <3>1
  <2>2. CASE ~(j <= M)
    BY <1>5, <2>2
  <2> QED
    BY <2>1, <2>2
<1>9. ins # << >> \/ list # << >> => next # << >>
  <2>1. ins # << >> \/ list # << >> => Len(next) # 0
    BY <1>1, <1>2
  <2>2. Len(<< >>) = 0
    OBVIOUS
  <2> QED
    BY <2>1, <2>2
<1> QED
  BY <1>3, <1>7, <1>8, <1>9 DEF next, Grown

(* NewTransaction: its inputs ascend under every id, in any order of ids. *)
LEMMA InputsMade ==
  ASSUME NEW picked \in [TxId -> Seq(Nat)], NEW order \in Seq(TxId), Injective(order),
         NEW owner \in Owner,
         \A id \in TxId : Rises(picked[id])
  PROVE  LET ins == InputsOf(picked, order, owner)
         IN  /\ ins \in Seq(Input) /\ Ascending(ins) /\ Names(ins, picked, order, owner)
             /\ (\E k \in DOMAIN order : picked[order[k]] # << >>) => ins # << >>
<1>1. PICK g \in [0 .. Len(order) -> Seq(Input)] :
         /\ g[0] = << >> /\ InputsOf(picked, order, owner) = g[Len(order)]
         /\ \A k \in 1 .. Len(order) : g[k] = g[k - 1] \o InputsFrom(picked, order[k], owner)
  BY InputsSteps
<1> DEFINE N == Len(order)
           From(j, n, k) == \E q \in DOMAIN picked[order[k]] :
                               g[n][j] = [id |-> order[k], out |-> picked[order[k]][q], key |-> owner]
           Good(n) == /\ Ascending(g[n])
                      /\ \A j \in DOMAIN g[n] : \E k \in 1 .. n : From(j, n, k)
                      /\ (\E k \in 1 .. n : picked[order[k]] # << >>) => g[n] # << >>
           T == {n \in 0 .. N : Good(n)}
<1>2. N \in Nat /\ DOMAIN order = 1 .. N /\ \A k \in 1 .. N : order[k] \in TxId
  OBVIOUS
<1>3. \A n \in 1 .. N : n - 1 \in T => n \in T
  <2> TAKE n \in 1 .. N
  <2> HAVE n - 1 \in T
  <2>a. Good(n - 1)
    <3> HIDE DEF Good
    <3> QED
      OBVIOUS
  <2>b. /\ Ascending(g[n - 1])
        /\ \A j \in DOMAIN g[n - 1] : \E k \in 1 .. n - 1 : From(j, n - 1, k)
        /\ (\E k \in 1 .. n - 1 : picked[order[k]] # << >>) => g[n - 1] # << >>
    BY <2>a
  <2> HIDE DEF From, Good
  <2> DEFINE id == order[n]
             new == InputsFrom(picked, id, owner)
  <2>1. n - 1 \in 0 .. N /\ n \in 0 .. N /\ id \in TxId
    BY <1>2
  <2>2. g[n - 1] \in Seq(Input) /\ g[n] = g[n - 1] \o new
    BY <2>1, <1>1
  <2> HIDE DEF id
  <2>3. new \in Seq(Input) /\ Listed(new, picked[id], id, owner) /\ picked[id] \in Seq(Nat)
    BY <2>1, InputsFromType
  <2> HIDE DEF new
  <2>4. NotIn(id, g[n - 1])
    <3> SUFFICES ASSUME NEW j \in DOMAIN g[n - 1] PROVE g[n - 1][j].id # id
      BY DEF NotIn
    <3>1. PICK k \in 1 .. n - 1 : From(j, n - 1, k)
      BY <2>b
    <3>2. g[n - 1][j].id = order[k]
      BY <3>1 DEF From
    <3>3. k \in 1 .. N /\ k # n
      BY <1>2
    <3> QED
      BY <1>2, <3>2, <3>3 DEF Injective, id
  <2>5. Rises(picked[id])
    BY <2>1
  <2>6. Grown(g[n], g[n - 1], picked[id], id, owner)
    <3> DEFINE ins == g[n - 1]
               list == picked[id]
    <3>1. /\ ins \in Seq(Input) /\ list \in Seq(Nat) /\ new \in Seq(Input)
          /\ Listed(new, list, id, owner) /\ Rises(list) /\ Ascending(ins) /\ NotIn(id, ins)
      BY <2>b, <2>2, <2>3, <2>4, <2>5
    <3> HIDE DEF ins, list
    <3>2. Grown(ins \o new, ins, list, id, owner)
      BY <3>1, InputsAdded
    <3> QED
      BY <2>2, <3>2 DEF ins, list
  <2>7. \A k \in 1 .. n : k = n \/ k \in 1 .. n - 1
    BY <1>2
  <2>8. \A k \in 1 .. n - 1 : k \in 1 .. n
    BY <1>2
  <2>9. n \in 1 .. n
    BY <1>2
  <2>10. ASSUME NEW j \in DOMAIN g[n] PROVE \E k \in 1 .. n : From(j, n, k)
    <3>1. CASE j \in DOMAIN g[n - 1] /\ g[n][j] = g[n - 1][j]
      <4>1. PICK k \in 1 .. n - 1 : From(j, n - 1, k)
        BY <2>b, <3>1
      <4>2. From(j, n, k)
        BY <3>1, <4>1 DEF From
      <4> QED
        BY <2>8, <4>2
    <3>2. CASE \E q \in DOMAIN picked[id] : g[n][j] = [id |-> id, out |-> picked[id][q], key |-> owner]
      BY <2>9, <3>2 DEF From, id
    <3> QED
      BY <2>6, <3>1, <3>2 DEF Grown
  <2>11. ASSUME NEW k \in 1 .. n, picked[order[k]] # << >> PROVE g[n] # << >>
    BY <2>b, <2>6, <2>7, <2>11 DEF id, Grown
  <2>12. Good(n)
    BY <2>6, <2>10, <2>11 DEF Good, Grown
  <2> QED
    BY <2>1, <2>12
<1>4. 0 \in T
  <2>1. DOMAIN g[0] = {} /\ 1 .. 0 = {} /\ 0 \in 0 .. N
    BY <1>1, <1>2
  <2>2. Good(0)
    <3> HIDE DEF From
    <3> QED
      BY <2>1 DEF Ascending
  <2> HIDE DEF Good
  <2> QED
    BY <2>1, <2>2
<1>5. 0 .. N \subseteq T
  <2> HIDE DEF T, N
  <2> QED
    BY <1>2, <1>3, <1>4, Rounds
<1>6. Good(N) /\ N \in 0 .. N
  <2> HIDE DEF Good
  <2> QED
    BY <1>2, <1>5
<1>7. g[N] \in Seq(Input) /\ InputsOf(picked, order, owner) = g[N]
  BY <1>1, <1>6
<1>8. /\ Ascending(g[N])
      /\ \A j \in DOMAIN g[N] : \E k \in 1 .. N : From(j, N, k)
      /\ (\E k \in 1 .. N : picked[order[k]] # << >>) => g[N] # << >>
  BY <1>6
<1>9. Names(g[N], picked, order, owner)
  <2>1. ASSUME NEW j \in DOMAIN g[N]
        PROVE  \E k \in DOMAIN order : From(j, N, k)
    <3> HIDE DEF From
    <3> QED
      BY <1>2, <1>8
  <2> QED
    BY <2>1 DEF Names
<1> QED
  BY <1>2, <1>7, <1>8, <1>9

(* Update on one input: the list under its key is at most one shorter. *)
LEMMA RemovedOne ==
  ASSUME NEW upd \in Upd, NEW in \in Input, in.id \in TxId, upd.index[in.id] # << >>
  PROVE  LET next == RemoveInput(upd, in)
             list == upd.index[in.id]
         IN  /\ next.absent = upd.absent
             /\ next.index[in.id] = KeepAt(list, DOMAIN list \ {in.out})
             /\ Len(next.index[in.id]) \in {Len(list) - 1, Len(list)}
             /\ \A other \in TxId : other # in.id => next.index[other] = upd.index[other]
<1> DEFINE next == RemoveInput(upd, in)
           list == upd.index[in.id]
<1>1. upd.index \in Index /\ upd.absent \subseteq TxId /\ list \in Seq(Output)
  BY DEF Upd, Index
<1>2. next.absent = upd.absent
  BY DEF RemoveInput
<1>3. /\ next.index[in.id] = KeepAt(list, DOMAIN list \ {in.out})
      /\ \A other \in TxId : other # in.id => next.index[other] = upd.index[other]
  BY <1>1 DEF RemoveInput, Index
<1>4. /\ Len(next.index[in.id]) \in Nat /\ Len(list) \in Nat
      /\ Len(next.index[in.id]) <= Len(list) /\ Len(next.index[in.id]) >= Len(list) - 1
  <2> DEFINE left == KeepAt(list, DOMAIN list \ {in.out})
  <2> HIDE DEF list
  <2>1. Len(left) \in Nat /\ Len(left) <= Len(list) /\ Len(list) \in Nat
    BY <1>1, KeepAtLength
  <2>2. Len(left) >= Len(list) - 1
    BY <1>1, KeepAtWithout
  <2> HIDE DEF left
  <2> QED
    BY <1>3, <2>1, <2>2 DEF left
<1>5. Len(next.index[in.id]) \in {Len(list) - 1, Len(list)}
  <2> HIDE DEF list, next
  <2> QED
    BY <1>4
<1> QED
  BY <1>2, <1>3, <1>5

(* Update on all inputs.  As they ascend under every id, a list still has an
   output when the next of its positions is removed: no key is absent. *)
LEMMA RemovedInputs ==
  ASSUME NEW upd \in Upd, NEW ins \in Seq(Input), Ascending(ins),
         \A j \in DOMAIN ins : ins[j].id \in TxId /\ ins[j].out \in 1 .. Len(upd.index[ins[j].id])
  PROVE  LET last == RemoveInputs(upd, ins)
         IN  /\ last \in Upd /\ last.absent = upd.absent
             /\ \A id \in TxId : Len(last.index[id]) <= Len(upd.index[id])
             /\ \A id \in TxId : (\A j \in DOMAIN ins : ins[j].id # id) => last.index[id] = upd.index[id]
             /\ \A j \in DOMAIN ins : (\A l \in DOMAIN ins : ins[l].id = ins[j].id => l = j) =>
                   last.index[ins[j].id] =
                      KeepAt(upd.index[ins[j].id], DOMAIN upd.index[ins[j].id] \ {ins[j].out})
<1>1. PICK g \in [0 .. Len(ins) -> Upd] :
         /\ g[0] = upd /\ RemoveInputs(upd, ins) = g[Len(ins)]
         /\ \A k \in 1 .. Len(ins) : g[k] = RemoveInput(g[k - 1], ins[k])
  BY RemoveSteps
<1> DEFINE N == Len(ins)
           Size(n, id) == Len(g[n].index[id])
           Kept(id, p) == KeepAt(upd.index[id], DOMAIN upd.index[id] \ {p})
           Quiet(n) == g[n].absent = upd.absent /\ \A id \in TxId : Size(n, id) <= Len(upd.index[id])
           Others(n) == \A id \in TxId :
                           (\A j \in 1 .. n : ins[j].id # id) => g[n].index[id] = upd.index[id]
           Once(n) == \A j \in 1 .. n : (\A l \in 1 .. n : ins[l].id = ins[j].id => l = j) =>
                         g[n].index[ins[j].id] = Kept(ins[j].id, ins[j].out)
           Left(n) == \A id \in TxId, q \in Nat :
                         (\A j \in 1 .. n : ins[j].id = id => ins[j].out <= q) =>
                            Size(n, id) + q >= Len(upd.index[id])
           T == {n \in 0 .. N : Quiet(n) /\ Others(n) /\ Once(n) /\ Left(n)}
<1>2. N \in Nat /\ DOMAIN ins = 1 .. N
      /\ \A k \in 1 .. N : ins[k] \in Input /\ ins[k].id \in TxId /\ ins[k].out \in Nat
                           /\ 1 <= ins[k].out /\ ins[k].out <= Len(upd.index[ins[k].id])
  <2>1. \A k \in 1 .. N : ins[k] \in Input
    OBVIOUS
  <2> QED
    BY <2>1 DEF Input
<1>3. \A n \in 0 .. N, id \in TxId : Size(n, id) \in Nat /\ Len(upd.index[id]) \in Nat
  <2> TAKE n \in 0 .. N, id \in TxId
  <2>1. g[n].index[id] \in Seq(Output) /\ upd.index[id] \in Seq(Output)
    BY <1>1 DEF Upd, Index
  <2> QED
    BY <2>1
<1> HIDE DEF Quiet, Others, Once, Left
<1>4. ASSUME NEW n \in 1 .. N, Quiet(n - 1), Others(n - 1), Once(n - 1), Left(n - 1)
      PROVE  Quiet(n) /\ Others(n) /\ Once(n) /\ Left(n)
  <2> DEFINE in == ins[n]
             i == in.id
  <2>1. n - 1 \in 0 .. N /\ n \in 0 .. N /\ n - 1 \in Nat
    BY <1>2
  <2>2. in \in Input /\ i \in TxId /\ in.out \in Nat /\ 1 <= in.out /\ in.out <= Len(upd.index[i])
    BY <1>2
  <2>3. \A j \in 1 .. n - 1 : j \in 1 .. N /\ j # n /\ (ins[j].id = i => ins[j].out <= in.out - 1)
    <3> TAKE j \in 1 .. n - 1
    <3>1. j \in 1 .. N /\ j < n
      BY <1>2
    <3>2. ins[j].id = i => ins[j].out < in.out
      BY <1>2, <3>1 DEF Ascending
    <3> QED
      BY <1>2, <2>2, <3>1, <3>2
  <2> HIDE DEF in, i
  <2>4. Size(n - 1, i) + (in.out - 1) >= Len(upd.index[i])
    <3>1. in.out - 1 \in Nat
      BY <2>2
    <3> HIDE DEF Size
    <3> QED
      BY <1>4, <2>2, <2>3, <3>1 DEF Left
  <2>5. g[n - 1].index[i] # << >>
    <3>1. Size(n - 1, i) \in Nat /\ Len(upd.index[i]) \in Nat
      BY <1>3, <2>1, <2>2
    <3>2. Size(n - 1, i) > 0
      <4> HIDE DEF Size
      <4> QED
        BY <2>2, <2>4, <3>1
    <3> QED
      BY <3>2
  <2>6. /\ g[n].absent = g[n - 1].absent
        /\ g[n].index[i] = KeepAt(g[n - 1].index[i], DOMAIN g[n - 1].index[i] \ {in.out})
        /\ Size(n, i) \in {Size(n - 1, i) - 1, Size(n - 1, i)}
        /\ \A other \in TxId : other # i => g[n].index[other] = g[n - 1].index[other]
    <3>1. g[n - 1] \in Upd /\ g[n] = RemoveInput(g[n - 1], in)
      BY <1>1, <2>1 DEF in
    <3> QED
      <4> DEFINE prev == g[n - 1]
                 next == RemoveInput(prev, in)
                 list == prev.index[i]
      <4>1. prev \in Upd /\ g[n] = next /\ list # << >>
        BY <2>5, <3>1
      <4>2. /\ next.absent = prev.absent
            /\ next.index[i] = KeepAt(list, DOMAIN list \ {in.out})
            /\ Len(next.index[i]) \in {Len(list) - 1, Len(list)}
            /\ \A other \in TxId : other # i => next.index[other] = prev.index[other]
        <5> HIDE DEF prev
        <5> QED
          BY <2>2, <4>1, RemovedOne DEF i
      <4> QED
        BY <4>1, <4>2
  <2>7. Quiet(n)
    <3>1. ASSUME NEW id \in TxId PROVE Size(n, id) <= Len(upd.index[id])
      <4>1. Size(n, id) \in {Size(n - 1, id) - 1, Size(n - 1, id)}
        BY <2>6
      <4>2. Size(n - 1, id) <= Len(upd.index[id]) /\ Size(n - 1, id) \in Nat /\ Len(upd.index[id]) \in Nat
        BY <1>3, <1>4, <2>1 DEF Quiet
      <4> HIDE DEF Size
      <4> QED
        BY <4>1, <4>2
    <3> QED
      BY <1>4, <2>6, <3>1 DEF Quiet
  <2>8. Others(n)
    <3> SUFFICES ASSUME NEW id \in TxId, \A j \in 1 .. n : ins[j].id # id
                 PROVE  g[n].index[id] = upd.index[id]
      BY DEF Others
    <3>1. n \in 1 .. n /\ \A j \in 1 .. n - 1 : j \in 1 .. n
      BY <1>2
    <3>2. id # i
      BY <3>1 DEF i, in
    <3> QED
      BY <1>4, <2>6, <3>1, <3>2 DEF Others
  <2>9. Once(n)
    <3> SUFFICES ASSUME NEW j \in 1 .. n, \A l \in 1 .. n : ins[l].id = ins[j].id => l = j
                 PROVE  g[n].index[ins[j].id] = Kept(ins[j].id, ins[j].out)
      BY DEF Once
    <3>0. n \in 1 .. n /\ \A l \in 1 .. n - 1 : l \in 1 .. n
      BY <1>2
    <3> HIDE DEF Kept
    <3>1. CASE j = n
      <4>1. \A l \in 1 .. n - 1 : ins[l].id # i
        BY <2>3, <3>0, <3>1 DEF i, in
      <4>2. g[n - 1].index[i] = upd.index[i]
        BY <1>4, <2>2, <4>1 DEF Others
      <4> QED
        BY <2>6, <3>1, <4>2 DEF i, in, Kept
    <3>2. CASE j # n
      <4>1. j \in 1 .. n - 1
        BY <1>2, <3>2
      <4>2. ins[j].id # i /\ ins[j].id \in TxId
        BY <1>2, <2>3, <3>0, <3>2, <4>1 DEF i, in
      <4>3. g[n - 1].index[ins[j].id] = Kept(ins[j].id, ins[j].out)
        BY <1>4, <3>0, <4>1 DEF Once
      <4> QED
        BY <2>6, <4>2, <4>3
    <3> QED
      BY <3>1, <3>2
  <2>10. Left(n)
    <3> SUFFICES ASSUME NEW id \in TxId, NEW q \in Nat,
                        \A j \in 1 .. n : ins[j].id = id => ins[j].out <= q
                 PROVE  Size(n, id) + q >= Len(upd.index[id])
      BY DEF Left
    <3>0. n \in 1 .. n /\ \A l \in 1 .. n - 1 : l \in 1 .. n
      BY <1>2
    <3>1. CASE id = i
      <4>1. in.out <= q
        BY <3>0, <3>1 DEF i, in
      <4>2. Size(n, i) \in {Size(n - 1, i) - 1, Size(n - 1, i)} /\ Size(n - 1, i) \in Nat
            /\ Len(upd.index[i]) \in Nat
        BY <1>3, <2>1, <2>2, <2>6
      <4> HIDE DEF Size
      <4> QED
        BY <2>2, <2>4, <3>1, <4>1, <4>2, SMTT(30)
    <3>2. CASE id # i
      <4>1. Size(n - 1, id) + q >= Len(upd.index[id])
        BY <1>4, <3>0 DEF Left
      <4>2. g[n].index[id] = g[n - 1].index[id]
        BY <2>6, <3>2
      <4> QED
        BY <4>1, <4>2
    <3> QED
      BY <3>1, <3>2
  <2> QED
    BY <2>7, <2>8, <2>9, <2>10
<1>5. 0 \in T
  <2>1. 0 \in 0 .. N /\ Others(0) /\ Once(0)
    BY <1>1, <1>2 DEF Others, Once
  <2>2. \A id \in TxId : Size(0, id) = Len(upd.index[id]) /\ Len(upd.index[id]) \in Nat
    BY <1>1, <1>3, <2>1
  <2> HIDE DEF Size
  <2>3. Quiet(0) /\ Left(0)
    BY <1>1, <2>2 DEF Quiet, Left
  <2> QED
    BY <2>1, <2>3
<1>6. 0 .. N \subseteq T
  <2>1. \A n \in 1 .. N : n - 1 \in T => n \in T
    BY <1>2, <1>4
  <2> HIDE DEF T, N
  <2> QED
    BY <1>2, <1>5, <2>1, Rounds
<1>7. Quiet(N) /\ Others(N) /\ Once(N) /\ g[N] \in Upd
  <2>1. N \in 0 .. N
    BY <1>2
  <2> QED
    BY <1>1, <1>6, <2>1
<1> QED
  BY <1>1, <1>2, <1>7 DEF Quiet, Others, Once

-----------------------------------------------------------------------------
(* Chains.  NoRepeat and Orderly, of any chain: *)
Blocks == Seq(Seq(Transaction))

NoRepeatIn(c) ==
    \A n, m \in DOMAIN c : \A k \in DOMAIN c[n], l \in DOMAIN c[m] :
        c[n][k].id = c[m][l].id => n = m /\ k = l

OrderlyIn(c) ==
    \A n \in DOMAIN c : \A k \in DOMAIN c[n] : \A s \in Spends(c[n][k]) :
        LET before == AllSpent(SubSeq(c, 1, n - 1))
        IN  /\ s \notin before
            /\ \A p \in DOMAIN FindTransaction(c, s[1]).outs :
                   p > s[2] => <<s[1], p>> \in before

(* A spend names an output of an earlier block. *)
Linked(c) ==
    \A n \in DOMAIN c : \A k \in DOMAIN c[n] : \A s \in Spends(c[n][k]) :
        \E m \in 1 .. n - 1 : \E l \in DOMAIN c[m] :
            s = <<c[m][l].id, s[2]>> /\ s[2] \in DOMAIN c[m][l].outs

(* Transactions with the same id are the same, in different blocks, and    *)
(* spend something.                                                        *)
Repeats(c) ==
    \A n, m \in DOMAIN c : \A k \in DOMAIN c[n], l \in DOMAIN c[m] :
        c[n][k].id = c[m][l].id =>
            /\ c[n][k] = c[m][l]
            /\ n = m => k = l
            /\ n # m => Spends(c[n][k]) # {}

(* What it is to be a transaction of a chain, and to be spent in it. *)
LEMMA InChain ==
  ASSUME NEW c \in Blocks
  PROVE  /\ \A n \in DOMAIN c : n \in 1 .. Len(c) /\ c[n] \in Seq(Transaction)
         /\ \A n \in DOMAIN c : \A k \in DOMAIN c[n] :
               c[n][k] \in Transaction /\ c[n][k] \in Txs(c) /\ c[n][k].id \in TxId
         /\ \A tx : tx \in Txs(c) <=> \E n \in DOMAIN c : \E k \in DOMAIN c[n] : tx = c[n][k]
         /\ \A s : s \in AllSpent(c) <=>
               \E n \in DOMAIN c : \E k \in DOMAIN c[n] : s \in Spends(c[n][k])
<1>1. \A n \in DOMAIN c : n \in 1 .. Len(c) /\ c[n] \in Seq(Transaction)
  BY DEF Blocks
<1>2. \A tx : tx \in Txs(c) <=> \E n \in DOMAIN c : \E k \in DOMAIN c[n] : tx = c[n][k]
  BY DEF Txs, ToSet
<1>3. \A n \in DOMAIN c : \A k \in DOMAIN c[n] : c[n][k] \in Transaction
  <2> TAKE n \in DOMAIN c
  <2>1. c[n] \in Seq(Transaction)
    BY <1>1
  <2> QED
    BY <2>1
<1>4. \A n \in DOMAIN c : \A k \in DOMAIN c[n] : c[n][k].id \in TxId
  BY <1>3 DEF Transaction
<1>5. \A s : s \in AllSpent(c) <=> \E n \in DOMAIN c : \E k \in DOMAIN c[n] : s \in Spends(c[n][k])
  BY <1>2 DEF AllSpent
<1> QED
  BY <1>1, <1>2, <1>3, <1>4, <1>5

(* FindTransaction finds the transaction of an id. *)
LEMMA Found ==
  ASSUME NEW c \in Blocks, Repeats(c), NEW tx \in Txs(c)
  PROVE  HasTransaction(c, tx.id) /\ FindTransaction(c, tx.id) = tx
<1>1. \A t, u \in Txs(c) : t.id = u.id => t = u
  BY InChain DEF Repeats
<1>2. (CHOOSE t \in Txs(c) : t.id = tx.id) = tx
  BY <1>1
<1> QED
  BY <1>2 DEF HasTransaction, FindTransaction

(* The outputs of a transaction that are not among the spent ones. *)
LeftOf(tx, spent) == KeepAt(tx.outs, {p \in DOMAIN tx.outs : <<tx.id, p>> \notin spent})

(* What a chain spends, it holds; and nothing else has unspent outputs. *)
LEMMA UnspentFacts ==
  ASSUME NEW c \in Blocks, Repeats(c)
  PROVE  /\ \A n \in DOMAIN c : \A k \in DOMAIN c[n] :
               Unspent(c)[c[n][k].id] = LeftOf(c[n][k], AllSpent(c))
         /\ \A id \in TxId : (\A n \in DOMAIN c : \A k \in DOMAIN c[n] : c[n][k].id # id) =>
               Unspent(c)[id] = << >>
         /\ DOMAIN Unspent(c) = TxId
<1>1. ASSUME NEW n \in DOMAIN c, NEW k \in DOMAIN c[n]
      PROVE  Unspent(c)[c[n][k].id] = LeftOf(c[n][k], AllSpent(c))
  <2> DEFINE tx == c[n][k]
  <2>1. tx \in Txs(c) /\ tx.id \in TxId
    BY InChain
  <2> HIDE DEF tx
  <2>2. HasTransaction(c, tx.id) /\ FindTransaction(c, tx.id) = tx
    BY <2>1, Found
  <2> QED
    BY <2>1, <2>2 DEF Unspent, UnspentAt, LeftOf, tx
<1>2. ASSUME NEW id \in TxId, \A n \in DOMAIN c : \A k \in DOMAIN c[n] : c[n][k].id # id
      PROVE  Unspent(c)[id] = << >>
  <2>1. ~HasTransaction(c, id)
    BY <1>2, InChain DEF HasTransaction
  <2> QED
    BY <2>1 DEF Unspent
<1> QED
  BY <1>1, <1>2 DEF Unspent

LEMMA LeftLength ==
  ASSUME NEW tx, tx.outs \in Seq(Output), NEW spent
  PROVE  Len(LeftOf(tx, spent)) <= Len(tx.outs)
BY KeepAtLength DEF LeftOf

LEMMA LeftStart ==
  ASSUME NEW tx, tx.outs \in Seq(Output), NEW spent, NEW u \in 0 .. Len(tx.outs),
         \A p \in 1 .. Len(tx.outs) : <<tx.id, p>> \notin spent <=> p <= u
  PROVE  LeftOf(tx, spent) = SubSeq(tx.outs, 1, u)
<1> DEFINE list == tx.outs
           P == {p \in DOMAIN list : <<tx.id, p>> \notin spent}
<1>1. list \in Seq(Output) /\ u \in 0 .. Len(list) /\ DOMAIN list = 1 .. Len(list)
  OBVIOUS
<1>2. \A p \in 1 .. Len(list) : p \in P <=> p <= u
  BY <1>1
<1>3. LeftOf(tx, spent) = KeepAt(list, P)
  BY DEF LeftOf
<1> HIDE DEF list, P
<1>4. KeepAt(list, P) = SubSeq(list, 1, u)
  BY <1>1, <1>2, KeepAtStart
<1> QED
  BY <1>3, <1>4 DEF list

(* FindUTXO on a chain without repeats. *)
LEMMA TxScanned ==
  ASSUME NEW scan \in Scan, NEW tx \in Transaction, scan.utxo[tx.id] = << >>
  PROVE  LET next == ScanTx(scan, tx)
         IN  /\ next.spent = scan.spent \cup Spends(tx)
             /\ next.utxo[tx.id] = LeftOf(tx, scan.spent)
             /\ \A other \in TxId : other # tx.id => next.utxo[other] = scan.utxo[other]
<1> DEFINE kept == KeepAt(tx.outs, {p \in DOMAIN tx.outs : <<tx.id, p>> \notin scan.spent})
<1>1. scan.utxo \in Index /\ tx.id \in TxId /\ tx.outs \in Seq(Output)
  BY DEF Scan, Transaction
<1>2. kept \in Seq(Output)
  BY <1>1, KeepAtType
<1>3. << >> \o kept = kept
  <2> HIDE DEF kept
  <2> QED
    BY <1>2
<1>4. ScanTx(scan, tx).utxo = [scan.utxo EXCEPT ![tx.id] = scan.utxo[tx.id] \o kept]
  BY DEF ScanTx
<1> HIDE DEF kept
<1>5. ScanTx(scan, tx).utxo[tx.id] = kept
      /\ \A other \in TxId : other # tx.id => ScanTx(scan, tx).utxo[other] = scan.utxo[other]
  BY <1>1, <1>3, <1>4 DEF Index
<1> QED
  BY <1>5 DEF ScanTx, LeftOf, kept

(* One block of FindUTXO, the later blocks having been scanned. *)
LEMMA BlockScanned ==
  ASSUME NEW c \in Blocks, Repeats(c), NoRepeatIn(c), Linked(c),
         NEW n \in DOMAIN c, NEW scan \in Scan,
         \A k \in DOMAIN c[n] : scan.utxo[c[n][k].id] = << >>,
         \A s : s \in scan.spent <=> \E m \in n + 1 .. Len(c) : \E k \in DOMAIN c[m] : s \in Spends(c[m][k])
  PROVE  LET next == ScanBlock(scan, c[n])
         IN  /\ next \in Scan
             /\ \A s : s \in next.spent <=> s \in scan.spent \/ \E k \in DOMAIN c[n] : s \in Spends(c[n][k])
             /\ \A k \in DOMAIN c[n] : next.utxo[c[n][k].id] = Unspent(c)[c[n][k].id]
             /\ \A id \in TxId : (\A k \in DOMAIN c[n] : c[n][k].id # id) => next.utxo[id] = scan.utxo[id]
<1>0. c[n] \in Seq(Transaction) /\ n \in 1 .. Len(c)
  BY InChain
<1>1. PICK g \in [0 .. Len(c[n]) -> Scan] :
         /\ g[0] = scan /\ ScanBlock(scan, c[n]) = g[Len(c[n])]
         /\ \A k \in 1 .. Len(c[n]) : g[k] = ScanTx(g[k - 1], c[n][k])
  BY <1>0, ScanBlockSteps
<1> DEFINE N == Len(c[n])
           Spent(k) == \A s : s \in g[k].spent <=> s \in scan.spent \/ \E i \in 1 .. k : s \in Spends(c[n][i])
           Done(k) == \A i \in 1 .. k : g[k].utxo[c[n][i].id] = Unspent(c)[c[n][i].id]
           Rest(k) == \A id \in TxId : (\A i \in 1 .. k : c[n][i].id # id) => g[k].utxo[id] = scan.utxo[id]
           T == {k \in 0 .. N : Spent(k) /\ Done(k) /\ Rest(k)}
<1>2. N \in Nat /\ DOMAIN c[n] = 1 .. N
  BY <1>0
<1> HIDE DEF Spent, Done, Rest
<1>3. ASSUME NEW k \in 1 .. N, Spent(k - 1), Done(k - 1), Rest(k - 1)
      PROVE  Spent(k) /\ Done(k) /\ Rest(k)
  <2> DEFINE tx == c[n][k]
  <2>1. /\ k - 1 \in 0 .. N /\ k \in 0 .. N
        /\ k \in 1 .. k /\ \A i \in 1 .. k - 1 : i \in 1 .. k /\ i \in 1 .. N /\ i # k
        /\ \A i \in 1 .. k : i \in 1 .. k - 1 \/ i = k
    BY <1>2
  <2>2. tx \in Transaction /\ tx.id \in TxId /\ tx.outs \in Seq(Output)
    BY <1>2, InChain DEF Transaction
  <2>3. \A i \in 1 .. k - 1 : c[n][i].id # tx.id /\ c[n][i].id \in TxId
    <3>1. ASSUME NEW i \in 1 .. k - 1 PROVE c[n][i].id # tx.id
      BY <1>2, <2>1 DEF NoRepeatIn
    <3>2. \A i \in 1 .. k - 1 : c[n][i].id \in TxId
      BY <1>2, <2>1, InChain
    <3> QED
      BY <3>1, <3>2
  <2>4. g[k] = ScanTx(g[k - 1], tx) /\ g[k - 1] \in Scan
    BY <1>1, <2>1
  <2>5. g[k - 1].utxo[tx.id] = << >>
    BY <1>2, <1>3, <2>2, <2>3 DEF Rest
  <2>6. \A p \in DOMAIN tx.outs : <<tx.id, p>> \in g[k - 1].spent <=> <<tx.id, p>> \in AllSpent(c)
    <3> TAKE p \in DOMAIN tx.outs
    <3> DEFINE s == <<tx.id, p>>
    <3>1. ASSUME s \in g[k - 1].spent PROVE s \in AllSpent(c)
      <4>1. CASE s \in scan.spent
        <5> HIDE DEF s
        <5>1. PICK m \in n + 1 .. Len(c) : \E l \in DOMAIN c[m] : s \in Spends(c[m][l])
          BY <4>1
        <5>2. m \in DOMAIN c
          BY <1>0, <5>1 DEF Blocks
        <5> QED
          BY <5>1, <5>2, InChain
      <4>2. CASE \E i \in 1 .. k - 1 : s \in Spends(c[n][i])
        <5> HIDE DEF s
        <5> QED
          BY <1>2, <2>1, <4>2, InChain
      <4> QED
        BY <1>3, <3>1, <4>1, <4>2 DEF Spent
    <3>2. ASSUME s \in AllSpent(c) PROVE s \in g[k - 1].spent
      <4>0. PICK m \in DOMAIN c : \E l \in DOMAIN c[m] : s \in Spends(c[m][l])
        <5> HIDE DEF s
        <5> QED
          BY <3>2, InChain
      <4>1. PICK l \in DOMAIN c[m] : s \in Spends(c[m][l])
        BY <4>0
      <4>a. PICK o \in 1 .. m - 1 : \E i \in DOMAIN c[o] : s = <<c[o][i].id, s[2]>>
        BY <4>1 DEF Linked
      <4>2. PICK i \in DOMAIN c[o] : s = <<c[o][i].id, s[2]>>
        BY <4>a
      <4>3. m \in 1 .. Len(c) /\ o \in DOMAIN c
        BY InChain, <4>1, <4>2 DEF Blocks
      <4>4. c[o][i].id = tx.id
        BY <4>2
      <4>5. o = n
        BY <1>2, <4>3, <4>4 DEF NoRepeatIn
      <4>6. m \in n + 1 .. Len(c)
        BY <1>0, <4>2, <4>3, <4>5
      <4>7. s \in scan.spent
        <5> HIDE DEF s
        <5> QED
          BY <4>1, <4>6
      <4> HIDE DEF s
      <4> QED
        BY <1>3, <4>7 DEF Spent
    <3> QED
      BY <3>1, <3>2
  <2>7. /\ g[k].spent = g[k - 1].spent \cup Spends(tx)
        /\ g[k].utxo[tx.id] = LeftOf(tx, g[k - 1].spent)
        /\ \A other \in TxId : other # tx.id => g[k].utxo[other] = g[k - 1].utxo[other]
    <3> DEFINE prev == g[k - 1]
    <3> HIDE DEF tx, prev
    <3> QED
      BY <2>2, <2>4, <2>5, TxScanned DEF prev
  <2>8. Spent(k)
    <3> SUFFICES ASSUME NEW s
                 PROVE  s \in g[k].spent <=> s \in scan.spent \/ \E i \in 1 .. k : s \in Spends(c[n][i])
      BY DEF Spent
    <3>1. s \in g[k].spent <=> s \in g[k - 1].spent \/ s \in Spends(c[n][k])
      BY <2>7
    <3>2. s \in g[k - 1].spent <=> s \in scan.spent \/ \E i \in 1 .. k - 1 : s \in Spends(c[n][i])
      BY <1>3 DEF Spent
    <3> QED
      BY <2>1, <3>1, <3>2
  <2>9. g[k].utxo[tx.id] = Unspent(c)[tx.id]
    <3>1. LeftOf(tx, g[k - 1].spent) = LeftOf(tx, AllSpent(c))
      BY <2>6 DEF LeftOf
    <3> QED
      BY <1>2, <2>7, <3>1, UnspentFacts
  <2>10. Done(k)
    BY <1>3, <2>1, <2>3, <2>7, <2>9 DEF Done
  <2>11. Rest(k)
    <3> SUFFICES ASSUME NEW id \in TxId, \A i \in 1 .. k : c[n][i].id # id
                 PROVE  g[k].utxo[id] = scan.utxo[id]
      BY DEF Rest
    <3>1. id # tx.id /\ \A i \in 1 .. k - 1 : c[n][i].id # id
      BY <2>1
    <3> QED
      BY <1>3, <2>7, <3>1 DEF Rest
  <2> QED
    BY <2>8, <2>10, <2>11
<1>4. 0 \in T
  BY <1>1, <1>2 DEF Spent, Done, Rest
<1>5. 0 .. N \subseteq T
  <2>1. \A k \in 1 .. N : k - 1 \in T => k \in T
    BY <1>2, <1>3
  <2> HIDE DEF T, N
  <2> QED
    BY <1>2, <1>4, <2>1, Rounds
<1>6. Spent(N) /\ Done(N) /\ Rest(N) /\ g[N] \in Scan
  <2>1. N \in 0 .. N
    BY <1>2
  <2> QED
    BY <1>1, <1>5, <2>1
<1> QED
  BY <1>1, <1>2, <1>6 DEF Spent, Done, Rest

(* All blocks. *)
LEMMA ChainScanned ==
  ASSUME NEW c \in Blocks, Repeats(c), NoRepeatIn(c), Linked(c)
  PROVE  FindUTXO(c) = Unspent(c)
<1>1. PICK g \in [0 .. Len(c) -> Scan] :
         /\ g[0] = NotScanned /\ FindUTXO(c) = g[Len(c)].utxo
         /\ \A k \in 1 .. Len(c) : g[k] = ScanBlock(g[k - 1], c[Len(c) - k + 1])
  BY FindUTXOSteps DEF Blocks
<1> DEFINE N == Len(c)
           Seen(j) == N - j + 1 .. N
           Spent(j) == \A s : s \in g[j].spent <=> \E n \in Seen(j) : \E k \in DOMAIN c[n] : s \in Spends(c[n][k])
           Done(j) == \A n \in Seen(j) : \A k \in DOMAIN c[n] : g[j].utxo[c[n][k].id] = Unspent(c)[c[n][k].id]
           Rest(j) == \A id \in TxId :
                         (\A n \in Seen(j) : \A k \in DOMAIN c[n] : c[n][k].id # id) => g[j].utxo[id] = << >>
           T == {j \in 0 .. N : Spent(j) /\ Done(j) /\ Rest(j)}
<1>2. N \in Nat /\ DOMAIN c = 1 .. N
  BY DEF Blocks
<1> HIDE DEF Spent, Done, Rest
<1>3. ASSUME NEW j \in 1 .. N, Spent(j - 1), Done(j - 1), Rest(j - 1)
      PROVE  Spent(j) /\ Done(j) /\ Rest(j)
  <2> DEFINE n == N - j + 1
  <2>1. /\ j - 1 \in 0 .. N /\ j \in 0 .. N
        /\ n \in DOMAIN c /\ n \in 1 .. N
    BY <1>2
  <2>2. Seen(j - 1) = n + 1 .. N /\ Seen(j) = {n} \cup (n + 1 .. N) /\ n + 1 .. N \subseteq 1 .. N
        /\ n \notin n + 1 .. N
    BY <1>2
  <2> HIDE DEF Seen, n
  <2>3. g[j] = ScanBlock(g[j - 1], c[n]) /\ g[j - 1] \in Scan
    BY <1>1, <2>1 DEF n
  <2>4. \A k \in DOMAIN c[n] : \A m \in n + 1 .. N : \A l \in DOMAIN c[m] : c[m][l].id # c[n][k].id
    BY <1>2, <2>1, <2>2 DEF NoRepeatIn
  <2>5. \A k \in DOMAIN c[n] : g[j - 1].utxo[c[n][k].id] = << >>
    <3> TAKE k \in DOMAIN c[n]
    <3>1. c[n][k].id \in TxId
      BY <2>1, InChain
    <3> QED
      BY <1>3, <2>2, <2>4, <3>1 DEF Rest
  <2>6. /\ \A s : s \in g[j].spent <=>
              s \in g[j - 1].spent \/ \E k \in DOMAIN c[n] : s \in Spends(c[n][k])
        /\ \A k \in DOMAIN c[n] : g[j].utxo[c[n][k].id] = Unspent(c)[c[n][k].id]
        /\ \A id \in TxId : (\A k \in DOMAIN c[n] : c[n][k].id # id) => g[j].utxo[id] = g[j - 1].utxo[id]
    <3>1. \A s : s \in g[j - 1].spent <=>
             \E m \in n + 1 .. Len(c) : \E k \in DOMAIN c[m] : s \in Spends(c[m][k])
      BY <1>3, <2>2 DEF Spent
    <3> QED
      BY <2>1, <2>3, <2>5, <3>1, BlockScanned
  <2>7. Spent(j)
    <3> SUFFICES ASSUME NEW s
                 PROVE  s \in g[j].spent <=> \E m \in Seen(j) : \E k \in DOMAIN c[m] : s \in Spends(c[m][k])
      BY DEF Spent
    <3>1. s \in g[j - 1].spent <=> \E m \in n + 1 .. N : \E k \in DOMAIN c[m] : s \in Spends(c[m][k])
      BY <1>3, <2>2 DEF Spent
    <3>2. (\E m \in Seen(j) : \E k \in DOMAIN c[m] : s \in Spends(c[m][k])) <=>
             \/ \E k \in DOMAIN c[n] : s \in Spends(c[n][k])
             \/ \E m \in n + 1 .. N : \E k \in DOMAIN c[m] : s \in Spends(c[m][k])
      BY <2>2
    <3> QED
      BY <2>6, <3>1, <3>2
  <2>8. Done(j)
    <3> SUFFICES ASSUME NEW m \in Seen(j), NEW k \in DOMAIN c[m]
                 PROVE  g[j].utxo[c[m][k].id] = Unspent(c)[c[m][k].id]
      BY DEF Done
    <3>1. CASE m = n
      BY <2>6, <3>1
    <3>2. CASE m \in n + 1 .. N
      <4>1. c[m][k].id \in TxId
        BY <1>2, <2>2, <3>2, InChain
      <4>2. g[j].utxo[c[m][k].id] = g[j - 1].utxo[c[m][k].id]
        BY <2>4, <2>6, <3>2, <4>1
      <4> QED
        BY <1>3, <2>2, <3>2, <4>2 DEF Done
    <3> QED
      BY <2>2, <3>1, <3>2
  <2>9. Rest(j)
    <3> SUFFICES ASSUME NEW id \in TxId,
                        \A m \in Seen(j) : \A k \in DOMAIN c[m] : c[m][k].id # id
                 PROVE  g[j].utxo[id] = << >>
      BY DEF Rest
    <3>1. /\ \A m \in Seen(j - 1) : \A k \in DOMAIN c[m] : c[m][k].id # id
          /\ \A k \in DOMAIN c[n] : c[n][k].id # id
      BY <2>2
    <3> QED
      BY <1>3, <2>6, <3>1 DEF Rest
  <2> QED
    BY <2>7, <2>8, <2>9
<1>4. 0 \in T
  <2>1. Seen(0) = {} /\ 0 \in 0 .. N
    BY <1>2
  <2> HIDE DEF Seen
  <2>2. g[0].spent = {} /\ \A id \in TxId : g[0].utxo[id] = << >>
    BY <1>1 DEF NotScanned, NoOutputs
  <2> QED
    BY <2>1, <2>2 DEF Spent, Done, Rest
<1>5. 0 .. N \subseteq T
  <2>1. \A j \in 1 .. N : j - 1 \in T => j \in T
    BY <1>2, <1>3
  <2> HIDE DEF T, N
  <2> QED
    BY <1>2, <1>4, <2>1, Rounds
<1>6. Done(N) /\ Rest(N) /\ g[N] \in Scan /\ Seen(N) = DOMAIN c
  <2>1. N \in 0 .. N /\ Seen(N) = DOMAIN c
    BY <1>2
  <2> HIDE DEF Spent, Done, Rest, Seen
  <2> QED
    BY <1>1, <1>5, <2>1
<1>7. ASSUME NEW id \in TxId PROVE g[N].utxo[id] = Unspent(c)[id]
  <2>1. CASE \E n \in DOMAIN c : \E k \in DOMAIN c[n] : c[n][k].id = id
    BY <1>6, <2>1 DEF Done
  <2>2. CASE \A n \in DOMAIN c : \A k \in DOMAIN c[n] : c[n][k].id # id
    BY <1>6, <2>2, UnspentFacts DEF Rest, Seen
  <2> QED
    BY <2>1, <2>2
<1>8. g[N].utxo = [id \in TxId |-> g[N].utxo[id]] /\ Unspent(c) = [id \in TxId |-> Unspent(c)[id]]
  <2>1. g[N].utxo \in Index
    BY <1>6 DEF Scan
  <2> QED
    BY <2>1 DEF Index, Unspent
<1> QED
  BY <1>1, <1>7, <1>8

(* A block more. *)
LEMMA BlockAdded ==
  ASSUME NEW c \in Blocks, NEW block \in Seq(Transaction)
  PROVE  LET next == Append(c, block)
         IN  /\ next \in Blocks /\ Len(next) = Len(c) + 1 /\ Len(c) \in Nat
             /\ DOMAIN c = 1 .. Len(c) /\ DOMAIN next = 1 .. Len(c) + 1
             /\ next[Len(c) + 1] = block /\ Last(next) = block /\ Front(next) = c
             /\ \A n \in 1 .. Len(c) : next[n] = c[n]
             /\ \A tx : tx \in Txs(next) <=> tx \in Txs(c) \/ tx \in ToSet(block)
<1> DEFINE next == Append(c, block)
<1>1. /\ next \in Blocks /\ Len(next) = Len(c) + 1 /\ Len(c) \in Nat
      /\ DOMAIN c = 1 .. Len(c) /\ DOMAIN next = 1 .. Len(c) + 1
      /\ next[Len(c) + 1] = block /\ Last(next) = block
      /\ \A n \in 1 .. Len(c) : next[n] = c[n]
  BY DEF Blocks, Last
<1>2. Front(next) = c
  <2>1. Front(next) = SubSeq(next, 1, Len(c))
    BY <1>1 DEF Front
  <2> QED
    BY <2>1 DEF Blocks
<1> HIDE DEF next
<1>3. ASSUME NEW tx PROVE tx \in Txs(next) <=> tx \in Txs(c) \/ tx \in ToSet(block)
  <2>1. tx \in Txs(next) <=> \E n \in 1 .. Len(c) + 1 : tx \in ToSet(next[n])
    BY <1>1 DEF Txs
  <2>2. tx \in Txs(c) <=> \E n \in 1 .. Len(c) : tx \in ToSet(next[n])
    BY <1>1 DEF Txs
  <2>3. \A n \in 1 .. Len(c) + 1 : n \in 1 .. Len(c) \/ n = Len(c) + 1
    BY <1>1
  <2>4. \A n \in 1 .. Len(c) : n \in 1 .. Len(c) + 1
    BY <1>1
  <2>5. Len(c) + 1 \in 1 .. Len(c) + 1
    BY <1>1
  <2> QED
    BY <1>1, <2>1, <2>2, <2>3, <2>4, <2>5
<1> QED
  BY <1>1, <1>2, <1>3 DEF next

-----------------------------------------------------------------------------
(* The types, the ids, and what the chain's transactions spend. *)
Types ==
    /\ chain \in Blocks /\ Len(chain) <= MaxBlocks
    /\ index \in Index
    /\ step \in {"idle", "created", "cleared", "mined", "panicked"}
    /\ synced \in BOOLEAN
    /\ chain = << >> => step = "idle" /\ index = NoOutputs /\ hashOrder = << >>

Hashes ==
    /\ hashOrder \in Seq(TxId) /\ Injective(hashOrder)
    /\ chain # << >> => Len(hashOrder) < 2 * Len(chain)
    /\ ToSet(hashOrder) = 1 .. Len(hashOrder)
    /\ \A id : id \in ToSet(hashOrder) <=> \E tx \in Txs(chain) : tx.id = id

ChainInv == Types /\ Hashes /\ Linked(chain) /\ Repeats(chain)

LEMMA FiniteIds ==
  ASSUME NEW ids \in SUBSET TxId, ids # {}, NEW order \in SetToSeqs(ids)
  PROVE  order \in Seq(TxId) /\ Injective(order) /\ 1 \in DOMAIN order /\ ToSet(order) \subseteq ids
<1>1. IsFiniteSet(ids)
  <2>1. IsFiniteSet(TxId)
    BY BoundsAssumption, FS_Interval
  <2> QED
    BY <2>1, FS_Subset
<1>2. Cardinality(ids) \in Nat /\ Cardinality(ids) # 0
  BY <1>1, FS_CardinalityType, FS_EmptySet
<1>3. order \in [1 .. Cardinality(ids) -> ids]
      /\ \A i, j \in 1 .. Cardinality(ids) : i # j => order[i] # order[j]
  BY DEF SetToSeqs
<1>4. order \in Seq(TxId) /\ DOMAIN order = 1 .. Cardinality(ids)
  <2>1. order \in Seq(ids)
    BY <1>2, <1>3
  <2> QED
    BY <1>3, <2>1
<1> QED
  BY <1>2, <1>3, <1>4 DEF Injective, ToSet

(* send picks outputs that the index offers. *)
LEMMA PaymentMade ==
  ASSUME ChainInv, NEW from \in Owner, NEW to \in Owner, NEW amount \in Amounts,
         NEW pick, pick = FindSpendableOutputs(index, hashOrder, from, amount),
         pick.value >= amount, NEW order \in SetToSeqs({id \in TxId : pick.outs[id] # << >>})
  PROVE  LET ins  == InputsOf(pick.outs, order, from)
             outs == OutputsOf(pick.value, amount, from, to)
         IN  /\ ins \in Seq(Input) /\ ins # << >> /\ Ascending(ins)
             /\ \A j \in DOMAIN ins : ins[j].id \in ToSet(hashOrder)
                                      /\ ins[j].out \in 1 .. Len(index[ins[j].id])
             /\ outs \in Seq(Output)
<1> DEFINE ids == {id \in TxId : pick.outs[id] # << >>}
           ins == InputsOf(pick.outs, order, from)
<1>1. amount \in Nat \ {0}
  BY BoundsAssumption
<1>2. /\ pick \in Picks /\ SomePicked(pick)
      /\ \A id \in TxId : /\ Rising(pick.outs[id], Len(index[id]))
                          /\ id \notin ToSet(hashOrder) => pick.outs[id] = << >>
  BY <1>1, Spendable DEF ChainInv, Types, Hashes
<1>3. pick.value \in Nat /\ pick.outs \in [TxId -> Seq(Nat)]
  BY <1>2 DEF Picks
<1>4. ids # {}
  BY <1>1, <1>2, <1>3 DEF SomePicked
<1>5. order \in Seq(TxId) /\ Injective(order) /\ 1 \in DOMAIN order /\ ToSet(order) \subseteq ids
  <2>1. ids \in SUBSET TxId /\ order \in SetToSeqs(ids)
    OBVIOUS
  <2> HIDE DEF ids
  <2> QED
    BY <1>4, <2>1, FiniteIds
<1>6. \A k \in DOMAIN order : order[k] \in ids
  BY <1>5 DEF ToSet
<1>7. /\ ins \in Seq(Input) /\ Ascending(ins) /\ Names(ins, pick.outs, order, from)
      /\ (\E k \in DOMAIN order : pick.outs[order[k]] # << >>) => ins # << >>
  <2>1. \A id \in TxId : Rises(pick.outs[id])
    BY <1>2 DEF Rising, Rises
  <2> DEFINE picked == pick.outs
  <2>2. picked \in [TxId -> Seq(Nat)] /\ \A id \in TxId : Rises(picked[id])
    BY <1>3, <2>1
  <2> HIDE DEF picked
  <2>3. LET made == InputsOf(picked, order, from)
        IN  /\ made \in Seq(Input) /\ Ascending(made) /\ Names(made, picked, order, from)
            /\ (\E k \in DOMAIN order : picked[order[k]] # << >>) => made # << >>
    BY <1>5, <2>2, InputsMade
  <2> QED
    BY <2>3 DEF picked
<1> HIDE DEF ins
<1>8. ins # << >>
  BY <1>5, <1>6, <1>7
<1>9. ASSUME NEW j \in DOMAIN ins
      PROVE  ins[j].id \in ToSet(hashOrder) /\ ins[j].out \in 1 .. Len(index[ins[j].id])
  <2>1. PICK k \in DOMAIN order : \E q \in DOMAIN pick.outs[order[k]] :
           ins[j] = [id |-> order[k], out |-> pick.outs[order[k]][q], key |-> from]
    BY <1>7 DEF Names
  <2>2. PICK q \in DOMAIN pick.outs[order[k]] :
           ins[j] = [id |-> order[k], out |-> pick.outs[order[k]][q], key |-> from]
    BY <2>1
  <2>3. order[k] \in TxId /\ pick.outs[order[k]] # << >>
    BY <1>6
  <2>4. ins[j].id = order[k] /\ ins[j].out = pick.outs[order[k]][q]
    BY <2>2
  <2> QED
    BY <1>2, <2>3, <2>4 DEF Rising
<1>10. OutputsOf(pick.value, amount, from, to) \in Seq(Output)
  <2>1. [value |-> amount, owner |-> to] \in Output
    BY <1>1 DEF Output
  <2>2. pick.value > amount => [value |-> pick.value - amount, owner |-> from] \in Output
    <3> HAVE pick.value > amount
    <3>1. pick.value - amount \in Nat \ {0}
      BY <1>1, <1>3
    <3> QED
      BY <3>1 DEF Output
  <2> QED
    BY <2>1, <2>2 DEF OutputsOf
<1> QED
  BY <1>7, <1>8, <1>9, <1>10 DEF ins

LEMMA CoinBaseFacts ==
  ASSUME NEW id \in TxId, NEW to \in Owner
  PROVE  /\ CoinBaseTx(id, to) \in Transaction /\ CoinBaseTx(id, to).id = id
         /\ IsCoinBase(CoinBaseTx(id, to)) /\ Spends(CoinBaseTx(id, to)) = {}
<1> DEFINE cb == CoinBaseTx(id, to)
<1>1. cb.id = id /\ IsCoinBase(cb)
  BY DEF CoinBaseTx, IsCoinBase
<1>2. cb \in Transaction
  <2>1. [id |-> NoTx, out |-> 0, key |-> to] \in Input /\ [value |-> Reward, owner |-> to] \in Output
    BY RewardAssumption DEF Input, Output
  <2>2. /\ <<[id |-> NoTx, out |-> 0, key |-> to]>> \in Seq(Input)
        /\ <<[value |-> Reward, owner |-> to]>> \in Seq(Output)
    BY <2>1
  <2> QED
    BY <2>2 DEF CoinBaseTx, Transaction
<1> QED
  BY <1>1, <1>2 DEF Spends

LEMMA PlacedOnce ==
  ASSUME NEW order \in Seq(TxId), Injective(order), NEW id \in TxId, NEW o \in Placed(order, id)
  PROVE  /\ o \in Seq(TxId) /\ Injective(o) /\ ToSet(o) = ToSet(order) \cup {id}
         /\ Len(o) = IF id \in ToSet(order) THEN Len(order) ELSE Len(order) + 1
<1>1. CASE id \in ToSet(order)
  <2>1. o = order
    BY <1>1 DEF Placed
  <2> QED
    BY <1>1, <2>1
<1>2. CASE id \notin ToSet(order)
  <2>1. PICK k \in 1 .. Len(order) + 1 : o = InsertAt(order, k, id)
    <3>1. Len(order) \in Nat
      OBVIOUS
    <3>2. {Len(order) + 1} \subseteq 1 .. Len(order) + 1
      BY <3>1
    <3> QED
      BY <1>2, <3>2 DEF Placed
  <2> QED
    BY <1>2, <2>1, Inserted
<1> QED
  BY <1>1, <1>2

(* The transaction that a send makes: every input names an output that the *)
(* index offers.                                                           *)
Offered(tx) ==
    /\ tx \in Transaction /\ tx.ins # << >> /\ Ascending(tx.ins)
    /\ \A j \in DOMAIN tx.ins : tx.ins[j].id \in ToSet(hashOrder)
                                /\ tx.ins[j].out \in 1 .. Len(index[tx.ins[j].id])

(* What send does, with the transaction it makes. *)
LEMMA Sent ==
  ASSUME ChainInv, NEW from \in Owner, NEW to \in Owner, NEW amount \in Amounts,
         Send(from, to, amount)
  PROVE  /\ UNCHANGED <<index, synced>> /\ step = "idle" /\ Len(chain) < MaxBlocks /\ chain # << >>
         /\ \E tx : /\ Offered(tx)
                    /\ tx.id = Len(hashOrder) + 2 \/ tx \in Txs(chain)
                    /\ \/ /\ ~Resolves(chain, tx)
                          /\ step' = "panicked" /\ UNCHANGED <<chain, hashOrder>>
                       \/ /\ Resolves(chain, tx) /\ step' = "mined"
                          /\ chain' = Append(chain, <<CoinBaseTx(Len(hashOrder) + 1, from), tx>>)
                          /\ hashOrder' \in UNION {Placed(o, tx.id) :
                                                      o \in Placed(hashOrder, Len(hashOrder) + 1)}
<1> DEFINE pick == FindSpendableOutputs(index, hashOrder, from, amount)
           ids  == {id \in TxId : pick.outs[id] # << >>}
           Ins(order) == InputsOf(pick.outs, order, from)
           outs == OutputsOf(pick.value, amount, from, to)
           Tx(order) == [id |-> IdOf(Ins(order), outs), ins |-> Ins(order), outs |-> outs]
           cb == CoinBaseTx(Len(hashOrder) + 1, from)
           Mined(tx) == /\ Resolves(chain, tx) /\ step' = "mined" /\ chain' = Append(chain, <<cb, tx>>)
                        /\ hashOrder' \in UNION {Placed(o, tx.id) : o \in Placed(hashOrder, cb.id)}
           Panicked(tx) == ~Resolves(chain, tx) /\ step' = "panicked" /\ UNCHANGED <<chain, hashOrder>>
<1>1. /\ UNCHANGED <<index, synced>> /\ step = "idle" /\ Len(chain) < MaxBlocks /\ chain # << >>
      /\ pick.value >= amount
      /\ \E order \in SetToSeqs(ids) : Mined(Tx(order)) \/ Panicked(Tx(order))
  BY DEF Send
<1>2. PICK order \in SetToSeqs(ids) : Mined(Tx(order)) \/ Panicked(Tx(order))
  BY <1>1
<1> DEFINE ins == Ins(order)
           tx == Tx(order)
<1>3. /\ ins \in Seq(Input) /\ ins # << >> /\ Ascending(ins) /\ outs \in Seq(Output)
      /\ \A j \in DOMAIN ins : ins[j].id \in ToSet(hashOrder) /\ ins[j].out \in 1 .. Len(index[ins[j].id])
  BY <1>1, PaymentMade
<1>4. tx = [id |-> IdOf(ins, outs), ins |-> ins, outs |-> outs]
  OBVIOUS
<1>5. cb.id = Len(hashOrder) + 1
  BY DEF CoinBaseTx
<1>6. Mined(tx) \/ Panicked(tx)
  BY <1>2
<1> HIDE DEF ins, outs, tx, cb
<1>7. tx.id = Len(hashOrder) + 2 \/ tx \in Txs(chain)
  <2> DEFINE same == {t \in Txs(chain) : t.ins = ins /\ t.outs = outs}
  <2>1. CASE same = {}
    BY <1>4, <2>1 DEF IdOf
  <2>2. CASE same # {}
    <3>1. PICK t \in same : IdOf(ins, outs) = t.id
      BY <2>2 DEF IdOf
    <3>2. t \in Transaction
      BY <3>1, InChain DEF ChainInv, Types
    <3>3. tx = t
      BY <1>4, <3>1, <3>2 DEF Transaction
    <3> QED
      BY <3>1, <3>3
  <2> QED
    BY <2>1, <2>2
<1>8. tx \in Transaction
  <2>1. CASE tx \in Txs(chain)
    BY <2>1, InChain DEF ChainInv, Types
  <2>2. CASE tx.id = Len(hashOrder) + 2
    <3>1. Len(hashOrder) \in Nat /\ Len(chain) \in Nat /\ Len(hashOrder) < 2 * Len(chain)
          /\ Len(chain) < MaxBlocks /\ MaxBlocks \in Nat
      BY <1>1, BoundsAssumption DEF ChainInv, Types, Hashes, Blocks
    <3>2. tx.id \in TxId
      BY <2>2, <3>1, BoundsAssumption
    <3> QED
      BY <1>3, <1>4, <3>2 DEF Transaction
  <2> QED
    BY <1>7, <2>1, <2>2
<1>9. Offered(tx)
  BY <1>3, <1>4, <1>8 DEF Offered
<1>10. tx.id = Len(hashOrder) + 2 \/ tx \in Txs(chain)
  BY <1>7
<1>11. \/ Panicked(tx)
       \/ /\ Resolves(chain, tx) /\ step' = "mined"
          /\ chain' = Append(chain, <<CoinBaseTx(Len(hashOrder) + 1, from), tx>>)
          /\ hashOrder' \in UNION {Placed(o, tx.id) : o \in Placed(hashOrder, Len(hashOrder) + 1)}
  BY <1>5, <1>6 DEF cb
<1> QED
  BY <1>1, <1>9, <1>10, <1>11

LEMMA PaymentSpends ==
  ASSUME ChainInv, NEW tx, Offered(tx)
  PROVE  /\ ~IsCoinBase(tx) /\ Spends(tx) # {}
         /\ \A s : s \in Spends(tx) <=> \E j \in DOMAIN tx.ins : s = <<tx.ins[j].id, tx.ins[j].out>>
         /\ \A j \in DOMAIN tx.ins : tx.ins[j].id \in TxId
<1>1. \A id \in ToSet(hashOrder) : id \in TxId
  <2>1. \A k \in DOMAIN hashOrder : hashOrder[k] \in TxId
    BY DEF ChainInv, Hashes
  <2> QED
    BY <2>1 DEF ToSet
<1>2. \A j \in DOMAIN tx.ins : tx.ins[j].id \in TxId /\ tx.ins[j].id # NoTx
  BY <1>1, RewardAssumption DEF Offered
<1>3. 1 \in DOMAIN tx.ins /\ DOMAIN tx.ins = 1 .. Len(tx.ins)
  <2>1. tx.ins \in Seq(Input) /\ tx.ins # << >>
    BY DEF Offered, Transaction
  <2> QED
    BY <2>1
<1>4. ~IsCoinBase(tx)
  BY <1>2, <1>3 DEF IsCoinBase
<1>5. \A s : s \in Spends(tx) <=> \E j \in DOMAIN tx.ins : s = <<tx.ins[j].id, tx.ins[j].out>>
  BY <1>4 DEF Spends, ToSet
<1> QED
  BY <1>2, <1>3, <1>4, <1>5

(* A chain stays linked, and repeats only whole transactions, when a block of
   a new coinbase and a payment whose inputs resolve is added. *)
LEMMA Extended ==
  ASSUME ChainInv, chain # << >>, NEW cb \in Transaction, Spends(cb) = {}, cb.id = Len(hashOrder) + 1,
         NEW tx, Offered(tx), Resolves(chain, tx), tx.id = Len(hashOrder) + 2 \/ tx \in Txs(chain)
  PROVE  /\ Linked(Append(chain, <<cb, tx>>)) /\ Repeats(Append(chain, <<cb, tx>>))
         /\ \A t \in Txs(chain) : t.id \in 1 .. Len(hashOrder)
         /\ cb.id # tx.id
<1> DEFINE next == Append(chain, <<cb, tx>>)
           N == Len(chain)
<1>0. /\ chain \in Blocks /\ Linked(chain) /\ Repeats(chain) /\ Len(hashOrder) \in Nat
      /\ <<cb, tx>> \in Seq(Transaction) /\ tx \in Transaction
  BY DEF ChainInv, Types, Hashes, Offered
<1>1. /\ N \in Nat /\ DOMAIN chain = 1 .. N /\ DOMAIN next = 1 .. N + 1
      /\ next[N + 1] = <<cb, tx>> /\ \A n \in 1 .. N : next[n] = chain[n]
  BY <1>0, BlockAdded
<1>2. DOMAIN <<cb, tx>> = {1, 2} /\ <<cb, tx>>[1] = cb /\ <<cb, tx>>[2] = tx
  OBVIOUS
<1> HIDE DEF next
<1>3. \A n \in 1 .. N + 1 : n \in 1 .. N \/ n = N + 1
  BY <1>1
<1>4. \A t \in Txs(chain) : t.id \in 1 .. Len(hashOrder)
  BY DEF ChainInv, Hashes
<1>5. \A n \in 1 .. N : \A k \in DOMAIN chain[n] : chain[n][k] \in Txs(chain)
                                                   /\ chain[n][k].id \in 1 .. Len(hashOrder)
  BY <1>0, <1>1, <1>4, InChain
<1>6. cb.id # tx.id /\ cb.id \notin 1 .. Len(hashOrder)
      /\ (tx.id \in 1 .. Len(hashOrder) => tx \in Txs(chain))
  BY <1>0, <1>4
<1>7. Spends(tx) # {} /\ \A s \in Spends(tx) : \E j \in DOMAIN tx.ins : s = <<tx.ins[j].id, tx.ins[j].out>>
  BY PaymentSpends
<1>8. ASSUME NEW n \in DOMAIN next, NEW k \in DOMAIN next[n], NEW s \in Spends(next[n][k])
      PROVE  \E m \in 1 .. n - 1 : \E l \in DOMAIN next[m] :
                s = <<next[m][l].id, s[2]>> /\ s[2] \in DOMAIN next[m][l].outs
  <2>1. CASE n \in 1 .. N
    <3>1. PICK m \in 1 .. n - 1 : \E l \in DOMAIN chain[m] :
             s = <<chain[m][l].id, s[2]>> /\ s[2] \in DOMAIN chain[m][l].outs
      BY <1>0, <1>1, <1>8, <2>1 DEF Linked
    <3>2. m \in 1 .. N
      BY <1>1, <2>1
    <3> QED
      BY <1>1, <3>1, <3>2
  <2>2. CASE n = N + 1
    <3>1. s \in Spends(tx)
      BY <1>1, <1>2, <1>8, <2>2
    <3>2. PICK j \in DOMAIN tx.ins : s = <<tx.ins[j].id, tx.ins[j].out>>
      BY <1>7, <3>1
    <3>3. s = <<s[1], s[2]>>
      BY <3>2
    <3>4. HasTransaction(chain, s[1]) /\ s[2] \in DOMAIN FindTransaction(chain, s[1]).outs
      BY <3>1 DEF Resolves
    <3>5. PICK t \in Txs(chain) : t.id = s[1]
      BY <3>4 DEF HasTransaction
    <3>6. FindTransaction(chain, s[1]) = t
      BY <1>0, <3>5, Found
    <3>7. PICK m \in DOMAIN chain : \E l \in DOMAIN chain[m] : t = chain[m][l]
      BY <1>0, InChain
    <3>8. m \in 1 .. n - 1 /\ next[m] = chain[m]
      BY <1>1, <2>2
    <3> QED
      BY <3>3, <3>4, <3>5, <3>6, <3>7, <3>8
  <2> QED
    BY <1>1, <1>3, <2>1, <2>2
<1>9. ASSUME NEW n \in DOMAIN next, NEW m \in DOMAIN next,
             NEW k \in DOMAIN next[n], NEW l \in DOMAIN next[m], next[n][k].id = next[m][l].id
      PROVE  next[n][k] = next[m][l] /\ (n = m => k = l) /\ (n # m => Spends(next[n][k]) # {})
  <2>1. CASE n \in 1 .. N /\ m \in 1 .. N
    BY <1>0, <1>1, <1>9, <2>1 DEF Repeats
  <2>2. CASE n = N + 1 /\ m = N + 1
    BY <1>1, <1>2, <1>6, <1>9, <2>2
  <2>3. CASE n \in 1 .. N /\ m = N + 1
    <3>1. next[n][k] \in Txs(chain) /\ next[n][k].id \in 1 .. Len(hashOrder) /\ n # m
      BY <1>1, <1>5, <2>3
    <3>2. next[m][l] = tx /\ tx \in Txs(chain)
      BY <1>1, <1>2, <1>6, <1>9, <2>3, <3>1
    <3>3. next[n][k] = tx
      BY <1>0, <1>9, <3>1, <3>2, Found
    <3> QED
      BY <1>7, <3>1, <3>2, <3>3
  <2>4. CASE n = N + 1 /\ m \in 1 .. N
    <3>1. next[m][l] \in Txs(chain) /\ next[m][l].id \in 1 .. Len(hashOrder) /\ n # m
      BY <1>1, <1>5, <2>4
    <3>2. next[n][k] = tx /\ tx \in Txs(chain)
      BY <1>1, <1>2, <1>6, <1>9, <2>4, <3>1
    <3>3. next[m][l] = tx
      BY <1>0, <1>9, <3>1, <3>2, Found
    <3> QED
      BY <1>7, <3>1, <3>2, <3>3
  <2> QED
    BY <1>1, <1>3, <2>1, <2>2, <2>3, <2>4
<1>10. Linked(next)
  BY <1>8 DEF Linked
<1>11. Repeats(next)
  BY <1>9 DEF Repeats
<1> QED
  BY <1>4, <1>6, <1>10, <1>11 DEF next

(* ChainInv holds at the start and through every step. *)
LEMMA InitChain == Init => ChainInv
<1> SUFFICES ASSUME Init PROVE ChainInv
  OBVIOUS
<1>1. chain = << >> /\ index = NoOutputs /\ hashOrder = << >> /\ step = "idle" /\ synced = FALSE
  BY DEF Init
<1>2. Types
  <2>1. chain \in Blocks /\ Len(chain) = 0
    BY <1>1 DEF Blocks
  <2>2. 0 <= MaxBlocks
    BY BoundsAssumption
  <2>3. index \in Index
    BY <1>1, EmptyIndex
  <2> QED
    BY <1>1, <2>1, <2>2, <2>3 DEF Types
<1>3. Txs(chain) = {} /\ ToSet(hashOrder) = {} /\ Len(hashOrder) = 0 /\ DOMAIN chain = {}
  BY <1>1 DEF Txs, ToSet
<1>4. Hashes
  <2>1. hashOrder \in Seq(TxId) /\ Injective(hashOrder) /\ 1 .. Len(hashOrder) = {}
    BY <1>1, <1>3 DEF Injective
  <2> QED
    BY <1>1, <1>3, <2>1 DEF Hashes
<1> QED
  BY <1>2, <1>3, <1>4 DEF ChainInv, Linked, Repeats

LEMMA SendChain ==
  ASSUME ChainInv, NEW from \in Owner, NEW to \in Owner, NEW amount \in Amounts,
         Send(from, to, amount)
  PROVE  ChainInv'
<1>0. /\ UNCHANGED <<index, synced>> /\ step = "idle" /\ Len(chain) < MaxBlocks /\ chain # << >>
      /\ index \in Index /\ synced \in BOOLEAN /\ chain \in Blocks /\ Len(chain) \in Nat
      /\ MaxBlocks \in Nat
  BY Sent, BoundsAssumption DEF ChainInv, Types, Blocks
<1> DEFINE id == Len(hashOrder) + 1
           cb == CoinBaseTx(id, from)
<1>1. PICK tx : /\ Offered(tx)
                /\ tx.id = Len(hashOrder) + 2 \/ tx \in Txs(chain)
                /\ \/ /\ ~Resolves(chain, tx)
                      /\ step' = "panicked" /\ UNCHANGED <<chain, hashOrder>>
                   \/ /\ Resolves(chain, tx) /\ step' = "mined" /\ chain' = Append(chain, <<cb, tx>>)
                      /\ hashOrder' \in UNION {Placed(o, tx.id) : o \in Placed(hashOrder, id)}
  BY Sent
<1>2. CASE step' = "panicked" /\ UNCHANGED <<chain, hashOrder>>
  BY <1>0, <1>2 DEF ChainInv, Types, Hashes, Linked, Repeats, Txs
<1>3. CASE /\ Resolves(chain, tx) /\ step' = "mined" /\ chain' = Append(chain, <<cb, tx>>)
           /\ hashOrder' \in UNION {Placed(o, tx.id) : o \in Placed(hashOrder, id)}
  <2>1. /\ Len(hashOrder) \in Nat /\ Len(hashOrder) < 2 * Len(chain) /\ ToSet(hashOrder) = 1 .. Len(hashOrder)
        /\ hashOrder \in Seq(TxId) /\ Injective(hashOrder)
        /\ \A i : i \in ToSet(hashOrder) <=> \E t \in Txs(chain) : t.id = i
    BY <1>0 DEF ChainInv, Hashes
  <2>2. id \in TxId /\ id \notin ToSet(hashOrder)
    <3>1. id <= 2 * MaxBlocks /\ id \in Nat \ {0} /\ id \notin 1 .. Len(hashOrder)
      BY <1>0, <2>1
    <3> QED
      BY <2>1, <3>1, BoundsAssumption
  <2> HIDE DEF id
  <2>3. cb \in Transaction /\ cb.id = id /\ Spends(cb) = {}
    BY <2>2, CoinBaseFacts
  <2> HIDE DEF cb
  <2>4. /\ Linked(chain') /\ Repeats(chain')
        /\ \A t \in Txs(chain) : t.id \in 1 .. Len(hashOrder)
        /\ cb.id # tx.id
    BY <1>0, <1>1, <1>3, <2>3, Extended DEF id
  <2>5. tx \in Transaction /\ tx.id \in TxId /\ <<cb, tx>> \in Seq(Transaction)
    BY <1>1, <2>3 DEF Offered, Transaction
  <2>6. /\ chain' \in Blocks /\ Len(chain') = Len(chain) + 1
        /\ \A t : t \in Txs(chain') <=> t \in Txs(chain) \/ t \in ToSet(<<cb, tx>>)
    BY <1>0, <1>3, <2>5, BlockAdded
  <2>7. ToSet(<<cb, tx>>) = {cb, tx}
    <3>1. DOMAIN <<cb, tx>> = {1, 2} /\ <<cb, tx>>[1] = cb /\ <<cb, tx>>[2] = tx
      OBVIOUS
    <3> QED
      BY <3>1 DEF ToSet
  <2>8. PICK o \in Placed(hashOrder, id) : hashOrder' \in Placed(o, tx.id)
    BY <1>3
  <2>9. /\ o \in Seq(TxId) /\ Injective(o) /\ ToSet(o) = ToSet(hashOrder) \cup {id}
        /\ Len(o) = Len(hashOrder) + 1
    BY <2>1, <2>2, <2>8, PlacedOnce
  <2>10. /\ hashOrder' \in Seq(TxId) /\ Injective(hashOrder') /\ ToSet(hashOrder') = ToSet(o) \cup {tx.id}
         /\ Len(hashOrder') = IF tx.id \in ToSet(o) THEN Len(o) ELSE Len(o) + 1
    BY <2>5, <2>8, <2>9, PlacedOnce
  <2>11. /\ Len(hashOrder') <= Len(hashOrder) + 2
         /\ ToSet(hashOrder') = 1 .. Len(hashOrder')
    <3>1. CASE tx.id = Len(hashOrder) + 2
      <4>1. tx.id \notin ToSet(o)
        BY <2>1, <2>9, <3>1 DEF id
      <4>2. Len(hashOrder') = Len(hashOrder) + 2
        BY <2>1, <2>9, <2>10, <4>1
      <4>3. ToSet(hashOrder') = (1 .. Len(hashOrder)) \cup {Len(hashOrder) + 1, Len(hashOrder) + 2}
        BY <2>1, <2>9, <2>10, <3>1 DEF id
      <4> QED
        BY <2>1, <4>2, <4>3
    <3>2. CASE tx \in Txs(chain)
      <4>1. tx.id \in 1 .. Len(hashOrder)
        BY <2>4, <3>2
      <4>2. Len(hashOrder') = Len(hashOrder) + 1
        BY <2>1, <2>9, <2>10, <4>1
      <4>3. ToSet(hashOrder') = (1 .. Len(hashOrder)) \cup {Len(hashOrder) + 1}
        BY <2>1, <2>9, <2>10, <4>1 DEF id
      <4> QED
        BY <2>1, <4>2, <4>3
    <3> QED
      BY <1>1, <3>1, <3>2
  <2>12. \A i : i \in ToSet(hashOrder') <=> \E t \in Txs(chain') : t.id = i
    <3>1. \A i : i \in ToSet(hashOrder') <=> i \in ToSet(hashOrder) \/ i = cb.id \/ i = tx.id
      BY <2>3, <2>9, <2>10
    <3> QED
      BY <2>1, <2>6, <2>7, <3>1
  <2>13. Hashes'
    <3>1. Len(hashOrder') < 2 * Len(chain')
      <4>1. Len(hashOrder') \in Nat
        BY <2>10
      <4> QED
        BY <1>0, <2>1, <2>6, <2>11, <4>1
    <3> QED
      BY <2>10, <2>11, <2>12, <3>1 DEF Hashes
  <2>14. Types'
    <3>1. chain' # << >> /\ Len(chain') <= MaxBlocks
      BY <1>0, <2>6
    <3> QED
      BY <1>0, <1>3, <2>6, <3>1 DEF Types
  <2> QED
    BY <2>4, <2>13, <2>14 DEF ChainInv
<1> QED
  BY <1>1, <1>2, <1>3

LEMMA Scanned ==
  ASSUME NEW c \in Blocks
  PROVE  FindUTXO(c) \in Index
<1>1. PICK g \in [0 .. Len(c) -> Scan] : FindUTXO(c) = g[Len(c)].utxo
  BY FindUTXOSteps DEF Blocks
<1>2. Len(c) \in 0 .. Len(c)
  BY DEF Blocks
<1>3. g[Len(c)] \in Scan
  BY <1>1, <1>2
<1> QED
  BY <1>1, <1>3 DEF Scan

(* Reindex on a cleared index writes the whole scan. *)
LEMMA Filled ==
  ASSUME ChainInv, FillIndex
  PROVE  /\ index' \in Index
         /\ index = NoOutputs => index' = FindUTXO(chain)
<1> DEFINE utxo == FindUTXO(chain)
<1>1. utxo \in Index /\ index \in Index
  BY Scanned DEF ChainInv, Types
<1> HIDE DEF utxo
<1>2. index' = [id \in TxId |-> IF utxo[id] = << >> THEN index[id] ELSE utxo[id]]
  BY DEF FillIndex, utxo
<1>3. index' \in Index
  BY <1>1, <1>2 DEF Index
<1>4. ASSUME index = NoOutputs PROVE index' = utxo
  <2>1. \A id \in TxId : index'[id] = utxo[id]
    BY <1>2, <1>4 DEF NoOutputs
  <2> QED
    BY <1>1, <1>3, <2>1 DEF Index
<1> QED
  BY <1>3, <1>4 DEF utxo

LEMMA ChainStep == ChainInv /\ [Next]_vars => ChainInv'
<1> SUFFICES ASSUME ChainInv, [Next]_vars PROVE ChainInv'
  OBVIOUS
<1>0. Types /\ Hashes /\ Linked(chain) /\ Repeats(chain)
  BY DEF ChainInv
<1>1. ASSUME NEW o \in Owner, CreateChain(o) PROVE ChainInv'
  <2> DEFINE cb == CoinBaseTx(1, o)
  <2>1. 1 \in TxId /\ MaxBlocks \in Nat \ {0}
    BY BoundsAssumption
  <2>2. cb \in Transaction /\ cb.id = 1 /\ Spends(cb) = {}
    BY <2>1, CoinBaseFacts
  <2>3. /\ chain' = <<<<cb>>>> /\ hashOrder' = <<1>> /\ step' = "created"
        /\ UNCHANGED <<index, synced>>
    BY <1>1 DEF CreateChain
  <2> HIDE DEF cb
  <2>4. /\ chain' \in Blocks /\ Len(chain') = 1 /\ DOMAIN chain' = {1} /\ DOMAIN chain'[1] = {1}
        /\ chain'[1][1] = cb /\ chain' # << >>
    BY <2>2, <2>3 DEF Blocks
  <2>5. \A t : t \in Txs(chain') <=> t = cb
    BY <2>4, InChain
  <2>6. /\ hashOrder' \in Seq(TxId) /\ Len(hashOrder') = 1 /\ DOMAIN hashOrder' = {1}
        /\ hashOrder'[1] = 1 /\ 1 .. 1 = {1}
    BY <2>1, <2>3
  <2>7. Hashes'
    BY <2>2, <2>4, <2>5, <2>6 DEF Hashes, Injective, ToSet
  <2>8. Linked(chain')
    BY <2>2, <2>4 DEF Linked
  <2>9. Repeats(chain')
    BY <2>4 DEF Repeats
  <2>10. Types'
    BY <1>0, <2>1, <2>3, <2>4 DEF Types
  <2> QED
    BY <2>7, <2>8, <2>9, <2>10 DEF ChainInv
<1>2. ASSUME UNCHANGED <<chain, hashOrder>>, Types' PROVE ChainInv'
  BY <1>0, <1>2 DEF ChainInv, Hashes
<1>3. CASE ClearIndex
  <2>1. Types'
    BY <1>0, <1>3, EmptyIndex DEF Types, ClearIndex
  <2> QED
    BY <1>2, <1>3, <2>1 DEF ClearIndex
<1>4. CASE FillIndex
  <2>1. Types'
    BY <1>0, <1>4, Filled DEF Types, FillIndex
  <2> QED
    BY <1>2, <1>4, <2>1 DEF FillIndex
<1>5. ASSUME NEW from \in Owner, NEW to \in Owner, NEW amount \in Amounts, Send(from, to, amount)
      PROVE  ChainInv'
  BY <1>5, SendChain
<1>6. CASE ApplyUpdate
  <2> DEFINE upd == Update(index, Last(chain))
  <2>1. chain # << >> /\ index \in Index /\ chain \in Blocks
    BY <1>0, <1>6 DEF Types, ApplyUpdate
  <2>2. Last(chain) \in Seq(Transaction)
    BY <2>1 DEF Blocks, Last
  <2>3. PICK g \in [0 .. Len(Last(chain)) -> Upd] : upd = g[Len(Last(chain))]
    BY <2>1, <2>2, UpdateSteps
  <2>4. Len(Last(chain)) \in 0 .. Len(Last(chain))
    BY <2>2
  <2>5. upd.index \in Index
    <3> HIDE DEF upd
    <3>1. upd \in Upd
      BY <2>3, <2>4
    <3> QED
      BY <3>1 DEF Upd
  <2>6. Types'
    BY <1>0, <1>6, <2>1, <2>5 DEF Types, ApplyUpdate
  <2> QED
    BY <1>2, <1>6, <2>6 DEF ApplyUpdate
<1>7. CASE Crash
  <2>1. Types'
    BY <1>0, <1>7 DEF Types, Crash
  <2> QED
    BY <1>2, <1>7, <2>1 DEF Crash
<1>8. CASE UNCHANGED vars
  BY <1>0, <1>2, <1>8 DEF vars, Types
<1> QED
  BY <1>1, <1>3, <1>4, <1>5, <1>6, <1>7, <1>8 DEF Next

LEMMA ChainTyped == ChainInv => TypeOK
<1> SUFFICES ASSUME ChainInv PROVE TypeOK
  OBVIOUS
<1>1. chain \in Blocks /\ index \in Index
  BY DEF ChainInv, Types
<1>2. ASSUME NEW tx \in Txs(chain)
      PROVE  /\ tx.id \in TxId
             /\ ToSet(tx.outs) \subseteq Output
             /\ \A in \in ToSet(tx.ins) : in.key \in Owner
  <2>1. tx \in Transaction
    BY <1>1, InChain
  <2>2. tx.id \in TxId /\ tx.outs \in Seq(Output) /\ tx.ins \in Seq(Input)
    BY <2>1 DEF Transaction
  <2>3. /\ \A k \in DOMAIN tx.outs : tx.outs[k] \in Output
        /\ \A k \in DOMAIN tx.ins : tx.ins[k] \in Input
    BY <2>2
  <2> QED
    BY <2>2, <2>3 DEF ToSet, Input
<1>3. ASSUME NEW id \in TxId PROVE ToSet(index[id]) \subseteq Output
  <2>1. index[id] \in Seq(Output)
    BY <1>1 DEF Index
  <2>2. \A k \in DOMAIN index[id] : index[id][k] \in Output
    BY <2>1
  <2> QED
    BY <2>2 DEF ToSet
<1>4. ToSet(hashOrder) = {tx.id : tx \in Txs(chain)}
  BY DEF ChainInv, Hashes
<1> QED
  BY <1>2, <1>3, <1>4 DEF TypeOK, Output, ChainInv, Types

(* TypeOK: the types, and that hashOrder has just the ids of the chain,    *)
(* whatever commands and crashes come.                                     *)
THEOREM TypeCorrect == Spec => []TypeOK
<1>1. Spec => []ChainInv
  BY InitChain, ChainStep, PTL DEF Spec
<1> QED
  BY <1>1, ChainTyped, PTL

(* ScanExact: FindUTXO's one pass from the tip to genesis finds just the   *)
(* outputs that nothing spends, on every chain without repeats that the    *)
(* commands build.                                                         *)
THEOREM ScanExactAlways == Spec => []ScanExact
<1>1. ChainInv => ScanExact
  <2> SUFFICES ASSUME ChainInv, NoRepeat PROVE FindUTXO(chain) = Unspent(chain)
    BY DEF ScanExact
  <2>1. NoRepeatIn(chain)
    BY DEF NoRepeat, NoRepeatIn
  <2> QED
    BY <2>1, ChainScanned DEF ChainInv, Types
<1>2. Spec => []ChainInv
  BY InitChain, ChainStep, PTL DEF Spec
<1> QED
  BY <1>1, <1>2, PTL

-----------------------------------------------------------------------------
(* What Update makes of the index, given the block a send has mined. *)
Mined(old, cb, tx) ==
    /\ old \in Blocks /\ cb \in Transaction /\ tx \in Transaction
    /\ chain = Append(old, <<cb, tx>>)
    /\ IsCoinBase(cb) /\ ~IsCoinBase(tx) /\ Ascending(tx.ins) /\ cb.id # tx.id
    /\ \A j \in DOMAIN tx.ins : tx.ins[j].id \in TxId \ {cb.id}
                                /\ tx.ins[j].out \in 1 .. Len(index[tx.ins[j].id])

Applied(before, after, cb, tx) ==
    /\ after[tx.id] = tx.outs /\ after[cb.id] = cb.outs
    /\ \A id \in TxId \ {cb.id, tx.id} :
          /\ Len(after[id]) <= Len(before[id])
          /\ (\A j \in DOMAIN tx.ins : tx.ins[j].id # id) => after[id] = before[id]
    /\ \A j \in DOMAIN tx.ins :
          /\ tx.ins[j].id # tx.id
          /\ \A l \in DOMAIN tx.ins : tx.ins[l].id = tx.ins[j].id => l = j
          => after[tx.ins[j].id] =
                KeepAt(before[tx.ins[j].id], DOMAIN before[tx.ins[j].id] \ {tx.ins[j].out})

(* Update with a block that send has mined finds every key. *)
LEMMA Updated ==
  ASSUME index \in Index, NEW old, NEW cb, NEW tx, Mined(old, cb, tx)
  PROVE  LET upd == Update(index, <<cb, tx>>)
         IN  upd.absent = {} /\ upd.index \in Index /\ Applied(index, upd.index, cb, tx)
<1> DEFINE block == <<cb, tx>>
           base == [index |-> index, absent |-> {}]
           upd == Update(index, block)
           first == ApplyTx(base, cb)
           rest == RemoveInputs(first, tx.ins)
<1>0. /\ cb \in Transaction /\ tx \in Transaction /\ IsCoinBase(cb) /\ ~IsCoinBase(tx)
      /\ Ascending(tx.ins) /\ cb.id # tx.id /\ cb.id \in TxId /\ tx.id \in TxId
      /\ tx.ins \in Seq(Input) /\ tx.outs \in Seq(Output) /\ cb.outs \in Seq(Output)
      /\ \A j \in DOMAIN tx.ins : /\ tx.ins[j].id \in TxId /\ tx.ins[j].id # cb.id
                                  /\ tx.ins[j].out \in 1 .. Len(index[tx.ins[j].id])
  BY DEF Mined, Transaction
<1>1. /\ block \in Seq(Transaction) /\ Len(block) = 2 /\ block[1] = cb /\ block[2] = tx
      /\ base \in Upd
  BY <1>0 DEF Upd
<1>2. upd = ApplyTx(first, tx) /\ first \in Upd
  <2>1. PICK g \in [0 .. 2 -> Upd] :
           /\ g[0] = base /\ upd = g[2]
           /\ \A k \in 1 .. 2 : g[k] = ApplyTx(g[k - 1], block[k])
    <3> HIDE DEF block, upd
    <3>1. \E g \in [0 .. Len(block) -> Upd] :
             /\ g[0] = base /\ Update(index, block) = g[Len(block)]
             /\ \A k \in 1 .. Len(block) : g[k] = ApplyTx(g[k - 1], block[k])
      BY <1>1, UpdateSteps
    <3> QED
      BY <1>1, <3>1 DEF upd
  <2>2. 1 \in 1 .. 2 /\ 2 \in 1 .. 2 /\ 1 - 1 = 0 /\ 2 - 1 = 1 /\ 1 \in 0 .. 2
    OBVIOUS
  <2> HIDE DEF upd, base, block
  <2>3. g[1] = ApplyTx(g[0], block[1]) /\ g[2] = ApplyTx(g[1], block[2]) /\ g[1] \in Upd
    BY <2>1, <2>2
  <2> QED
    BY <1>1, <2>1, <2>3
<1>3. /\ first.absent = {} /\ first.index[cb.id] = cb.outs
      /\ \A id \in TxId : id # cb.id => first.index[id] = index[id]
  <2>1. first = [base EXCEPT !.index[cb.id] = cb.outs]
    BY <1>0 DEF ApplyTx, Removed
  <2> QED
    BY <1>0, <2>1 DEF Index
<1>4. /\ upd = [rest EXCEPT !.index[tx.id] = tx.outs]
      /\ upd \in Upd
  <2>1. Removed(first, tx) = rest
    BY <1>0 DEF Removed
  <2> HIDE DEF rest, first, upd
  <2>2. upd \in Upd
    BY <1>0, <1>2, ApplyTxType
  <2> QED
    BY <1>2, <2>1, <2>2 DEF ApplyTx
<1> HIDE DEF upd, first, base, block
<1>5. /\ rest \in Upd /\ rest.absent = first.absent
      /\ \A id \in TxId : Len(rest.index[id]) <= Len(first.index[id])
      /\ \A id \in TxId : (\A j \in DOMAIN tx.ins : tx.ins[j].id # id) => rest.index[id] = first.index[id]
      /\ \A j \in DOMAIN tx.ins : (\A l \in DOMAIN tx.ins : tx.ins[l].id = tx.ins[j].id => l = j) =>
            rest.index[tx.ins[j].id] =
               KeepAt(first.index[tx.ins[j].id], DOMAIN first.index[tx.ins[j].id] \ {tx.ins[j].out})
  <2>1. \A j \in DOMAIN tx.ins : tx.ins[j].id \in TxId
                                 /\ tx.ins[j].out \in 1 .. Len(first.index[tx.ins[j].id])
    BY <1>0, <1>3
  <2> QED
    BY <1>0, <1>2, <2>1, RemovedInputs
<1> HIDE DEF rest
<1>6. rest.index \in Index
  BY <1>5 DEF Upd
<1>7. /\ upd.absent = rest.absent /\ upd.index[tx.id] = tx.outs
      /\ \A id \in TxId : id # tx.id => upd.index[id] = rest.index[id]
  BY <1>0, <1>4, <1>5, <1>6 DEF Upd, Index
<1>8. upd.index[cb.id] = cb.outs
  BY <1>0, <1>3, <1>5, <1>7
<1>9. upd.absent = {} /\ upd.index \in Index
  BY <1>3, <1>4, <1>5, <1>7 DEF Upd
<1>10. ASSUME NEW id \in TxId \ {cb.id, tx.id}
       PROVE  /\ Len(upd.index[id]) <= Len(index[id])
              /\ (\A j \in DOMAIN tx.ins : tx.ins[j].id # id) => upd.index[id] = index[id]
  BY <1>3, <1>5, <1>7
<1>11. ASSUME NEW j \in DOMAIN tx.ins, tx.ins[j].id # tx.id,
              \A l \in DOMAIN tx.ins : tx.ins[l].id = tx.ins[j].id => l = j
       PROVE  upd.index[tx.ins[j].id] =
                 KeepAt(index[tx.ins[j].id], DOMAIN index[tx.ins[j].id] \ {tx.ins[j].out})
  <2>1. tx.ins[j].id \in TxId /\ tx.ins[j].id # cb.id
    BY <1>0
  <2>2. upd.index[tx.ins[j].id] = rest.index[tx.ins[j].id]
    BY <1>7, <1>11, <2>1
  <2>3. first.index[tx.ins[j].id] = index[tx.ins[j].id]
    BY <1>3, <2>1
  <2> QED
    BY <1>5, <1>11, <2>2, <2>3
<1> QED
  BY <1>7, <1>8, <1>9, <1>10, <1>11 DEF Applied, upd, block

-----------------------------------------------------------------------------
(* Why no command panics.  Nothing is in a cleared index; what a send has  *)
(* mined names outputs that the index has; and as long as the chain has no *)
(* repeats no list under a key is longer than the outputs of its           *)
(* transaction, so that what the index offers is on the chain.             *)
Cleared == step = "cleared" => index = NoOutputs

Pending == step = "mined" => \E old, cb, tx : Mined(old, cb, tx)

Fits(c, entries) ==
    \A id \in TxId : entries[id] # << >> =>
        HasTransaction(c, id) /\ Len(entries[id]) <= Len(FindTransaction(c, id).outs)

PanicInv ==
    /\ ChainInv /\ Cleared /\ Pending
    /\ NoRepeatIn(chain) => step # "panicked" /\ Fits(chain, index)

LEMMA SendPanics ==
  ASSUME PanicInv, NEW from \in Owner, NEW to \in Owner, NEW amount \in Amounts,
         Send(from, to, amount), ChainInv'
  PROVE  PanicInv'
<1>0. ChainInv /\ chain \in Blocks /\ index \in Index /\ Repeats(chain) /\ Len(hashOrder) \in Nat
      /\ ToSet(hashOrder) = 1 .. Len(hashOrder)
  BY DEF PanicInv, ChainInv, Types, Hashes
<1>1. UNCHANGED <<index, synced>> /\ Len(chain) < MaxBlocks /\ chain # << >>
  BY <1>0, Sent
<1> DEFINE cb == CoinBaseTx(Len(hashOrder) + 1, from)
<1>2. PICK tx : /\ Offered(tx)
                /\ tx.id = Len(hashOrder) + 2 \/ tx \in Txs(chain)
                /\ \/ /\ ~Resolves(chain, tx)
                      /\ step' = "panicked" /\ UNCHANGED <<chain, hashOrder>>
                   \/ /\ Resolves(chain, tx) /\ step' = "mined" /\ chain' = Append(chain, <<cb, tx>>)
  BY <1>0, Sent
<1>3. ~IsCoinBase(tx) /\ (\A s : s \in Spends(tx) <=> \E j \in DOMAIN tx.ins : s = <<tx.ins[j].id, tx.ins[j].out>>)
      /\ \A j \in DOMAIN tx.ins : tx.ins[j].id \in TxId
  BY <1>0, <1>2, PaymentSpends
<1>4. CASE ~Resolves(chain, tx) /\ step' = "panicked" /\ UNCHANGED <<chain, hashOrder>>
  <2>1. ASSUME NoRepeatIn(chain) PROVE FALSE
    <3>1. Fits(chain, index)
      BY <2>1 DEF PanicInv
    <3>2. PICK s \in Spends(tx) :
             ~(HasTransaction(chain, s[1]) /\ s[2] \in DOMAIN FindTransaction(chain, s[1]).outs)
      BY <1>4 DEF Resolves
    <3>3. PICK j \in DOMAIN tx.ins : s = <<tx.ins[j].id, tx.ins[j].out>>
      BY <1>3
    <3>4. s[1] \in TxId /\ s[2] \in 1 .. Len(index[s[1]]) /\ index[s[1]] \in Seq(Output)
      BY <1>0, <1>2, <1>3, <3>3 DEF Offered, Index
    <3>5. HasTransaction(chain, s[1]) /\ Len(index[s[1]]) <= Len(FindTransaction(chain, s[1]).outs)
      <4>1. index[s[1]] # << >>
        BY <3>4
      <4> QED
        BY <3>1, <3>4, <4>1 DEF Fits
    <3>6. PICK t \in Txs(chain) : t.id = s[1]
      BY <3>5 DEF HasTransaction
    <3>7. FindTransaction(chain, s[1]) = t /\ t \in Transaction
      BY <1>0, <3>6, Found, InChain
    <3>8. t.outs \in Seq(Output)
      BY <3>7 DEF Transaction
    <3>9. s[2] \in DOMAIN t.outs
      BY <3>4, <3>5, <3>7, <3>8
    <3> QED
      BY <3>2, <3>5, <3>7, <3>9
  <2>2. ~NoRepeatIn(chain')
    BY <1>4, <2>1
  <2>3. Cleared' /\ Pending'
    BY <1>4 DEF Cleared, Pending
  <2> QED
    BY <2>2, <2>3 DEF PanicInv
<1>5. CASE Resolves(chain, tx) /\ step' = "mined" /\ chain' = Append(chain, <<cb, tx>>)
  <2>1. Len(hashOrder) + 1 \in TxId
    <3>1. /\ Len(hashOrder) < 2 * Len(chain) /\ Len(chain) \in Nat /\ MaxBlocks \in Nat
      BY <1>0, <1>1, BoundsAssumption DEF ChainInv, Hashes, Blocks
    <3>2. Len(hashOrder) + 1 \in 1 .. 2 * MaxBlocks
      BY <1>0, <1>1, <3>1
    <3> QED
      BY <3>2, BoundsAssumption
  <2>2. cb \in Transaction /\ cb.id = Len(hashOrder) + 1 /\ Spends(cb) = {} /\ IsCoinBase(cb)
    BY <2>1, CoinBaseFacts
  <2> HIDE DEF cb
  <2>3. Repeats(chain') /\ cb.id # tx.id
    BY <1>0, <1>1, <1>2, <1>5, <2>2, Extended
  <2>4. tx \in Transaction /\ <<cb, tx>> \in Seq(Transaction) /\ Ascending(tx.ins)
    BY <1>2, <2>2 DEF Offered
  <2>5. \A j \in DOMAIN tx.ins : tx.ins[j].id \in TxId \ {cb.id}
                                 /\ tx.ins[j].out \in 1 .. Len(index[tx.ins[j].id])
    <3>1. \A j \in DOMAIN tx.ins : tx.ins[j].id \in 1 .. Len(hashOrder)
      BY <1>0, <1>2 DEF Offered
    <3>2. cb.id \notin 1 .. Len(hashOrder)
      BY <1>0, <2>2
    <3> QED
      BY <1>2, <1>3, <3>1, <3>2 DEF Offered
  <2>6. PICK old, coin : old = chain /\ coin = cb
    OBVIOUS
  <2>m. Mined(old, coin, tx)'
    <3>1. old \in Blocks /\ coin \in Transaction /\ chain' = Append(old, <<coin, tx>>) /\ index' = index
      BY <1>0, <1>1, <1>5, <2>2, <2>6
    <3>2. IsCoinBase(coin) /\ coin.id # tx.id
      BY <2>2, <2>3, <2>6
    <3>3. \A j \in DOMAIN tx.ins : tx.ins[j].id \in TxId \ {coin.id}
                                   /\ tx.ins[j].out \in 1 .. Len(index'[tx.ins[j].id])
      BY <2>5, <2>6, <3>1
    <3> QED
      BY <1>3, <2>4, <3>1, <3>2, <3>3 DEF Mined
  <2>7. ASSUME NoRepeatIn(chain') PROVE Fits(chain', index)
    <3>0. /\ chain' \in Blocks /\ DOMAIN chain = 1 .. Len(chain) /\ DOMAIN chain' = 1 .. Len(chain) + 1
          /\ Len(chain) \in Nat
          /\ \A n \in 1 .. Len(chain) : chain'[n] = chain[n]
          /\ \A t : t \in Txs(chain') <=> t \in Txs(chain) \/ t \in ToSet(<<cb, tx>>)
      BY <1>0, <1>5, <2>4, BlockAdded
    <3>1. \A n \in 1 .. Len(chain) : n \in 1 .. Len(chain) + 1
      BY <3>0
    <3>2. NoRepeatIn(chain)
      BY <2>7, <3>0, <3>1 DEF NoRepeatIn
    <3>3. Fits(chain, index)
      BY <3>2 DEF PanicInv
    <3> SUFFICES ASSUME NEW id \in TxId, index[id] # << >>
                 PROVE  HasTransaction(chain', id) /\ Len(index[id]) <= Len(FindTransaction(chain', id).outs)
      BY DEF Fits
    <3>4. HasTransaction(chain, id) /\ Len(index[id]) <= Len(FindTransaction(chain, id).outs)
      BY <3>3 DEF Fits
    <3>5. PICK t \in Txs(chain) : t.id = id
      BY <3>4 DEF HasTransaction
    <3>6. t \in Txs(chain') /\ FindTransaction(chain, id) = t
      BY <1>0, <3>0, <3>5, Found
    <3>7. HasTransaction(chain', id) /\ FindTransaction(chain', id) = t
      BY <2>3, <3>0, <3>5, <3>6, Found
    <3> QED
      BY <3>4, <3>6, <3>7
  <2>8. Cleared' /\ Pending' /\ step' # "panicked"
    <3>1. Cleared' /\ step' # "panicked"
      BY <1>5 DEF Cleared
    <3>2. (\E o, b, t : Mined(o, b, t))'
      BY <2>m
    <3> QED
      BY <3>1, <3>2 DEF Pending
  <2>9. NoRepeatIn(chain') => step' # "panicked" /\ Fits(chain', index')
    BY <1>1, <2>7, <2>8
  <2> QED
    BY <2>8, <2>9 DEF PanicInv
<1> QED
  BY <1>2, <1>4, <1>5

LEMMA UpdatePanics ==
  ASSUME PanicInv, ApplyUpdate
  PROVE  /\ \E old, cb, tx : /\ Mined(old, cb, tx) /\ Last(chain) = <<cb, tx>> /\ Front(chain) = old
                             /\ index' = Update(index, <<cb, tx>>).index
         /\ step' = "idle" /\ UNCHANGED <<chain, hashOrder, synced>>
         /\ NoRepeatIn(chain) => Fits(chain, index')
<1>0. ChainInv /\ chain \in Blocks /\ index \in Index /\ Repeats(chain) /\ step = "mined"
  BY DEF PanicInv, ChainInv, Types, ApplyUpdate
<1>1. PICK old, cb, tx : Mined(old, cb, tx)
  BY <1>0 DEF PanicInv, Pending
<1> DEFINE upd == Update(index, <<cb, tx>>)
<1>2. /\ cb \in Transaction /\ tx \in Transaction /\ old \in Blocks
      /\ <<cb, tx>> \in Seq(Transaction) /\ chain = Append(old, <<cb, tx>>)
      /\ cb.id \in TxId /\ tx.id \in TxId
  BY <1>1 DEF Mined, Transaction
<1>3. /\ Last(chain) = <<cb, tx>> /\ Front(chain) = old
      /\ \A t : t \in Txs(chain) <=> t \in Txs(old) \/ t \in ToSet(<<cb, tx>>)
  BY <1>2, BlockAdded
<1>4. /\ upd.absent = {} /\ upd.index \in Index
      /\ upd.index[tx.id] = tx.outs /\ upd.index[cb.id] = cb.outs
      /\ \A id \in TxId \ {cb.id, tx.id} : Len(upd.index[id]) <= Len(index[id])
  <2>1. upd.absent = {} /\ upd.index \in Index /\ Applied(index, upd.index, cb, tx)
    BY <1>0, <1>1, Updated
  <2> HIDE DEF upd
  <2> QED
    BY <2>1 DEF Applied
<1> HIDE DEF upd
<1>5. index' = upd.index /\ step' = "idle" /\ UNCHANGED <<chain, hashOrder, synced>>
  BY <1>3, <1>4 DEF ApplyUpdate, upd
<1>6. cb \in Txs(chain) /\ tx \in Txs(chain)
  <2>1. DOMAIN <<cb, tx>> = {1, 2} /\ <<cb, tx>>[1] = cb /\ <<cb, tx>>[2] = tx
    OBVIOUS
  <2>2. cb \in ToSet(<<cb, tx>>) /\ tx \in ToSet(<<cb, tx>>)
    BY <2>1 DEF ToSet
  <2> QED
    BY <1>3, <2>2
<1>7. ASSUME NoRepeatIn(chain) PROVE Fits(chain, upd.index)
  <2> SUFFICES ASSUME NEW id \in TxId, upd.index[id] # << >>
               PROVE  HasTransaction(chain, id) /\ Len(upd.index[id]) <= Len(FindTransaction(chain, id).outs)
    BY DEF Fits
  <2>0. upd.index[id] \in Seq(Output) /\ index[id] \in Seq(Output)
    BY <1>0, <1>4 DEF Index
  <2>1. ASSUME NEW t \in {cb, tx}, id = t.id
        PROVE  HasTransaction(chain, id) /\ Len(upd.index[id]) <= Len(FindTransaction(chain, id).outs)
    <3>1. t \in Txs(chain) /\ upd.index[id] = t.outs
      BY <1>4, <1>6, <2>1
    <3>2. HasTransaction(chain, id) /\ FindTransaction(chain, id) = t
      BY <1>0, <2>1, <3>1, Found
    <3>3. Len(upd.index[id]) <= Len(upd.index[id])
      BY <2>0
    <3> QED
      BY <3>1, <3>2, <3>3
  <2>2. CASE id # cb.id /\ id # tx.id
    <3>1. Len(upd.index[id]) <= Len(index[id])
      BY <1>4, <2>2
    <3>2. index[id] # << >>
      BY <2>0, <3>1
    <3>3. HasTransaction(chain, id) /\ Len(index[id]) <= Len(FindTransaction(chain, id).outs)
      BY <1>7, <3>2 DEF PanicInv, Fits
    <3>4. PICK t \in Txs(chain) : t.id = id
      BY <3>3 DEF HasTransaction
    <3>5. FindTransaction(chain, id).outs \in Seq(Output)
      BY <1>0, <3>4, Found, InChain DEF Transaction
    <3>6. /\ Len(upd.index[id]) \in Nat /\ Len(index[id]) \in Nat
          /\ Len(FindTransaction(chain, id).outs) \in Nat
      BY <2>0, <3>5
    <3> QED
      BY <3>1, <3>3, <3>6
  <2> QED
    BY <2>1, <2>2
<1> QED
  BY <1>1, <1>3, <1>5, <1>7 DEF upd

LEMMA InitPanic == Init => PanicInv
<1> SUFFICES ASSUME Init PROVE PanicInv
  OBVIOUS
<1>1. index = NoOutputs /\ step = "idle"
  BY DEF Init
<1>2. Fits(chain, index)
  BY <1>1 DEF Fits, NoOutputs
<1> QED
  BY <1>1, <1>2, InitChain DEF PanicInv, Cleared, Pending

LEMMA PanicStep == PanicInv /\ [Next]_vars => PanicInv'
<1> SUFFICES ASSUME PanicInv, [Next]_vars PROVE PanicInv'
  OBVIOUS
<1>0. /\ ChainInv /\ Cleared /\ Pending
      /\ NoRepeatIn(chain) => step # "panicked" /\ Fits(chain, index)
      /\ chain \in Blocks /\ index \in Index /\ Repeats(chain) /\ Linked(chain)
      /\ chain = << >> => index = NoOutputs
  BY DEF PanicInv, ChainInv, Types
<1>a. ChainInv'
  BY <1>0, ChainStep
<1>b. \A c : Fits(c, NoOutputs)
  BY DEF Fits, NoOutputs
<1>1. ASSUME NEW o \in Owner, CreateChain(o) PROVE PanicInv'
  <2>1. index' = NoOutputs /\ step' = "created"
    BY <1>0, <1>1 DEF CreateChain
  <2> QED
    BY <1>a, <1>b, <2>1 DEF PanicInv, Cleared, Pending
<1>2. CASE ClearIndex
  <2>1. index' = NoOutputs /\ step' = "cleared"
    BY <1>2 DEF ClearIndex
  <2> QED
    BY <1>a, <1>b, <2>1 DEF PanicInv, Cleared, Pending
<1>3. CASE FillIndex
  <2>1. step = "cleared" /\ step' = "idle" /\ chain' = chain
    BY <1>3 DEF FillIndex
  <2>2. index' = FindUTXO(chain)
    BY <1>0, <1>3, <2>1, Filled DEF Cleared
  <2>3. ASSUME NoRepeatIn(chain) PROVE Fits(chain, Unspent(chain))
    <3> SUFFICES ASSUME NEW id \in TxId, Unspent(chain)[id] # << >>
                 PROVE  HasTransaction(chain, id)
                        /\ Len(Unspent(chain)[id]) <= Len(FindTransaction(chain, id).outs)
      BY DEF Fits
    <3>1. PICK n \in DOMAIN chain : \E k \in DOMAIN chain[n] : chain[n][k].id = id
      BY <1>0, UnspentFacts
    <3>2. PICK k \in DOMAIN chain[n] : chain[n][k].id = id
      BY <3>1
    <3> DEFINE tx == chain[n][k]
    <3>3. tx \in Txs(chain) /\ tx.outs \in Seq(Output)
      BY <1>0, InChain DEF Transaction
    <3>4. Unspent(chain)[id] = LeftOf(tx, AllSpent(chain))
      BY <1>0, <3>2, UnspentFacts
    <3> HIDE DEF tx
    <3>5. Len(Unspent(chain)[id]) <= Len(tx.outs)
      BY <3>3, <3>4, LeftLength
    <3>6. HasTransaction(chain, id) /\ FindTransaction(chain, id) = tx
      BY <1>0, <3>2, <3>3, Found DEF tx
    <3> QED
      BY <3>5, <3>6
  <2>4. NoRepeatIn(chain) => Fits(chain, index')
    BY <1>0, <2>2, <2>3, ChainScanned
  <2> QED
    BY <1>a, <2>1, <2>4 DEF PanicInv, Cleared, Pending
<1>4. ASSUME NEW from \in Owner, NEW to \in Owner, NEW amount \in Amounts, Send(from, to, amount)
      PROVE  PanicInv'
  BY <1>4, <1>a, SendPanics
<1>5. CASE ApplyUpdate
  <2>1. step' = "idle" /\ chain' = chain /\ (NoRepeatIn(chain) => Fits(chain, index'))
    BY <1>5, UpdatePanics
  <2> QED
    BY <1>a, <2>1 DEF PanicInv, Cleared, Pending
<1>6. CASE Crash
  <2>1. step' = "idle" /\ UNCHANGED <<chain, index>>
    BY <1>6 DEF Crash
  <2> QED
    BY <1>0, <1>a, <2>1 DEF PanicInv, Cleared, Pending
<1>7. CASE UNCHANGED vars
  BY <1>0, <1>a, <1>7 DEF vars, PanicInv, Cleared, Pending, Mined
<1> QED
  BY <1>1, <1>2, <1>3, <1>4, <1>5, <1>6, <1>7 DEF Next

(* NoPanic: no command panics while the chain has no repeats: what the     *)
(* index offers resolves, and Update finds every key it removes from.      *)
THEOREM NoPanicAlways == Spec => []NoPanic
<1>1. PanicInv => NoPanic
  BY DEF PanicInv, NoPanic, NoRepeat, NoRepeatIn
<1>2. Spec => []PanicInv
  BY InitPanic, PanicStep, PTL DEF Spec
<1> QED
  BY <1>1, <1>2, PTL

-----------------------------------------------------------------------------
(* Orderly chains: what is unspent of a transaction is a start of its list *)
(* of outputs, and a payment takes the last of them.                       *)
LEMMA SpentBefore ==
  ASSUME NEW c \in Blocks, NEW n \in DOMAIN c
  PROVE  \A s : s \in AllSpent(SubSeq(c, 1, n - 1)) <=>
            \E m \in 1 .. n - 1 : \E k \in DOMAIN c[m] : s \in Spends(c[m][k])
<1> DEFINE b == SubSeq(c, 1, n - 1)
<1>1. n \in 1 .. Len(c) /\ Len(c) \in Nat
  BY DEF Blocks
<1>2. b \in Blocks /\ DOMAIN b = 1 .. n - 1 /\ \A m \in 1 .. n - 1 : b[m] = c[m]
  BY <1>1 DEF Blocks
<1> HIDE DEF b
<1>3. \A s : s \in AllSpent(b) <=> \E m \in DOMAIN b : \E k \in DOMAIN b[m] : s \in Spends(b[m][k])
  BY <1>2, InChain
<1> QED
  BY <1>2, <1>3 DEF b

SpendsLast(c, n, s) ==
    /\ \A m \in 1 .. n - 1 : \A l \in DOMAIN c[m] : s \notin Spends(c[m][l])
    /\ \A tx \in Txs(c) : tx.id = s[1] =>
          \A p \in DOMAIN tx.outs : p > s[2] =>
             \E m \in 1 .. n - 1 : \E l \in DOMAIN c[m] : <<s[1], p>> \in Spends(c[m][l])

(* A spend in an orderly chain takes the last output of its transaction that
   is not spent yet. *)
LEMMA OrderlyFacts ==
  ASSUME NEW c \in Blocks, Repeats(c), OrderlyIn(c),
         NEW n \in DOMAIN c, NEW k \in DOMAIN c[n], NEW s \in Spends(c[n][k])
  PROVE  SpendsLast(c, n, s)
<1> DEFINE before == AllSpent(SubSeq(c, 1, n - 1))
<1>1. /\ s \notin before
      /\ \A p \in DOMAIN FindTransaction(c, s[1]).outs : p > s[2] => <<s[1], p>> \in before
  BY DEF OrderlyIn
<1>2. \A t : t \in before <=> \E m \in 1 .. n - 1 : \E l \in DOMAIN c[m] : t \in Spends(c[m][l])
  BY SpentBefore
<1> HIDE DEF before
<1>3. \A tx \in Txs(c) : tx.id = s[1] => FindTransaction(c, s[1]) = tx
  BY Found
<1> QED
  BY <1>1, <1>2, <1>3 DEF SpendsLast

(* An orderly chain holds no transaction twice: a second one would spend what
   the first has spent. *)
LEMMA OrderlyUnique ==
  ASSUME NEW c \in Blocks, Repeats(c), OrderlyIn(c)
  PROVE  NoRepeatIn(c)
<1> SUFFICES ASSUME NEW n \in DOMAIN c, NEW m \in DOMAIN c, NEW k \in DOMAIN c[n], NEW l \in DOMAIN c[m],
                    c[n][k].id = c[m][l].id
             PROVE  n = m /\ k = l
  BY DEF NoRepeatIn
<1>0. n \in 1 .. Len(c) /\ m \in 1 .. Len(c) /\ Len(c) \in Nat
  BY DEF Blocks
<1>1. c[n][k] = c[m][l] /\ (n = m => k = l) /\ (n # m => Spends(c[n][k]) # {})
  BY DEF Repeats
<1>2. ASSUME n < m PROVE FALSE
  <2>a. n # m
    BY <1>0, <1>2
  <2>b. PICK s \in Spends(c[n][k]) : TRUE
    BY <1>1, <2>a
  <2>1. s \in Spends(c[m][l]) /\ s \in Spends(c[n][k])
    BY <1>1
  <2>2. n \in 1 .. m - 1
    BY <1>0, <1>2
  <2> QED
    BY <2>1, <2>2, OrderlyFacts DEF SpendsLast
<1>3. ASSUME m < n PROVE FALSE
  <2>a. n # m
    BY <1>0, <1>3
  <2>b. PICK s \in Spends(c[n][k]) : TRUE
    BY <1>1, <2>a
  <2>1. s \in Spends(c[m][l]) /\ s \in Spends(c[n][k])
    BY <1>1
  <2>2. m \in 1 .. n - 1
    BY <1>0, <1>3
  <2> QED
    BY <2>1, <2>2, OrderlyFacts DEF SpendsLast
<1> QED
  BY <1>0, <1>1, <1>2, <1>3

(* What is unspent of a transaction is a start of its list of outputs. *)
LEMMA UnspentStart ==
  ASSUME NEW c \in Blocks, Repeats(c), OrderlyIn(c), NEW tx \in Txs(c), tx.outs \in Seq(Output)
  PROVE  \E u \in 0 .. Len(tx.outs) :
            \A p \in 1 .. Len(tx.outs) : <<tx.id, p>> \notin AllSpent(c) <=> p <= u
<1> DEFINE N == Len(tx.outs)
           P == {p \in 1 .. N : <<tx.id, p>> \notin AllSpent(c)}
<1>0. N \in Nat /\ DOMAIN tx.outs = 1 .. N
  OBVIOUS
<1>1. CASE P = {}
  <2>1. \A p \in 1 .. N : <<tx.id, p>> \notin AllSpent(c) <=> p <= 0
    BY <1>0, <1>1
  <2>2. 0 \in 0 .. N
    BY <1>0
  <2> QED
    BY <2>1, <2>2
<1>2. CASE P # {}
  <2> DEFINE u == Max(P)
  <2>1. u \in P /\ \A p \in P : p <= u
    <3>1. P \in SUBSET (0 .. N)
      BY <1>0
    <3> HIDE DEF P, N
    <3> QED
      BY <1>0, <1>2, <3>1, MaxOfSet
  <2> HIDE DEF u
  <2>2. u \in 1 .. N /\ u \in 0 .. N /\ <<tx.id, u>> \notin AllSpent(c)
    BY <1>0, <2>1
  <2>3. ASSUME NEW p \in 1 .. N, p <= u, <<tx.id, p>> \in AllSpent(c) PROVE FALSE
    <3> DEFINE s == <<tx.id, p>>
    <3>0. s[1] = tx.id /\ s[2] = p
      OBVIOUS
    <3> HIDE DEF s
    <3>1. PICK n \in DOMAIN c : \E k \in DOMAIN c[n] : s \in Spends(c[n][k])
      BY <2>3, InChain DEF s
    <3>2. PICK k \in DOMAIN c[n] : s \in Spends(c[n][k])
      BY <3>1
    <3>3. u \in DOMAIN tx.outs /\ u > s[2]
      <4>1. u # p
        BY <2>2, <2>3
      <4> QED
        BY <1>0, <2>2, <2>3, <3>0, <4>1
    <3>4. PICK m \in 1 .. n - 1 : \E l \in DOMAIN c[m] : <<s[1], u>> \in Spends(c[m][l])
      <4>1. SpendsLast(c, n, s)
        BY <3>2, OrderlyFacts
      <4> QED
        BY <3>0, <3>3, <4>1 DEF SpendsLast
    <3>5. m \in DOMAIN c
      BY <3>4, InChain DEF Blocks
    <3>6. <<tx.id, u>> \in AllSpent(c)
      BY <3>0, <3>4, <3>5, InChain
    <3> QED
      BY <2>2, <3>6
  <2>4. \A p \in 1 .. N : <<tx.id, p>> \notin AllSpent(c) <=> p <= u
    BY <2>1, <2>3
  <2> QED
    BY <2>2, <2>4
<1> QED
  BY <1>1, <1>2

(* A chain without its last block is orderly, linked and as free of repeats. *)
LEMMA OrderlyPrefix ==
  ASSUME NEW c \in Blocks, NEW block \in Seq(Transaction), NEW next, next = Append(c, block),
         Repeats(next), Linked(next), OrderlyIn(next)
  PROVE  OrderlyIn(c) /\ Repeats(c) /\ Linked(c)
<1>0. /\ next \in Blocks /\ Len(c) \in Nat /\ DOMAIN c = 1 .. Len(c) /\ DOMAIN next = 1 .. Len(c) + 1
      /\ \A n \in 1 .. Len(c) : next[n] = c[n]
      /\ \A tx : tx \in Txs(next) <=> tx \in Txs(c) \/ tx \in ToSet(block)
  BY BlockAdded
<1>1. \A n \in DOMAIN c : n \in DOMAIN next /\ next[n] = c[n] /\ \A m \in 1 .. n - 1 : m \in DOMAIN c
  BY <1>0
<1>2. Repeats(c)
  <2> SUFFICES ASSUME NEW n \in DOMAIN c, NEW m \in DOMAIN c, NEW k \in DOMAIN c[n],
                      NEW l \in DOMAIN c[m], c[n][k].id = c[m][l].id
               PROVE  c[n][k] = c[m][l] /\ (n = m => k = l) /\ (n # m => Spends(c[n][k]) # {})
    BY DEF Repeats
  <2>1. /\ n \in DOMAIN next /\ k \in DOMAIN next[n] /\ next[n][k] = c[n][k]
        /\ m \in DOMAIN next /\ l \in DOMAIN next[m] /\ next[m][l] = c[m][l]
    BY <1>1
  <2> QED
    BY <2>1 DEF Repeats
<1>3. Linked(c)
  <2> SUFFICES ASSUME NEW n \in DOMAIN c, NEW k \in DOMAIN c[n], NEW s \in Spends(c[n][k])
               PROVE  \E m \in 1 .. n - 1 : \E l \in DOMAIN c[m] :
                         s = <<c[m][l].id, s[2]>> /\ s[2] \in DOMAIN c[m][l].outs
    BY DEF Linked
  <2>1. PICK m \in 1 .. n - 1 : \E l \in DOMAIN next[m] :
           s = <<next[m][l].id, s[2]>> /\ s[2] \in DOMAIN next[m][l].outs
    <3>1. n \in DOMAIN next /\ k \in DOMAIN next[n] /\ s \in Spends(next[n][k])
      BY <1>1
    <3>2. \A t \in Spends(next[n][k]) : \E m \in 1 .. n - 1 : \E l \in DOMAIN next[m] :
             t = <<next[m][l].id, t[2]>> /\ t[2] \in DOMAIN next[m][l].outs
      BY <3>1 DEF Linked
    <3> QED
      BY <3>1, <3>2
  <2>2. next[m] = c[m]
    BY <1>1
  <2> QED
    BY <2>1, <2>2
<1>4. OrderlyIn(c)
  <2> SUFFICES ASSUME NEW n \in DOMAIN c, NEW k \in DOMAIN c[n], NEW s \in Spends(c[n][k])
               PROVE  LET before == AllSpent(SubSeq(c, 1, n - 1))
                      IN  /\ s \notin before
                          /\ \A p \in DOMAIN FindTransaction(c, s[1]).outs :
                                p > s[2] => <<s[1], p>> \in before
    BY DEF OrderlyIn
  <2>1. s \in Spends(next[n][k]) /\ n \in DOMAIN next /\ k \in DOMAIN next[n]
    BY <1>1
  <2>2. /\ \A m \in 1 .. n - 1 : \A l \in DOMAIN c[m] : s \notin Spends(c[m][l])
        /\ \A tx \in Txs(c) : tx.id = s[1] =>
              \A p \in DOMAIN tx.outs : p > s[2] =>
                 \E m \in 1 .. n - 1 : \E l \in DOMAIN c[m] : <<s[1], p>> \in Spends(c[m][l])
    <3>1. /\ \A m \in 1 .. n - 1 : \A l \in DOMAIN next[m] : s \notin Spends(next[m][l])
          /\ \A tx \in Txs(next) : tx.id = s[1] =>
                \A p \in DOMAIN tx.outs : p > s[2] =>
                   \E m \in 1 .. n - 1 : \E l \in DOMAIN next[m] : <<s[1], p>> \in Spends(next[m][l])
      <4>1. SpendsLast(next, n, s)
        BY <1>0, <2>1, OrderlyFacts
      <4> QED
        BY <4>1 DEF SpendsLast
    <3>2. \A m \in 1 .. n - 1 : next[m] = c[m]
      BY <1>1
    <3> QED
      BY <1>0, <3>1, <3>2
  <2>3. PICK m \in 1 .. n - 1 : \E l \in DOMAIN c[m] : s = <<c[m][l].id, s[2]>>
    BY <1>3 DEF Linked
  <2>4. PICK l \in DOMAIN c[m] : s = <<c[m][l].id, s[2]>>
    BY <2>3
  <2> DEFINE tx == c[m][l]
  <2>5. tx \in Txs(c) /\ tx.id = s[1]
    <3>1. m \in DOMAIN c /\ l \in DOMAIN c[m]
      BY <1>1, <2>4
    <3>2. tx \in Txs(c)
      BY <3>1, InChain
    <3> QED
      BY <2>4, <3>2
  <2> HIDE DEF tx
  <2>6. FindTransaction(c, s[1]) = tx
    BY <1>2, <2>5, Found
  <2>7. \A t : t \in AllSpent(SubSeq(c, 1, n - 1)) <=>
           \E o \in 1 .. n - 1 : \E i \in DOMAIN c[o] : t \in Spends(c[o][i])
    BY SpentBefore
  <2> QED
    BY <2>2, <2>5, <2>6, <2>7
<1> QED
  BY <1>2, <1>3, <1>4

(* Update takes the index from the chain before the last block to the chain. *)
LEMMA UpdateExact ==
  ASSUME ChainInv, NEW old, NEW cb, NEW tx, Mined(old, cb, tx), OrderlyIn(chain), index = Unspent(old)
  PROVE  Update(index, <<cb, tx>>).index = Unspent(chain)
<1> DEFINE upd == Update(index, <<cb, tx>>)
           N == Len(old)
<1>0. /\ chain \in Blocks /\ index \in Index /\ Repeats(chain) /\ Linked(chain) /\ NoRepeatIn(chain)
      /\ old \in Blocks /\ cb \in Transaction /\ tx \in Transaction
      /\ <<cb, tx>> \in Seq(Transaction) /\ chain = Append(old, <<cb, tx>>)
      /\ cb.id \in TxId /\ tx.id \in TxId /\ cb.id # tx.id /\ IsCoinBase(cb) /\ ~IsCoinBase(tx)
      /\ Ascending(tx.ins)
      /\ \A j \in DOMAIN tx.ins : tx.ins[j].id \in TxId /\ tx.ins[j].id # cb.id
                                  /\ tx.ins[j].out \in 1 .. Len(index[tx.ins[j].id])
  BY OrderlyUnique DEF ChainInv, Types, Mined, Transaction
<1>1. OrderlyIn(old) /\ Repeats(old) /\ Linked(old)
  BY <1>0, OrderlyPrefix
<1>2. /\ N \in Nat /\ DOMAIN old = 1 .. N /\ DOMAIN chain = 1 .. N + 1
      /\ chain[N + 1] = <<cb, tx>>
      /\ \A n \in 1 .. N : chain[n] = old[n]
  BY <1>0, BlockAdded
<1>3. DOMAIN <<cb, tx>> = {1, 2} /\ <<cb, tx>>[1] = cb /\ <<cb, tx>>[2] = tx
  OBVIOUS
<1>4. N + 1 \in DOMAIN chain /\ \A n \in 1 .. N + 1 : n \in 1 .. N \/ n = N + 1
  BY <1>2
<1>5. /\ upd.index \in Index
      /\ upd.index[tx.id] = tx.outs /\ upd.index[cb.id] = cb.outs
      /\ \A id \in TxId \ {cb.id, tx.id} :
            (\A j \in DOMAIN tx.ins : tx.ins[j].id # id) => upd.index[id] = index[id]
      /\ \A j \in DOMAIN tx.ins :
            /\ tx.ins[j].id # tx.id
            /\ \A l \in DOMAIN tx.ins : tx.ins[l].id = tx.ins[j].id => l = j
            => upd.index[tx.ins[j].id] =
                  KeepAt(index[tx.ins[j].id], DOMAIN index[tx.ins[j].id] \ {tx.ins[j].out})
  <2>1. upd.absent = {} /\ upd.index \in Index /\ Applied(index, upd.index, cb, tx)
    BY <1>0, Updated
  <2> HIDE DEF upd
  <2> QED
    BY <2>1 DEF Applied
<1> HIDE DEF upd
<1>6. \A s : s \in Spends(tx) <=> \E j \in DOMAIN tx.ins : s = <<tx.ins[j].id, tx.ins[j].out>>
  BY <1>0 DEF Spends, ToSet
<1>7. \A s : s \in AllSpent(chain) <=> s \in AllSpent(old) \/ s \in Spends(tx)
  <2> TAKE s
  <2>1. s \in AllSpent(chain) <=> \E n \in DOMAIN chain : \E k \in DOMAIN chain[n] : s \in Spends(chain[n][k])
    BY <1>0, InChain
  <2>2. s \in AllSpent(old) <=> \E n \in 1 .. N : \E k \in DOMAIN chain[n] : s \in Spends(chain[n][k])
    <3>1. s \in AllSpent(old) <=> \E n \in DOMAIN old : \E k \in DOMAIN old[n] : s \in Spends(old[n][k])
      BY <1>0, InChain
    <3> QED
      BY <1>2, <3>1
  <2>3. s \notin Spends(cb)
    BY <1>0 DEF Spends
  <2>4. (\E k \in DOMAIN chain[N + 1] : s \in Spends(chain[N + 1][k])) <=> s \in Spends(tx)
    BY <1>2, <1>3, <2>3
  <2>5. \A n \in 1 .. N : n \in DOMAIN chain
    BY <1>2
  <2> QED
    BY <1>2, <1>4, <2>1, <2>2, <2>4, <2>5
<1>8. ASSUME NEW k \in {1, 2} PROVE upd.index[<<cb, tx>>[k].id] = Unspent(chain)[<<cb, tx>>[k].id]
  <2> DEFINE t == <<cb, tx>>[k]
  <2>1. t = chain[N + 1][k] /\ k \in DOMAIN chain[N + 1] /\ upd.index[t.id] = t.outs
    BY <1>2, <1>3, <1>5
  <2> HIDE DEF t
  <2>2. t.outs \in Seq(Output)
    BY <1>0, <1>4, <2>1, InChain DEF Transaction
  <2>3. ASSUME NEW p, <<t.id, p>> \in AllSpent(chain) PROVE FALSE
    <3>1. PICK m \in DOMAIN chain : \E l \in DOMAIN chain[m] : <<t.id, p>> \in Spends(chain[m][l])
      BY <1>0, <2>3, InChain
    <3>2. PICK o \in 1 .. m - 1 : \E i \in DOMAIN chain[o] : <<t.id, p>> = <<chain[o][i].id, <<t.id, p>>[2]>>
      BY <1>0, <3>1 DEF Linked
    <3>3. PICK i \in DOMAIN chain[o] : chain[o][i].id = t.id
      BY <3>2
    <3>4. o \in DOMAIN chain /\ o # N + 1
      BY <1>2, <3>1, <3>2
    <3> QED
      BY <1>0, <1>4, <2>1, <3>3, <3>4 DEF NoRepeatIn
  <2>4. Unspent(chain)[t.id] = LeftOf(t, AllSpent(chain))
    <3>1. \A n \in DOMAIN chain : \A i \in DOMAIN chain[n] :
             Unspent(chain)[chain[n][i].id] = LeftOf(chain[n][i], AllSpent(chain))
      BY <1>0, UnspentFacts
    <3> QED
      BY <1>4, <2>1, <3>1
  <2>5. \A p \in 1 .. Len(t.outs) : <<t.id, p>> \notin AllSpent(chain) <=> p <= Len(t.outs)
    BY <2>2, <2>3
  <2>6. Unspent(chain)[t.id] = SubSeq(t.outs, 1, Len(t.outs))
    <3>1. Len(t.outs) \in 0 .. Len(t.outs)
      BY <2>2
    <3> QED
      BY <2>2, <2>4, <2>5, <3>1, LeftStart
  <2>7. SubSeq(t.outs, 1, Len(t.outs)) = t.outs
    BY <2>2
  <2> QED
    BY <2>1, <2>6, <2>7 DEF t
<1>9. ASSUME NEW id \in TxId \ {cb.id, tx.id} PROVE upd.index[id] = Unspent(chain)[id]
  <2>1. CASE \A n \in DOMAIN old : \A k \in DOMAIN old[n] : old[n][k].id # id
    <3>1. index[id] = << >>
      BY <1>0, <1>1, <2>1, UnspentFacts
    <3>2. \A j \in DOMAIN tx.ins : tx.ins[j].id # id
      BY <1>0, <3>1
    <3>3. \A n \in DOMAIN chain : \A k \in DOMAIN chain[n] : chain[n][k].id # id
      BY <1>2, <1>3, <1>4, <2>1
    <3>4. Unspent(chain)[id] = << >>
      BY <1>0, <3>3, UnspentFacts
    <3> QED
      BY <1>5, <3>1, <3>2, <3>4
  <2>2. CASE \E n \in DOMAIN old : \E k \in DOMAIN old[n] : old[n][k].id = id
    <3>1. PICK n \in DOMAIN old : \E k \in DOMAIN old[n] : old[n][k].id = id
      BY <2>2
    <3>2. PICK k \in DOMAIN old[n] : old[n][k].id = id
      BY <3>1
    <3> DEFINE t == old[n][k]
               L == Len(t.outs)
    <3>3. /\ t \in Txs(old) /\ t.id = id /\ t.outs \in Seq(Output) /\ L \in Nat /\ DOMAIN t.outs = 1 .. L
          /\ t = chain[n][k] /\ n \in DOMAIN chain /\ k \in DOMAIN chain[n] /\ t \in Txs(chain)
      <4>1. t \in Txs(old) /\ t.id = id /\ t \in Transaction
        BY <1>0, <3>2, InChain
      <4>2. t = chain[n][k] /\ n \in DOMAIN chain /\ k \in DOMAIN chain[n]
        BY <1>2, <3>1, <3>2
      <4>3. t \in Txs(chain)
        BY <1>0, <4>2, InChain
      <4>4. t.outs \in Seq(Output)
        BY <4>1 DEF Transaction
      <4>5. L \in Nat /\ DOMAIN t.outs = 1 .. L
        BY <4>4
      <4> QED
        BY <4>1, <4>2, <4>3, <4>4, <4>5
    <3>4. Unspent(old)[id] = LeftOf(t, AllSpent(old)) /\ Unspent(chain)[id] = LeftOf(t, AllSpent(chain))
      <4>1. \A m \in DOMAIN old : \A l \in DOMAIN old[m] :
               Unspent(old)[old[m][l].id] = LeftOf(old[m][l], AllSpent(old))
        BY <1>0, <1>1, UnspentFacts
      <4>2. \A m \in DOMAIN chain : \A l \in DOMAIN chain[m] :
               Unspent(chain)[chain[m][l].id] = LeftOf(chain[m][l], AllSpent(chain))
        BY <1>0, UnspentFacts
      <4>3. Unspent(old)[id] = LeftOf(t, AllSpent(old))
        BY <3>2, <4>1
      <4>4. t = chain[n][k] /\ t.id = id /\ n \in DOMAIN chain /\ k \in DOMAIN chain[n]
        BY <3>3
      <4> HIDE DEF t
      <4>5. Unspent(chain)[id] = LeftOf(t, AllSpent(chain))
        BY <4>2, <4>4
      <4> QED
        BY <4>3, <4>5
    <3> HIDE DEF t, L
    <3>5. PICK u \in 0 .. L : \A p \in 1 .. L : <<id, p>> \notin AllSpent(old) <=> p <= u
      BY <1>0, <1>1, <3>3, UnspentStart DEF L
    <3>6. index[id] = SubSeq(t.outs, 1, u) /\ index[id] \in Seq(Output) /\ Len(index[id]) = u /\ u \in Nat
      <4>1. \A p \in 1 .. Len(t.outs) : <<t.id, p>> \notin AllSpent(old) <=> p <= u
        BY <3>3, <3>5 DEF L
      <4>2. index[id] = SubSeq(t.outs, 1, u)
        BY <3>3, <3>4, <3>5, <4>1, LeftStart DEF L
      <4> QED
        BY <3>3, <3>5, <4>2 DEF L
    <3>7. CASE \A j \in DOMAIN tx.ins : tx.ins[j].id # id
      <4>1. \A p : <<id, p>> \notin Spends(tx)
        BY <1>6, <3>7
      <4>2. LeftOf(t, AllSpent(old)) = LeftOf(t, AllSpent(chain))
        BY <1>7, <3>3, <4>1 DEF LeftOf
      <4> QED
        BY <1>5, <3>4, <3>7, <4>2
    <3>8. CASE \E j \in DOMAIN tx.ins : tx.ins[j].id = id
      <4>1. ASSUME NEW j \in DOMAIN tx.ins, tx.ins[j].id = id PROVE tx.ins[j].out = u
        <5> DEFINE s == <<tx.ins[j].id, tx.ins[j].out>>
        <5>1. s \in Spends(tx)
          BY <1>6
        <5>2. s[1] = id /\ s[2] = tx.ins[j].out /\ s[2] \in 1 .. u
          BY <1>0, <3>6, <4>1
        <5> HIDE DEF s
        <5>3. s \in Spends(chain[N + 1][2]) /\ 2 \in DOMAIN chain[N + 1] /\ (N + 1) - 1 = N
          BY <1>2, <1>3, <5>1
        <5>4. ASSUME u > s[2] PROVE FALSE
          <6>1. u \in DOMAIN t.outs /\ u \in 1 .. L
            BY <3>3, <3>5, <5>2, <5>4
          <6>2. PICK m \in 1 .. (N + 1) - 1 : \E l \in DOMAIN chain[m] : <<s[1], u>> \in Spends(chain[m][l])
            <7>1. SpendsLast(chain, N + 1, s)
              BY <1>0, <1>4, <5>3, OrderlyFacts
            <7> QED
              BY <3>3, <5>2, <5>4, <6>1, <7>1 DEF SpendsLast
          <6>3. m \in DOMAIN old /\ chain[m] = old[m]
            BY <1>2, <6>2
          <6>4. <<id, u>> \in AllSpent(old)
            BY <1>0, <5>2, <6>2, <6>3, InChain
          <6> QED
            BY <3>5, <3>6, <6>1, <6>4
        <5> QED
          BY <3>6, <5>2, <5>4
      <4>2. PICK j \in DOMAIN tx.ins : tx.ins[j].id = id
        BY <3>8
      <4>3. \A l \in DOMAIN tx.ins : tx.ins[l].id = id => l = j
        <5> TAKE l \in DOMAIN tx.ins
        <5> HAVE tx.ins[l].id = id
        <5>1. tx.ins[l].out = u /\ tx.ins[j].out = u
          BY <4>1, <4>2
        <5>2. ~(l < j) /\ ~(j < l)
          BY <1>0, <3>6, <4>2, <5>1 DEF Ascending
        <5>3. tx.ins \in Seq(Input)
          BY <1>0 DEF Transaction
        <5>4. l \in Nat /\ j \in Nat
          BY <5>3
        <5> QED
          BY <5>2, <5>4
      <4>4. upd.index[id] = KeepAt(index[id], DOMAIN index[id] \ {u})
        BY <1>5, <4>1, <4>2, <4>3
      <4>5. u \in 1 .. L /\ u - 1 \in 0 .. u /\ u - 1 \in 0 .. L
        <5>1. u \in 1 .. u
          BY <1>0, <3>6, <4>1, <4>2
        <5> QED
          BY <3>3, <3>5, <5>1
      <4>6. upd.index[id] = SubSeq(index[id], 1, u - 1)
        <5>1. \A p \in 1 .. Len(index[id]) : p \in DOMAIN index[id] \ {u} <=> p <= u - 1
          BY <3>6
        <5> QED
          <6> DEFINE list == index[id]
                     P == DOMAIN list \ {u}
          <6>1. list \in Seq(Output) /\ u - 1 \in 0 .. Len(list)
                /\ \A p \in 1 .. Len(list) : p \in P <=> p <= u - 1
            BY <3>6, <4>5, <5>1
          <6>2. upd.index[id] = KeepAt(list, P)
            BY <4>4
          <6> HIDE DEF list, P
          <6>3. KeepAt(list, P) = SubSeq(list, 1, u - 1)
            BY <6>1, KeepAtStart
          <6> QED
            BY <6>2, <6>3 DEF list
      <4>7. SubSeq(index[id], 1, u - 1) = SubSeq(t.outs, 1, u - 1)
        BY <3>3, <3>6, <4>5 DEF L
      <4>8. \A p \in 1 .. L : <<id, p>> \notin AllSpent(chain) <=> p <= u - 1
        <5> TAKE p \in 1 .. L
        <5>1. <<id, p>> \in Spends(tx) <=> p = u
          <6>1. <<id, u>> \in Spends(tx)
            BY <1>6, <4>1, <4>2
          <6>2. <<id, p>> \in Spends(tx) => p = u
            BY <1>6, <4>1
          <6> QED
            BY <6>1, <6>2
        <5>2. <<id, p>> \notin AllSpent(chain) <=> p <= u /\ p # u
          BY <1>7, <3>5, <5>1
        <5> QED
          BY <3>6, <5>2
      <4>9. Unspent(chain)[id] = SubSeq(t.outs, 1, u - 1)
        <5>1. \A p \in 1 .. Len(t.outs) : <<t.id, p>> \notin AllSpent(chain) <=> p <= u - 1
          BY <3>3, <4>8 DEF L
        <5>2. t.outs \in Seq(Output) /\ u - 1 \in 0 .. Len(t.outs)
          BY <3>3, <4>5 DEF L
        <5> QED
          BY <3>4, <5>1, <5>2, LeftStart
      <4> QED
        BY <4>6, <4>7, <4>9
    <3> QED
      BY <3>7, <3>8
  <2> QED
    BY <2>1, <2>2
<1>10. ASSUME NEW id \in TxId PROVE upd.index[id] = Unspent(chain)[id]
  BY <1>3, <1>8, <1>9
<1>11. /\ upd.index = [id \in TxId |-> upd.index[id]]
       /\ Unspent(chain) = [id \in TxId |-> Unspent(chain)[id]]
  BY <1>5 DEF Index, Unspent
<1> QED
  BY <1>10, <1>11 DEF upd

-----------------------------------------------------------------------------
(* Why the index is the chain's: between commands it holds what is unspent *)
(* of the chain, and until Update what is unspent of the blocks before the *)
(* last one.                                                               *)
Exact ==
    synced /\ OrderlyIn(chain) =>
        /\ step = "idle"  => index = Unspent(chain)
        /\ step = "mined" => index = Unspent(Front(chain))

ExactInv == PanicInv /\ Exact

LEMMA SendExact ==
  ASSUME ExactInv, NEW from \in Owner, NEW to \in Owner, NEW amount \in Amounts,
         Send(from, to, amount), PanicInv'
  PROVE  Exact'
<1> DEFINE cb == CoinBaseTx(Len(hashOrder) + 1, from)
<1>0. ChainInv /\ ChainInv' /\ chain \in Blocks
  BY DEF ExactInv, PanicInv, ChainInv, Types
<1>1. UNCHANGED <<index, synced>> /\ step = "idle" /\ Len(chain) < MaxBlocks /\ chain # << >>
  BY <1>0, Sent
<1>2. PICK tx : /\ Offered(tx)
                /\ \/ step' = "panicked"
                   \/ step' = "mined" /\ chain' = Append(chain, <<cb, tx>>)
  BY <1>0, Sent
<1>3. CASE step' = "panicked"
  BY <1>3 DEF Exact
<1>4. CASE step' = "mined" /\ chain' = Append(chain, <<cb, tx>>)
  <2> SUFFICES ASSUME synced, OrderlyIn(chain') PROVE index = Unspent(Front(chain'))
    BY <1>1, <1>4 DEF Exact
  <2>1. Len(hashOrder) + 1 \in TxId
    <3>1. chain' \in Blocks /\ Len(chain) \in Nat
      BY <1>0 DEF ChainInv, Types, Blocks
    <3>2. /\ Len(hashOrder) \in Nat /\ Len(hashOrder) < 2 * Len(chain)
          /\ Len(chain) < MaxBlocks /\ MaxBlocks \in Nat
      BY <1>0, <1>1, BoundsAssumption DEF ChainInv, Hashes
    <3>3. Len(hashOrder) + 1 \in 1 .. 2 * MaxBlocks
      BY <3>1, <3>2
    <3> QED
      BY <3>3, BoundsAssumption
  <2>2. cb \in Transaction /\ tx \in Transaction
    BY <1>2, <2>1, CoinBaseFacts DEF Offered
  <2> HIDE DEF cb
  <2>3. <<cb, tx>> \in Seq(Transaction)
    BY <2>2
  <2>4. Repeats(chain') /\ Linked(chain')
    BY <1>0 DEF ChainInv
  <2>5. Front(chain') = chain
    BY <1>0, <1>4, <2>3, BlockAdded
  <2>6. OrderlyIn(chain)
    BY <1>0, <1>4, <2>3, <2>4, OrderlyPrefix
  <2> QED
    BY <1>1, <2>5, <2>6 DEF ExactInv, Exact
<1> QED
  BY <1>2, <1>3, <1>4

LEMMA ExactStep == ExactInv /\ [Next]_vars => ExactInv'
<1> SUFFICES ASSUME ExactInv, [Next]_vars PROVE ExactInv'
  OBVIOUS
<1>0. /\ PanicInv /\ Exact /\ ChainInv /\ Cleared
      /\ chain \in Blocks /\ Repeats(chain) /\ Linked(chain)
  BY DEF ExactInv, PanicInv, ChainInv, Types
<1>a. PanicInv'
  BY <1>0, PanicStep
<1> SUFFICES Exact'
  BY <1>a DEF ExactInv
<1>1. ASSUME NEW o \in Owner, CreateChain(o) PROVE Exact'
  BY <1>1 DEF CreateChain, Exact
<1>2. CASE ClearIndex
  BY <1>2 DEF ClearIndex, Exact
<1>3. CASE FillIndex
  <2>1. step = "cleared" /\ step' = "idle" /\ chain' = chain
    BY <1>3 DEF FillIndex
  <2>2. index' = FindUTXO(chain)
    BY <1>0, <1>3, <2>1, Filled DEF Cleared
  <2>3. OrderlyIn(chain) => index' = Unspent(chain)
    BY <1>0, <2>2, OrderlyUnique, ChainScanned
  <2> QED
    BY <2>1, <2>3 DEF Exact
<1>4. ASSUME NEW from \in Owner, NEW to \in Owner, NEW amount \in Amounts, Send(from, to, amount)
      PROVE  Exact'
  BY <1>4, <1>a, SendExact
<1>5. CASE ApplyUpdate
  <2>1. PICK old, cb, tx : /\ Mined(old, cb, tx) /\ Front(chain) = old
                           /\ index' = Update(index, <<cb, tx>>).index
    BY <1>0, <1>5, UpdatePanics
  <2>2. step = "mined" /\ step' = "idle" /\ UNCHANGED <<chain, synced>>
    BY <1>5, <1>0, UpdatePanics DEF ApplyUpdate
  <2>3. ASSUME synced, OrderlyIn(chain) PROVE index' = Unspent(chain)
    <3>1. index = Unspent(old)
      BY <1>0, <2>1, <2>2, <2>3 DEF Exact
    <3> QED
      BY <1>0, <2>1, <2>3, <3>1, UpdateExact
  <2> QED
    BY <2>2, <2>3 DEF Exact
<1>6. CASE Crash
  BY <1>6 DEF Crash, Exact
<1>7. CASE UNCHANGED vars
  BY <1>0, <1>7 DEF vars, Exact
<1> QED
  BY <1>1, <1>2, <1>3, <1>4, <1>5, <1>6, <1>7 DEF Next

(* IndexExact: between commands the index that Update maintains is the one *)
(* a scan of the chain would build, on an orderly chain and after a        *)
(* reindex that no crash has followed.                                     *)
THEOREM IndexExactAlways == Spec => []IndexExact
<1>1. Init => ExactInv
  BY InitPanic DEF Init, ExactInv, Exact
<1>2. ExactInv => IndexExact
  BY DEF ExactInv, Exact, IndexExact, Orderly, OrderlyIn
<1>3. Spec => []ExactInv
  BY <1>1, ExactStep, PTL DEF Spec
<1> QED
  BY <1>2, <1>3, PTL

=============================================================================
