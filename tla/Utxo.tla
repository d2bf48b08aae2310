-------------------------------- MODULE Utxo --------------------------------
(***************************************************************************)
(* Transactions and the index of unspent outputs (blockchain/utxo.go,      *)
(* transaction.go and the scan of blockchain.go).  A transaction is a      *)
(* record of its id, the outputs it spends and the outputs it makes; a     *)
(* block is a sequence of transactions and a chain a sequence of blocks,   *)
(* genesis first.  A position in a list of outputs is the code's index     *)
(* plus one.  The index maps an id to the list stored under its "utxo-"    *)
(* key, << >> standing for a key that is absent.                           *)
(***************************************************************************)
EXTENDS Naturals, Sequences, SequencesExt

CONSTANTS
    TxId,      \* the transaction ids
    NoTx,      \* the empty id in the input of a coinbase
    Reward     \* what a coinbase pays (20 in the code)

ASSUME RewardAssumption == Reward \in Nat \ {0} /\ NoTx \notin TxId

-----------------------------------------------------------------------------
(* CoinBaseTx: an input that spends nothing, one output. *)
CoinBaseTx(id, to) ==
    [id   |-> id,
     ins  |-> <<[id |-> NoTx, out |-> 0, key |-> to]>>,
     outs |-> <<[value |-> Reward, owner |-> to]>>]

IsCoinBase(tx) == Len(tx.ins) = 1 /\ tx.ins[1].id = NoTx /\ tx.ins[1].out = 0

(* The outputs a transaction spends, as <<id, position>>. *)
Spends(tx) ==
    IF IsCoinBase(tx) THEN {} ELSE {<<in.id, in.out>> : in \in ToSet(tx.ins)}

(* The transactions of a chain. *)
Txs(chain) == UNION {ToSet(chain[n]) : n \in DOMAIN chain}

(* FindTransaction succeeds. *)
HasTransaction(chain, id) == \E tx \in Txs(chain) : tx.id = id

FindTransaction(chain, id) == CHOOSE tx \in Txs(chain) : tx.id = id

(* SignTransaction and VerifyTransaction look every input up on the chain: *)
(* they panic when its transaction or the output it names is not there.    *)
Resolves(chain, tx) ==
    \A s \in Spends(tx) :
        /\ HasTransaction(chain, s[1])
        /\ s[2] \in DOMAIN FindTransaction(chain, s[1]).outs

(* The elements of a list at the positions of P. *)
KeepAt(list, P) ==
    LET kept[p \in 0 .. Len(list)] ==
            IF p = 0 THEN << >>
            ELSE IF p \in P THEN Append(kept[p - 1], list[p])
            ELSE kept[p - 1]
    IN  kept[Len(list)]

NoOutputs == [id \in TxId |-> << >>]

-----------------------------------------------------------------------------
(* FindUTXO: one step of the scan appends the outputs not seen spent so    *)
(* far, then records what the transaction spends.                          *)
ScanTx(scan, tx) ==
    [utxo  |-> [scan.utxo EXCEPT ![tx.id] =
                   @ \o KeepAt(tx.outs,
                               {p \in DOMAIN tx.outs : <<tx.id, p>> \notin scan.spent})],
     spent |-> scan.spent \cup Spends(tx)]

ScanBlock(scan, block) ==
    LET after[k \in 0 .. Len(block)] ==
            IF k = 0 THEN scan ELSE ScanTx(after[k - 1], block[k])
    IN  after[Len(block)]

NotScanned == [utxo |-> NoOutputs, spent |-> {}]

(* Mutant: the scan follows the chain from genesis. *)
FindUTXOForward(chain) ==
    LET after[k \in 0 .. Len(chain)] ==
            IF k = 0 THEN NotScanned ELSE ScanBlock(after[k - 1], chain[k])
    IN  after[Len(chain)].utxo

(* The blocks from the tip to genesis, the transactions of each in order. *)
FindUTXO(chain) ==
    LET after[k \in 0 .. Len(chain)] ==
            IF k = 0 THEN NotScanned
                     ELSE ScanBlock(after[k - 1], chain[Len(chain) - k + 1])
    IN  after[Len(chain)].utxo

-----------------------------------------------------------------------------
(* Update removes the output at the position an input names from the list  *)
(* under its key, closing the gap; a key that is absent is a panic.        *)
RemoveInput(upd, in) ==
    [index  |-> [upd.index EXCEPT ![in.id] = KeepAt(@, DOMAIN @ \ {in.out})],
     absent |-> upd.absent \cup ({in.id} \cap {id \in TxId : upd.index[id] = << >>})]

RemoveInputs(upd, ins) ==
    LET after[k \in 0 .. Len(ins)] ==
            IF k = 0 THEN upd ELSE RemoveInput(after[k - 1], ins[k])
    IN  after[Len(ins)]

Removed(upd, tx) == IF IsCoinBase(tx) THEN upd ELSE RemoveInputs(upd, tx.ins)

(* Mutant: the outputs of the new transactions are not written. *)
RemoveOnly(upd, tx) == Removed(upd, tx)

ApplyTx(upd, tx) == [Removed(upd, tx) EXCEPT !.index[tx.id] = tx.outs]

Update(index, block) ==
    LET after[k \in 0 .. Len(block)] ==
            IF k = 0 THEN [index |-> index, absent |-> {}]
                     ELSE ApplyTx(after[k - 1], block[k])
    IN  after[Len(block)]

-----------------------------------------------------------------------------
(* FindSpendableOutputs: the keys in the order of their hashes, and under  *)
(* each the outputs locked with the owner's key, until they add up.  Picked *)
(* are the positions under each id.                                        *)
Pick(pick, id, p, out, owner, amount) ==
    IF out.owner = owner /\ pick.value < amount
    THEN [value |-> pick.value + out.value, outs |-> [pick.outs EXCEPT ![id] = Append(@, p)]]
    ELSE pick

PickFrom(pick, id, outs, owner, amount) ==
    LET after[p \in 0 .. Len(outs)] ==
            IF p = 0 THEN pick ELSE Pick(after[p - 1], id, p, outs[p], owner, amount)
    IN  after[Len(outs)]

FindSpendableOutputs(index, hashOrder, owner, amount) ==
    LET after[k \in 0 .. Len(hashOrder)] ==
            IF k = 0 THEN [value |-> 0, outs |-> NoOutputs]
                     ELSE PickFrom(after[k - 1], hashOrder[k], index[hashOrder[k]], owner, amount)
    IN  after[Len(hashOrder)]

(* Mutant: positions are taken as one more than they are. *)
InputsOffByOne(picked, id, owner) ==
    [k \in DOMAIN picked[id] |-> [id |-> id, out |-> picked[id][k] + 1, key |-> owner]]

InputsFrom(picked, id, owner) ==
    [k \in DOMAIN picked[id] |-> [id |-> id, out |-> picked[id][k], key |-> owner]]

(* NewTransaction ranges over a Go map from id to positions: the ids come  *)
(* in any order, the positions of each in ascending order.                 *)
InputsOf(picked, order, owner) ==
    LET upto[k \in 0 .. Len(order)] ==
            IF k = 0 THEN << >> ELSE upto[k - 1] \o InputsFrom(picked, order[k], owner)
    IN  upto[Len(order)]

(* Mutant: a change output even when nothing is left. *)
ChangeAlways(acc, amount, owner, to) ==
    <<[value |-> amount, owner |-> to], [value |-> acc - amount, owner |-> owner]>>

(* The payment first, then the change, if any. *)
OutputsOf(acc, amount, owner, to) ==
    <<[value |-> amount, owner |-> to]>> \o
        IF acc > amount THEN <<[value |-> acc - amount, owner |-> owner]>>
                        ELSE << >>

-----------------------------------------------------------------------------
(* What the index should hold, stated without a scan: the outputs of the   *)
(* chain's transactions that no transaction of the chain spends.           *)
AllSpent(chain) == UNION {Spends(tx) : tx \in Txs(chain)}

UnspentAt(chain, id) ==
    IF HasTransaction(chain, id)
    THEN {p \in DOMAIN FindTransaction(chain, id).outs :
              <<id, p>> \notin AllSpent(chain)}
    ELSE {}

Unspent(chain) ==
    [id \in TxId |->
        IF HasTransaction(chain, id)
        THEN KeepAt(FindTransaction(chain, id).outs, UnspentAt(chain, id))
        ELSE << >>]

(* The balance of an owner: what the outputs under an index's keys that    *)
(* are locked with the owner's key add up to.                              *)
ValueOf(outs) == FoldLeft(LAMBDA sum, o : sum + o.value, 0, outs)

OwnedIn(index, owner) ==
    MapThenFoldSet(+, 0,
        LAMBDA id : ValueOf(SelectSeq(index[id], LAMBDA o : o.owner = owner)),
        LAMBDA S : CHOOSE id \in S : TRUE, TxId)

=============================================================================
