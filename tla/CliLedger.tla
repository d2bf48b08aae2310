------------------------------ MODULE CliLedger ------------------------------
(***************************************************************************)
(* The command line on the database of one node (cli/cli.go):              *)
(* createblockchain, reindexutxo and send -mine.  badger's directory lock  *)
(* admits one process at a time, but each command commits several badger   *)
(* transactions, and the process may die between two of them.              *)
(***************************************************************************)
EXTENDS Utxo

CONSTANTS
    Owner,      \* the wallets' addresses
    Amounts,    \* the amounts that are sent
    MaxBlocks   \* bound: the length of the chain

ASSUME BoundsAssumption ==
    /\ Amounts \subseteq Nat \ {0}
    /\ MaxBlocks \in Nat \ {0}
    /\ TxId = 1 .. 2 * MaxBlocks

VARIABLES
    chain,      \* the blocks from genesis to the tip; << >>: no database
    index,      \* the entries under "utxo-"
    hashOrder,  \* the ids of the chain's transactions in the order of their hashes
    step,       \* what the running command has committed; "idle": none runs
    synced      \* history: every block of the chain has been put in the index

vars == <<chain, index, hashOrder, step, synced>>

-----------------------------------------------------------------------------
Init ==
    /\ chain = << >>
    /\ index = NoOutputs
    /\ hashOrder = << >>
    /\ step = "idle"
    /\ synced = FALSE

(* createblockchain: InitBlockChain commits the genesis block and its tip. *)
CreateChain(to) ==
    /\ step = "idle"
    /\ chain = << >>
    /\ chain' = <<<<CoinBaseTx(1, to)>>>>
    /\ hashOrder' = <<1>>
    /\ step' = "created"
    /\ UNCHANGED <<index, synced>>

(* Mutant: Reindex only adds to the index. *)
KeepIndex ==
    /\ step = "created" \/ (step = "idle" /\ chain # << >>)
    /\ step' = "cleared"
    /\ UNCHANGED <<chain, index, hashOrder, synced>>

(* createblockchain goes on to Reindex, reindexutxo starts with it:        *)
(* DeleteByPrefix empties the index in a transaction of its own.           *)
ClearIndex ==
    /\ step = "created" \/ (step = "idle" /\ chain # << >>)
    /\ index' = NoOutputs
    /\ step' = "cleared"
    /\ UNCHANGED <<chain, hashOrder, synced>>

(* Reindex writes what FindUTXO finds, and the command ends. *)
FillIndex ==
    /\ step = "cleared"
    /\ LET utxo == FindUTXO(chain)
       IN  index' = [id \in TxId |-> IF utxo[id] = << >> THEN index[id] ELSE utxo[id]]
    /\ step' = "idle"
    /\ synced' = TRUE
    /\ UNCHANGED <<chain, hashOrder>>

-----------------------------------------------------------------------------
(* An id is a hash of the transaction's content: the same content has the  *)
(* id it already has on the chain, another a new one.  Only the coinbase,  *)
(* with its random bytes, is always new.                                   *)
IdOf(ins, outs) ==
    LET same == {tx \in Txs(chain) : tx.ins = ins /\ tx.outs = outs}
    IN  IF same = {} THEN Len(hashOrder) + 2 ELSE (CHOOSE tx \in same : TRUE).id

(* A new id's hash may fall anywhere among the others.  (Nothing is sent   *)
(* after block MaxBlocks, and the place of its ids is never looked at.)    *)
Placed(order, id) ==
    LET places == IF Len(chain) + 1 = MaxBlocks THEN {Len(order) + 1}
                                               ELSE 1 .. Len(order) + 1
    IN  IF id \in ToSet(order) THEN {order}
                               ELSE {InsertAt(order, k, id) : k \in places}

(* send -mine: NewTransaction, then MineBlock of a coinbase for the sender *)
(* and the transaction.  Too few funds, and an input that does not         *)
(* resolve, are panics that leave the database as it is; the first is no   *)
(* step here, and neither is the panic of MineBlock on a good signature    *)
(* that was stored with uneven halves (module Signature).                  *)
Send(from, to, amount) ==
    /\ step = "idle"
    /\ chain # << >>
    /\ Len(chain) < MaxBlocks
    /\ LET pick == FindSpendableOutputs(index, hashOrder, from, amount)
           ids  == {id \in TxId : pick.outs[id] # << >>}
       IN  /\ pick.value >= amount
           /\ \E order \in SetToSeqs(ids) :
                LET ins  == InputsOf(pick.outs, order, from)
                    outs == OutputsOf(pick.value, amount, from, to)
                    cb   == CoinBaseTx(Len(hashOrder) + 1, from)
                    tx   == [id |-> IdOf(ins, outs), ins |-> ins, outs |-> outs]
                IN  IF Resolves(chain, tx)
                    THEN /\ chain' = Append(chain, <<cb, tx>>)
                         /\ hashOrder' \in UNION {Placed(o, tx.id) : o \in Placed(hashOrder, cb.id)}
                         /\ step' = "mined"
                    ELSE /\ step' = "panicked"
                         /\ UNCHANGED <<chain, hashOrder>>
    /\ UNCHANGED <<index, synced>>

(* send goes on to Update the index with the block it mined. *)
ApplyUpdate ==
    /\ step = "mined"
    /\ LET upd == Update(index, Last(chain))
       IN  IF upd.absent = {}
           THEN index' = upd.index /\ step' = "idle"
           ELSE step' = "panicked" /\ UNCHANGED index
    /\ UNCHANGED <<chain, hashOrder, synced>>

(* The process ends between two transactions of its command. *)
Crash ==
    /\ step # "idle"
    /\ step' = "idle"
    /\ synced' = FALSE
    /\ UNCHANGED <<chain, index, hashOrder>>

Next ==
    \/ \E o \in Owner : CreateChain(o)
    \/ ClearIndex
    \/ FillIndex
    \/ \E from, to \in Owner, amount \in Amounts : Send(from, to, amount)
    \/ ApplyUpdate
    \/ Crash

Spec == Init /\ [][Next]_vars

-----------------------------------------------------------------------------
TypeOK ==
    LET Output == [value : Nat \ {0}, owner : Owner]
    IN  /\ \A tx \in Txs(chain) :
               /\ tx.id \in TxId
               /\ ToSet(tx.outs) \subseteq Output
               /\ \A in \in ToSet(tx.ins) : in.key \in Owner
        /\ \A id \in TxId : ToSet(index[id]) \subseteq Output
        /\ ToSet(hashOrder) = {tx.id : tx \in Txs(chain)}
        /\ step \in {"idle", "created", "cleared", "mined", "panicked"}
        /\ synced \in BOOLEAN

(* The chain holds no transaction twice.  It can: two payments of the same *)
(* amount to oneself, or a payment repeated after a crash before Update,   *)
(* may have the same content and so the same id.                           *)
NoRepeat ==
    \A n, m \in DOMAIN chain : \A k \in DOMAIN chain[n], l \in DOMAIN chain[m] :
        chain[n][k].id = chain[m][l].id => n = m /\ k = l

(* However far the index has drifted from the chain, by its gaps being     *)
(* closed or by a crash before Update, an output it offers names an output *)
(* that exists, and Update finds the key of every output that was picked:  *)
(* no command ends in a panic of a lookup or of Update.  (The panics on    *)
(* too few funds and on a signature that was stored unevenly are left      *)
(* out.)                                                                   *)
NoPanic == NoRepeat => step # "panicked"

(* FindUTXO, a single pass backwards over the chain, finds just the        *)
(* outputs that no transaction spends, on every chain the commands build,  *)
(* double spends included, that does not hold the same transaction twice.  *)
ScanExact == NoRepeat => FindUTXO(chain) = Unspent(chain)

(* No transaction spends an output before a later output of the same       *)
(* transaction has been spent, and none an output already spent: closing   *)
(* the gap has then never moved an output to another position.             *)
Orderly ==
    \A n \in DOMAIN chain : \A k \in DOMAIN chain[n] : \A s \in Spends(chain[n][k]) :
        LET before == AllSpent(SubSeq(chain, 1, n - 1))
        IN  /\ s \notin before
            /\ \A p \in DOMAIN FindTransaction(chain, s[1]).outs :
                   p > s[2] => <<s[1], p>> \in before

(* Between commands the index that Update maintains is the index that a    *)
(* scan of the chain would build, through any mix of sends, reindexing and *)
(* crashes, as long as the chain is orderly and a reindex has followed the *)
(* last crash.                                                             *)
IndexExact == step = "idle" /\ synced /\ Orderly => index = Unspent(chain)

(* A payment settles: when Update commits, the sender's balance is down by *)
(* the amount and up by the block reward, the recipient's is up by the     *)
(* amount, and no other moves, even when the positions that the inputs     *)
(* name are wrong.  This needs that the sender picked no two outputs of    *)
(* the same transaction, and that the transaction is a new one: two        *)
(* payments of the same amount can be the same transaction.                *)
PaymentSettles ==
    [][ApplyUpdate =>
        LET tx   == Last(chain)[2]
            from == tx.ins[1].key
            paid == tx.outs[1]
        IN  /\ Cardinality({s[1] : s \in Spends(tx)}) = Len(tx.ins)
            /\ NoRepeat
            =>
            \A o \in Owner :
                OwnedIn(index', o) + (IF o = from THEN paid.value ELSE 0) =
                OwnedIn(index, o) + (IF o = paid.owner THEN paid.value ELSE 0)
                                  + (IF o = from THEN Reward ELSE 0)]_vars

-----------------------------------------------------------------------------
(* What a comment promises and the code does not keep.                     *)

(* "PubKey -> hash -> does it match Output.PubKeyHash": an output is spent *)
(* with the key of its owner.                                              *)
SpendsOwn ==
    \A tx \in Txs(chain) : ~IsCoinBase(tx) =>
        \A in \in ToSet(tx.ins) :
            FindTransaction(chain, in.id).outs[in.out].owner = in.key

=============================================================================
