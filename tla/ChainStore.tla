----------------------------- MODULE ChainStore -----------------------------
(***************************************************************************)
(* The block store of one node (blockchain/blockchain.go) under the        *)
(* goroutines of its server.  The database maps a block's hash to the      *)
(* block and the key "lh" to the tip; the process also keeps the tip in    *)
(* the field chain.LastHash.  Every badger transaction takes two steps:    *)
(* its body, run on a snapshot, and its commit, which fails when another   *)
(* transaction has since committed a key that the body read.               *)
(***************************************************************************)
EXTENDS Naturals

CONSTANTS
    Hash,      \* the blocks that can exist; a hash determines its block
    NoHash,    \* the empty PrevHash of the genesis block, and "none"
    Genesis,
    Prev,      \* Block.PrevHash
    Height,    \* Block.Height
    Remote,    \* the blocks other nodes mine and send to this one
    Thread,    \* the goroutines that handle connections
    Miner      \* those that may reach MineTx; {} on a node without -miner

ASSUME BlockTree ==
    /\ NoHash \notin Hash
    /\ Genesis \in Hash
    /\ Remote \subseteq Hash
    /\ Prev \in [Hash -> Hash \cup {NoHash}]
    /\ Height \in [Hash -> Nat]
    /\ \A h \in Hash : Prev[h] = NoHash <=> h = Genesis
    /\ \A h \in Hash \ {Genesis} : Height[h] = Height[Prev[h]] + 1

ASSUME MinerAssumption == Miner \subseteq Thread

VARIABLES
    stored,    \* the hashes that have a block in the database
    lh,        \* the value under the database key "lh"
    lastHash,  \* chain.LastHash, in memory
    up,        \* the node's process runs
    pc,        \* where each goroutine is in AddBlock or MineBlock
    blk,       \* the block it adds or has mined
    seen,      \* the tip its transaction read
    stale      \* a key its open transaction read has been overwritten

db == <<stored, lh>>
locals == <<pc, blk, seen, stale>>
vars == <<stored, lh, lastHash, up, pc, blk, seen, stale>>

-----------------------------------------------------------------------------
(* The hashes a BlockChainIterator started at h visits down to genesis.    *)
Chain[h \in Hash \cup {NoHash}] ==
    IF h = NoHash THEN {} ELSE {h} \cup Chain[Prev[h]]

(* Next finds every block of the walk in the database: GetBlockHashes,     *)
(* FindUTXO and FindTransaction reach genesis instead of panicking.        *)
Rooted(h) == Chain[h] \subseteq stored

Idle(t) == up /\ pc[t] = "idle"

(* Mutant: a block of the tip's own height replaces it. *)
HigherOrEqual(h, tip) == Height[h] >= Height[tip]

Higher(h, tip) == Height[h] > Height[tip]

(* The goroutine's operation returns. *)
Return(t) ==
    /\ pc' = [pc EXCEPT ![t] = "idle"]
    /\ blk' = [blk EXCEPT ![t] = NoHash]
    /\ seen' = [seen EXCEPT ![t] = NoHash]

(* Mutant: AddBlock takes the tip from memory and does not read "lh". *)
ReadsBlockOnly(u, b, movesTip) == pc[u] = "add" /\ b \in {blk[u], seen[u]}

(* badger: the keys an AddBlock body reads are its block's, "lh", and the  *)
(* key of the block that "lh" names.                                       *)
Reads(u, b, movesTip) ==
    pc[u] = "add" /\ (b \in {blk[u], seen[u]} \/ movesTip)

(* badger commits a transaction of goroutine t that writes block b and, if *)
(* movesTip, sets "lh" to it; open transactions that read these keys can   *)
(* no longer commit.                                                       *)
CommitBlock(t, b, movesTip) ==
    /\ stored' = stored \cup {b}
    /\ lh' = IF movesTip THEN b ELSE lh
    /\ stale' = [u \in Thread |-> u # t /\ (stale[u] \/ Reads(u, b, movesTip))]

(* A panic in any goroutine, or a signal, ends the whole process: what is  *)
(* in memory is gone, what is committed stays.                             *)
Die ==
    /\ up' = FALSE
    /\ lastHash' = NoHash
    /\ pc' = [t \in Thread |-> "idle"]
    /\ blk' = [t \in Thread |-> NoHash]
    /\ seen' = [t \in Thread |-> NoHash]
    /\ stale' = [t \in Thread |-> FALSE]
    /\ UNCHANGED db

-----------------------------------------------------------------------------
(* The store just after createblockchain, the node not yet started. *)
Init ==
    /\ stored = {Genesis}
    /\ lh = Genesis
    /\ lastHash = NoHash
    /\ up = FALSE
    /\ pc = [t \in Thread |-> "idle"]
    /\ blk = [t \in Thread |-> NoHash]
    /\ seen = [t \in Thread |-> NoHash]
    /\ stale = [t \in Thread |-> FALSE]

(* Mutant: the chain is opened without reading "lh". *)
StartWithoutTip ==
    /\ ~up
    /\ up' = TRUE
    /\ UNCHANGED <<stored, lh, lastHash, pc, blk, seen, stale>>

(* StartServer loads the chain with ContinueBlockChain. *)
Start ==
    /\ ~up
    /\ up' = TRUE
    /\ lastHash' = lh
    /\ UNCHANGED <<stored, lh, pc, blk, seen, stale>>

Crash == up /\ Die

(* Mutant: LastHash follows every block added. *)
AddBlockFollowing(t, h) ==
    /\ Idle(t)
    /\ h \notin stored
    /\ pc' = [pc EXCEPT ![t] = "add"]
    /\ blk' = [blk EXCEPT ![t] = h]
    /\ seen' = [seen EXCEPT ![t] = lh]
    /\ lastHash' = h
    /\ UNCHANGED <<stored, lh, up, stale>>

(* AddBlock, the body of its Update transaction, for a block that is not   *)
(* stored; for one that is, AddBlock returns having changed nothing.  The  *)
(* field LastHash is assigned here, before the commit.                     *)
AddBlockBody(t, h) ==
    /\ Idle(t)
    /\ h \notin stored
    /\ pc' = [pc EXCEPT ![t] = "add"]
    /\ blk' = [blk EXCEPT ![t] = h]
    /\ seen' = [seen EXCEPT ![t] = lh]
    /\ lastHash' = IF Higher(h, lh) THEN h ELSE lastHash
    /\ UNCHANGED <<stored, lh, up, stale>>

AddBlockCommit(t) ==
    /\ pc[t] = "add"
    /\ ~stale[t]
    /\ CommitBlock(t, blk[t], Higher(blk[t], seen[t]))
    /\ Return(t)
    /\ UNCHANGED <<lastHash, up>>

(* Mutant: the error of the commit is dropped. *)
AddBlockDropped(t) ==
    /\ pc[t] = "add"
    /\ stale[t]
    /\ stale' = [stale EXCEPT ![t] = FALSE]
    /\ Return(t)
    /\ UNCHANGED <<stored, lh, lastHash, up>>

(* The commit fails with ErrConflict and utils.Handle panics. *)
AddBlockConflict(t) ==
    /\ pc[t] = "add"
    /\ stale[t]
    /\ Die

(* MineBlock verifies the transactions first.  Each is looked up by a walk *)
(* from LastHash, which fails at once when that block is not in the        *)
(* database (yet).                                                         *)
MineVerify(t) ==
    /\ Idle(t)
    /\ lastHash \in stored
    /\ pc' = [pc EXCEPT ![t] = "verified"]
    /\ UNCHANGED <<stored, lh, lastHash, up, blk, seen, stale>>

(* Mutant: MineBlock takes the tip from memory. *)
MineOnMemoryTip(t) ==
    /\ pc[t] = "verified"
    /\ pc' = [pc EXCEPT ![t] = "mine"]
    /\ seen' = [seen EXCEPT ![t] = lastHash]
    /\ UNCHANGED <<stored, lh, lastHash, up, blk, stale>>

(* MineBlock reads the tip from the database in a View transaction; the    *)
(* proof of work that follows takes seconds.                               *)
MineReadTip(t) ==
    /\ pc[t] = "verified"
    /\ pc' = [pc EXCEPT ![t] = "mine"]
    /\ seen' = [seen EXCEPT ![t] = lh]
    /\ UNCHANGED <<stored, lh, lastHash, up, blk, stale>>

(* The proof of work ends: a block nobody has seen (its coinbase holds 24  *)
(* random bytes) on the tip that was read.  The body of MineBlock's Update *)
(* transaction, which reads no key, assigns LastHash.                      *)
MineSeal(t, h) ==
    /\ pc[t] = "mine"
    /\ h \notin stored
    /\ \A u \in Thread : blk[u] # h
    /\ Prev[h] = seen[t]
    /\ pc' = [pc EXCEPT ![t] = "write"]
    /\ blk' = [blk EXCEPT ![t] = h]
    /\ lastHash' = h
    /\ UNCHANGED <<stored, lh, up, seen, stale>>

MineCommit(t) ==
    /\ pc[t] = "write"
    /\ CommitBlock(t, blk[t], TRUE)
    /\ Return(t)
    /\ UNCHANGED <<lastHash, up>>

(* Any walk from LastHash (getblocks, FindUTXO, FindTransaction) that      *)
(* misses a block panics in Iterator.Next.                                 *)
WalkMissing ==
    /\ up
    /\ ~Rooted(lastHash)
    /\ Die

Next ==
    \/ Start
    \/ Crash
    \/ WalkMissing
    \/ \E t \in Thread :
        \/ \E h \in Remote : AddBlockBody(t, h)
        \/ AddBlockCommit(t)
        \/ AddBlockConflict(t)
    \/ \E t \in Miner :
        \/ MineVerify(t)
        \/ MineReadTip(t)
        \/ \E h \in Hash \ Remote : MineSeal(t, h)
        \/ MineCommit(t)

Spec == Init /\ [][Next]_vars

-----------------------------------------------------------------------------
(* The types of the state; a running process holds a tip and a stopped one *)
(* holds nothing in memory.                                                *)
TypeOK ==
    /\ stored \subseteq Hash
    /\ lh \in Hash
    /\ up \in BOOLEAN
    /\ IF up THEN lastHash \in Hash ELSE lastHash = NoHash
    /\ pc \in [Thread -> {"idle", "add", "verified", "mine", "write"}]
    /\ blk \in [Thread -> Hash \cup {NoHash}]
    /\ seen \in [Thread -> Hash \cup {NoHash}]
    /\ stale \in [Thread -> BOOLEAN]

(* MineBlock extends a block of the database: whatever interleaves with    *)
(* the proof of work, and wherever the process dies, the parent of a block *)
(* this node mined is stored with it.                                      *)
MinedOnStored == \A h \in stored \ Remote : h = Genesis \/ Prev[h] \in stored

(* A reader that starts a walk at LastHash finds the first block, or a     *)
(* goroutine is still inside the transaction that writes it: after a       *)
(* restart in particular the "lh" that is loaded names a stored block.     *)
TipReadable ==
    /\ lh \in stored
    /\ up => \/ lastHash \in stored
             \/ \E t \in Thread : pc[t] \in {"add", "write"} /\ blk[t] = lastHash

(* AddBlock moves the tip only upwards.  It compares with the tip of its   *)
(* snapshot, and MineBlock overwrites "lh" without reading it, so this     *)
(* rests on AddBlock's commit failing whenever "lh" moved meanwhile.       *)
AddBlockRaisesTip == [][lh' # lh /\ lh' \in Remote => Higher(lh', lh)]_vars

(* Once no goroutine is inside an operation, the tip in memory is the tip  *)
(* in the database, as long as no block mined here has been stored.  (A    *)
(* commit of MineBlock may fall between body and commit of an AddBlock     *)
(* that read an older tip, or the other way round; then they part.)        *)
PointersAgree ==
    /\ up
    /\ \A t \in Thread : pc[t] = "idle"
    /\ stored \subseteq Remote \cup {Genesis}
    => lastHash = lh

(* The abstract store that the database implements, with the blocks that   *)
(* only this node can mine as its own.                                     *)
Promise == INSTANCE LongestChain
    WITH known <- stored, tip <- lh, Own <- Hash \ Remote

(* Through all interleavings, conflicts and crashes each block is stored   *)
(* once, together with its effect on the tip.                              *)
PromiseKept == Promise!Spec

-----------------------------------------------------------------------------
(* "LastHash always points at the end of the longest chain": no stored     *)
(* block is higher than the tip.  A node that mines does not keep this.    *)
TipHighest == \A h \in stored : ~Higher(h, lh)

=============================================================================
