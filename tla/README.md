# Specifications of samplechain

TLA+ models, TLC configurations and TLAPS proofs for the blockchain node in
this repository (`blockchain/`, `network/`, `cli/`, `wallet/`).  File names
below are those of the repository.

## 1. Inventory

| Component | State it keeps | Operations | Interacts through |
|---|---|---|---|
| Block store (`blockchain.go`, `chain_iter.go`) | badger keys: block hash → block, `lh` → tip; in memory `LastHash` | InitBlockChain, ContinueBlockChain, AddBlock, MineBlock, GetBlock, GetBlockHashes, GetBestHeight, the iterator | shared by all goroutines of a server, no lock; badger transactions |
| UTXO index (`utxo.go`, `FindUTXO`) | badger keys `utxo-<txid>` → list of outputs | Reindex, Update, FindSpendableOutputs, FindUnspentTransactions | reads the chain, shares the database |
| Transactions (`transaction.go`, `tx.go`) | none | CoinBaseTx, NewTransaction, Sign, Verify, Hash | look previous transactions up on the chain |
| Command line (`cli.go`) | none | createblockchain, reindexutxo, send, createwallet, printchain, startnode, getbalance, listaddresses | one process on a node's database or wallet file |
| Block synchronisation (`network.go`) | `KnownNodes`, `blocksInTransit` | the handlers of version, getblocks, inv, getdata, block; StartServer | one TCP connection and one goroutine for each message |
| Transaction gossip and pool (`network.go`) | `memoryPool` | HandleTx, MineTx, the tx branches of HandleInv and HandleGetData | same; starts MineBlock |
| Proof of work and block codec (`proof.go`, `block.go`) | the type numbers that gob keeps in a process | Run, Validate, Serialize, HashTransactions | called by CreateBlock and printchain |
| Merkle tree (`merkle.go`) | none | NewMerkleNode, NewMerkleTree | called by HashTransactions |
| Wallets (`wallet/`) | a file with all key pairs of a node | CreateWallets, AddWallet, SaveFile, LoadFile, NewKeyPair | createwallet writes, send and listaddresses read |
| Error helper (`utils.go`) | none | Handle | turns every error into a panic |

What is hard about it:

* **Goroutines without locks.**  Every message is handled by a goroutine of its
  own; `LastHash`, `KnownNodes`, `blocksInTransit` and `memoryPool` are plain
  variables.  The only synchronisation is badger's optimistic concurrency: a
  transaction whose reads have been overwritten fails to commit, and
  `utils.Handle` turns that into a panic that ends the process.
* **A long step in the middle.**  MineBlock reads the tip, computes for seconds
  and then writes, in two transactions; MineTx selects from the pool before
  that and clears it afterwards.
* **Several transactions for one operation.**  send commits block and index
  separately, Reindex deletes and refills separately: a crash between them is
  a state the next command starts from, and two calls interleave.
* **Order of messages.**  Connections are independent, so messages overtake one
  another; a synchronisation fetches the tip first and genesis last.
* **Positions.**  Outputs are named by position, in lists whose gaps Update
  closes.
* **Bytes.**  What is hashed depends on the process that encodes it, and numbers
  are stored without the zeros that would keep their lengths apart.
* **A file without a lock** that each createwallet reads, truncates and writes.

What makes each component correct:

* store: a tip that can be read, with its ancestors behind it; a tip that only
  rises; memory and database that agree;
* index: equal to what a scan of the chain finds; the scan equal to the
  outputs no transaction spends;
* transactions: nothing spent twice or by a stranger, a payment moves what it
  says, what was signed verifies;
* synchronisation: no walk over a chain with a hole, every node gets the
  blocks it misses, requests go to nodes that can answer, every block of an
  inventory is requested;
* gossip and pool: a transaction reaches the miners, is mined, and mined once;
* proof of work and tree: a root for every block and one that tells its content,
  a proof that a later process finds again;
* wallets: no key is lost whose address somebody knows.

`PROJECT.json` lists the hazards one by one, each at its line, with the
property that covers it or the reason why none does.

## 2. Modules

| Module | Models | Instance |
|---|---|---|
| `LongestChain` | abstract: a store that learns blocks and whose tip moves only to a strictly higher one, or to a block of its own | |
| `ChainStore` | the block store of one node under concurrent goroutines, crashes and panics | `MCChainStore` |
| `ChainStoreProofs` | theorems about `ChainStore` | |
| `Utxo` | transactions, the chain scan and the index operations, as operators | |
| `CliLedger` | the command line on one database: chain and index through sends, reindexing and crashes (extends `Utxo`) | `MCCliLedger` |
| `CliLedgerProofs` | theorems about `CliLedger` and `Utxo` | |
| `Sync` | several nodes exchanging blocks at the level of messages | `MCSync` |
| `SyncProofs` | theorems about `Sync` | |
| `Lists` | taking elements out of a list, as an operator | |
| `Handlers` | HandleInv, HandleBlock and Reindex of one node, taken apart at each access to what goroutines share | `MCHandlers` |
| `HandlersProofs` | theorems about `Handlers` | |
| `MerkleTree` | NewMerkleTree, and the root it is meant to have, as operators | |
| `TxPool` | transactions from send over the seed to the miners' blocks (extends `MerkleTree`) | `MCTxPool` |
| `TxPoolProofs` | theorems about `TxPool` | |
| `BlockProof` | what a proof of work is computed over, in processes with different histories (extends `MerkleTree`) | `MCBlockProof` |
| `BlockProofProofs` | theorems about `BlockProof` and `MerkleTree` | |
| `Signature` | pairs of numbers as bytes and back, as operators | |
| `Wallets` | the wallet file under overlapping and killed commands, and what its keys sign (extends `Signature`) | `MCWallets` |
| `WalletsProofs` | theorems about `Wallets` | |
| `Lemmas` | what the proofs share: induction, recursive functions, bags, lists | |

A definition whose comment begins with "Mutant:" belongs to no specification:
it is what the definition after it would be with a plausible mistake, and the
property that `PROJECT.json` names for it fails when it is put there.

The network is cut in three by what its parts share: `Sync` has the messages of
block synchronisation with each handler as one action, `Handlers` interleaves
two of these handlers inside one node, `TxPool` has the pool and MineTx with its
overlapping calls.

### ChainStore

A block is its hash; `Prev` and `Height` are constant functions, since a hash
determines its block.  `stored` and `lh` are the database, `lastHash` the field
`chain.LastHash`.  Each goroutine has a `pc`, the block it works on (`blk`), the
tip its transaction read (`seen`), and a flag `stale`: some key that its open
transaction read has been overwritten by another commit.

* AddBlock takes two steps, the body of its transaction (`AddBlockBody`) and
  the commit (`AddBlockCommit`), or the panic when the commit meets a conflict
  (`AddBlockConflict`).  The body assigns `LastHash`, as the code does, before
  anything is committed.  Its reads are its own block's key, `lh`, and the key
  of the block `lh` names.
* MineBlock takes four: the lookups of VerifyTransaction (`MineVerify`), the
  View transaction that reads the tip (`MineReadTip`), the end of the proof of
  work with the body of the Update transaction (`MineSeal`), the commit
  (`MineCommit`).  That transaction reads nothing, so it never conflicts.
* `WalkMissing` is any walk from `LastHash` that comes to a missing block and
  panics.  `Crash` is a signal or an unrelated panic.  `Die`, which both and
  the conflict share, drops everything that is not committed.

`MineVerify` requires only that the block `LastHash` names is stored, the
weakest condition under which the lookups of its transactions can succeed.

### Utxo and CliLedger

A chain is a sequence of blocks, genesis first; a block is a sequence of
transactions; a transaction has an id, inputs and outputs.  Positions are the
code's indices plus one.  The index maps each id to the list under its key,
with the empty list for an absent key (Update deletes a key whose list would be
empty).  Which id is which number has no meaning: badger iterates over keys in
the order of the hashes, so `hashOrder` places every new id anywhere among the
others, and the Go map in NewTransaction gives the picked ids in any order.
Ids are content hashes: `IdOf` gives a transaction with the content of an
earlier one the id of that one.  The code's loops are recursive functions over
the rounds of the loop (`FindUTXO`, `Update`, `FindSpendableOutputs`).

The actions are the transactions that the commands commit: `CreateChain`,
`ClearIndex` (DeleteByPrefix), `FillIndex` (the rest of Reindex), `Send`
(NewTransaction and MineBlock), `ApplyUpdate` (Update).  Between any two of
them the process may die (`Crash`).  A send without sufficient funds panics
having changed nothing, and is no step; neither is one whose signature MineBlock
rejects because it was stored with uneven halves (`Wallets` has these).

### Sync

Blocks are named by the nodes that mined them from genesis on, so ancestors
and heights are those of sequences.  `net` is a bag of messages; a delivery
takes any of them, since every message has its own connection.  A message to a
node that is not running is never sent, and the sender forgets the node
(SendData); what a node has not read when it ends is lost.  Each handler is one
action that makes every change of its function.  AddBlock and MineBlock are
atomic here, except that the proof of work takes time (`StartMining`, `Seal`);
`ChainStore` is the module that takes them apart.  A walk over a chain with a
hole is a panic that ends the node (HandleGetBlocks, the Reindex of HandleBlock
and MineTx, and the lookups of MineTx).  A node mines whenever it likes, which
stands for the pool having reached two transactions; it runs one proof of work
at a time.

The panics of a sender whose write fails after the connection was made
(`network.go:166-169`), and of a receiver whose request was cut short (`244-247`,
`486-492`), are left out here and in `TxPool`: they need a peer that ends between
connecting and reading, and they only end a process.

### Handlers

One server, whose peers hold one chain; a block is its height.  Each goroutine
has a `pc` and its local values.  HandleInv is three steps: the list becomes the
inventory and its first block is requested (`HandleInv`), the rest is collected
from what the list is by then (`Filter`), the list is assigned (`Assign`).
HandleBlock is `HandleBlock` (the body of AddBlock's transaction), `Commit`,
`Check`, `Request`, `Slice`, `Assign` while blocks are left, and otherwise the
steps of Reindex: `View` and `Delete` (DeleteByPrefix reads its keys in one
transaction and deletes them in another), `ReadTip` (FindUTXO starts at
`LastHash`) and `Write`.  Blocks arrive in any order once they are asked for,
also those that an earlier process asked for.

`Panic` gathers what ends the process: an index into a list that has become
empty, a walk over a hole, a commit that conflicts, and `Torn`, the data race on
the three words of a slice.  A slice that was read torn need not panic; it may
also be a list that is too long, of blocks already requested.  The model takes
the worst of these, since the race is part of what `disturbed` excludes.

The index is a set of outputs for each transaction, and a chain determines it
(`Unspent`): here the question is which calls of Reindex win, and `Utxo` says
what one of them computes.

### TxPool and MerkleTree

A block is the set of the transactions it packs, and a chain the sequence of
its blocks after genesis.  `send` without `-mine` gives a transaction to the
seed (`Submit`); `HandleTx`, `HandleInv` and `HandleGetData` are the tx branches
of the handlers; `Empty` is the zero Transaction that HandleGetData sends when
the pool does not have what was asked.  A call of MineTx is a `job` with five
steps: `Select` (verify what is pooled), `BeginBlock` (MineBlock verifies again
and reads the tip), `Seal` (the block is stored, and is the tip, whatever the
tip has become), `Clear`, `Announce` with the recursive call.  Several calls
overlap.  Panics are the lookups of transactions that are not on the chain, the
Merkle tree of a number of transactions that it cannot pair, `KnownNodes[0]` of
an empty list, and `MapRace`, the Go runtime's stop of a process that reads and
writes a map at once.  Fetching blocks, which `Sync` has message by message, is
one message that carries a chain: the states in which a tip has arrived before
its ancestors, and the panics they lead to, are in `Sync` only.

`MerkleTree` builds the levels as NewMerkleTree does.  A hash is what was
hashed, so equal roots mean equal content.  `TreeRoot` is the reference: the
root over 2^k leaves pairs that of their first half with that of their second,
where the code pairs neighbours level by level.
`Pairable` is the condition under which `TxPool` lets a block be mined.

### BlockProof

gob numbers a type when a process first encodes a value of it, and the number
is part of the bytes.  A process keeps the messages it has encoded and the
number of Transaction once it has one; a `version` takes one number (and so do
`getblocks` and `getdata`), an `inv` two, a Block one before the transactions in
it.  The actions are the encodings that occur: `Start` of a miner, which sends
its version first; `Send`; `AddBlock`, which encodes a block received; `MineTx`,
whose coinbase is encoded for its id; `SendMine` for the commands that mine; and
`PrintChain`, which validates every block as a command does.  The parent's hash,
the nonce and the difficulty are hashed too, but alike in every process.

### Wallets and Signature

`file` is the set of keys in the wallet file.  createwallet is `Create` (load and
make a key), `Truncate` and `Write` (os.WriteFile opens with O_TRUNC and then
writes); commands overlap and are killed at any point.  `Send` signs with a key
of the file and notes whether Verify accepts.  ecdsa uses the first 32 bytes of
what it is given; the text that Sign builds begins with the hexadecimal form of
the same words for every transaction (`--- Transaction `, because `%x` applies
to what String returns), so what is signed is the same for all, and contents
play no part.  What decides is how numbers are stored: `Signature` has Bytes and
SetBytes over a small base.

## 3. What the runs check

Passing runs:

| Run | Configuration | Properties | States |
|---|---|---|---|
| `store_mine` | 3 goroutines, 2 of them miners, 9 blocks up to height 3 with two rival branches | TypeOK, MinedOnStored, TipReadable, PointersAgree, AddBlockRaisesTip, PromiseKept (refinement of `LongestChain`) | 323,601 |
| `ledger` | 2 owners (symmetric), reward 2, amounts 1 and 3, 4 blocks | TypeOK, NoPanic, ScanExact, IndexExact, PaymentSettles | 214,042 |
| `sync` | seed two blocks ahead of a miner and one ahead of another node, two blocks mined at any time, seed killed and restarted, fair | TypeOK, NoPanic, AskedIsHeld, JoinerSyncs, SeedLearns | 169,083 |
| `handlers` | 2 goroutines, an inventory of two blocks and genesis, the announcement of a third, server killed and restarted, fair | TypeOK, NoPanic, NothingMissing, IndexExact, IndexCatchesUp | 177,464 |
| `pool` | seed (killed and restarted) and a miner one block behind, 3 transactions, one badly signed and one spending an output of that block, 2 overlapping calls of MineTx, fair | TypeOK, NothingStuck, NothingLost, PackedOnce, AnsweredInFull, GossipReaches, PoolIsMined | 68,886 |
| `proof` | all lists of one to four of two transactions and some of five to eight, one server, commands | TypeOK, RootIsMeant, PanicsAsCounted, RootTellsContent, CommandsValidate | 5,418 |
| `wallets` | 2 commands, 3 keys, every pair of numbers of up to three digits as a signature | TypeOK, KeysKept, Readable, AcceptedWhenEven | 35,089 |

Runs that find a violation of something the repository says of itself:

| Run | What the repository says | What happens |
|---|---|---|
| `store_tip_highest` | `blockchain.go:25`, `:118`: the tip is always the end of the longest chain | MineBlock overwrites `lh` with a block on the tip it read before the proof of work, though a higher block has become the tip since |
| `ledger_owner` | `tx.go:164-168`: the key's hash must match the output's | after a gap was closed, an input's position names another owner's output, and Verify does not compare |
| `sync_interrupted` | `README.md:54`: nodes synchronise with the seed on startup | after a kill in the middle of a synchronisation the heights are equal, and nothing is requested |
| `handlers_hole` | `network.go:264`: all blocks are there when Reindex runs | a block is requested before the list is brought up to date; when it arrives in between, one block is requested twice and another never |
| `proof_lost` | `block.go:18`: verification can reproduce the target hash | printchain numbers the types of a transaction otherwise than the server that mined it, and finds the proof of each of its blocks false |

Other things the repository says, or that one would expect, do not hold either;
each was seen as a counterexample of one of these modules and has no run:

* `utxo.go:40-41`, the database always holds the unspent outputs: a payment to
  oneself whose two outputs are spent by one later payment leaves one behind.
  Update removes the first, the second moves up one position, and its removal
  misses it.  `IndexExact` is stated for chains without this.
* `transaction.go:67`, a coinbase is the only source of coins: after a crash
  between MineBlock and Update the same output is spent again.
* `merkle.go:59-60`, padding as in Bitcoin: only the leaves are padded, so a
  block of 5 or 6 transactions, four pooled ones and the coinbase, is a panic.
* On a node that has stored a block of its own, `LastHash` and `lh` may stay on
  different blocks: MineBlock writes without reading, so its commit may come
  before or after that of an AddBlock whose body ran on the other side of it.
* `network.go:264`, all blocks are there, fails in `Sync` too: with a miner two
  blocks ahead of the seed, the announcement of the block it mines next is
  handled before the greeting that would fetch its ancestors, or replaces
  `blocksInTransit` while they are fetched.  The seed stores the block, finds
  nothing in transit, and Reindex panics on the hole.
* `Nodes.md:91`, in the end all nodes synchronise to the same chain: a miner
  announces its block to the seed, the one node it knows; the seed pulls it and
  tells nobody, so a third node that knows the seed never learns of it.
* A miner with two pooled transactions that is still synchronising panics in
  MineTx, on a walk over the part of its chain that has not arrived.
* A signature or a public key whose first number is shorter than the second by
  more than one byte, or longer, is read back as two other numbers.

### Why the bounds are enough

* `ChainStore`: three goroutines let two conflict while a third overtakes both,
  and let two proofs of work run with an AddBlock between them.  The tree has two
  rival blocks of the same height from others (the first seen must stay the
  tip), a chain of two from others, and blocks this node may mine on each.
* `CliLedger`: a coin is made in block 1, split in block 2, its parts are spent
  in block 3, and block 4 spends what was left wrong.  Reward 2 with amounts 1
  and 3 gives payments from one output with and without change and payments
  that need two outputs.  Two owners are enough for a payment to touch the
  output of a stranger.
* `Sync`: two blocks are needed for one to overtake the other, three nodes for
  a synchronisation disturbed by a third, two starts for a crash to matter.
  `MaxMined` bounds how often mining starts, `MaxStarts` how often a node is
  started.  Instances with two miners were checked besides: with the seed killed,
  `TypeOK`, `NoPanic` and `AskedIsHeld` hold (793,666 states), without kills
  `JoinerSyncs` and `SeedLearns` (56,268 states).
* `Handlers`: two goroutines are what it takes to interleave; each of the lists
  of the handlers, empty, of one and of more blocks, occurs with two inventories;
  an output spent two blocks after it was made, one spent by the last block and
  ones that stay let a stale Reindex lose outputs, bring them back, or neither.
  `handlers_hole` takes one inventory of four blocks and one start.
* `TxPool`: two transactions make a pool full, a third arrives during a proof of
  work; the bad one stays for good; the one that needs the seed's block makes the
  lookups fail on a miner that has not fetched it.  Two jobs overlap; a third
  waits until one has ended (`MaxJobs`).  Each transaction is submitted once.
* `BlockProof`: eight transactions take every number of leaves up to three
  levels, odd ones padded and unpaddable ones.  Properties compare blocks with
  lists, not with one another, so one block at a time is enough; so is one server.
* `Wallets`: three digits give lengths that differ by none, one and two.

`CHECK_DEADLOCK FALSE` stands where the system comes to rest: a network whose
messages are read and whose bounds are reached, and a wallet file that a killed
command left truncated, which ends every later command.

### Conditions on properties

Most properties hold except in cases that the code does not handle.  A condition
names the case exactly, and where it is about the past a history variable holds
it.

* `PointersAgree` of `ChainStore` is stated until a block mined here is stored.
* `NoPanic`, `ScanExact` and `PaymentSettles` of `CliLedger` are stated for
  chains without a repeated transaction (`NoRepeat`).  Two payments of the same
  amount to oneself can have the same content, hence the same id; the second
  then overwrites the index entry of the first, and a reindex lists its outputs
  twice.
* `PaymentSettles` also requires that no two inputs spend outputs of the same
  transaction, and `IndexExact` that the chain is `Orderly`: outputs of each
  transaction are spent from the last to the first, none twice.  These are the
  cases in which closing gaps is harmless.
* `NoPanic` of `Sync` is stated until a block is mined, since announcements
  overtake one another (see above what happens then), and does not count
  MineTx. The seed is the highest at first, and no node but it has been started
  twice: a node that ends with a request on its way and starts again is answered
  with a block whose parents it never fetches, and HandleBlock walks over the
  hole.
* `AskedIsHeld` is stated while one node at most has mined, and the seed was the
  highest at first.  With two miners the seed can ask one for a block that only
  the other has, and so it can when a node starts higher than the seed.
* `PoolIsMined` asks for the transaction on the miner's chain, with two escapes.
  The miner's process ends: another pooled transaction spends an output that is
  not on the miner's chain, the Merkle tree cannot be built, the seed has been
  forgotten, or the map race.  Or the miner is disturbed: the block that packed
  the transaction may be replaced while the transaction is still pooled, and the
  transaction is then taken from the pool.
* `JoinerSyncs`, `SeedLearns` and `GossipReaches` are about nodes that know each
  other, and end with the processes they are about.  A node that was started
  before the seed has removed it from `KnownNodes` and does not try again.
* `NothingLost` and `PackedOnce` are stated for nodes that are not `disturbed`.
  Without it two overlapping calls of MineTx pack the same transactions twice,
  or one overwrites the block of the other; and a chain that arrives neither
  clears the pool of what it packs, nor keeps out what is still on its way,
  nor gives back what it replaces.
* `NoPanic` and `IndexCatchesUp` of `Handlers` are stated while each message
  comes after the one before it was handled (`disturbed`); then only calls of
  Reindex overlap.  An inventory that leaves a gap below one of its blocks, or
  below one that is stored, and a walk from a block that AddBlock has assigned
  to `LastHash` and not yet stored, disturb too.  `IndexExact` requires besides that the last Reindex ran
  alone (`raced`), and, with `NothingMissing`, that a process that ended with
  work to do has reindexed again (`cut`).  `NothingMissing` needs neither of the
  first two: overlapping calls never lose an output.
* `KeysKept` is stated until two calls of createwallet overlap or one is killed
  while it saves; `Readable` only until the latter.

### Fairness

* `Sync`: some message in flight is delivered in the end, and a proof of work
  ends.  A goroutine for an
  accepted connection is scheduled by Go's runtime, and nothing in a handler
  waits for another handler.  Weak fairness of `Deliver` as a whole is enough
  because a run has finitely many messages: a block is announced once, and each
  message is answered by at most one.
* `TxPool`: `Deliver` likewise, and the calls of MineTx of each miner run on.
* `Handlers`: every goroutine runs on, and some block that was requested arrives.

No fairness is assumed of starts, of submissions, of mining, of kills and of data
races, which need not happen.

## 4. What is proved

Each theorem holds for every value of the module's constants that satisfies its
assumptions: any number of nodes, goroutines or commands, chains of any
height, lists of any length, and no bound on how often a thing happens.

| Module | Theorem | Statement |
|---|---|---|
| `ChainStoreProofs` | `TypeCorrect` | `Spec => []TypeOK` |
| | `MinedOnStoredAlways` | `Spec => []MinedOnStored` |
| | `TipReadableAlways` | `Spec => []TipReadable` |
| | `AddBlockRaises` | `Spec => AddBlockRaisesTip` |
| | `PointersAgreeAlways` | `Spec => []PointersAgree` |
| | `Implements` | `Spec => PromiseKept` |
| `WalletsProofs` | `TypeCorrect` | `Spec => []TypeOK` |
| | `ReadableAlways` | `Spec => []Readable` |
| | `KeysKeptAlways` | `Spec => []KeysKept` |
| | `AcceptedWhenEvenAlways` | `Spec => []AcceptedWhenEven` |
| `HandlersProofs` | `TypeCorrect` | `Spec => []TypeOK` |
| | `NothingMissingAlways` | `Spec => []NothingMissing` |
| | `IndexExactAlways` | `Spec => []IndexExact` |
| | `NoPanicAlways` | `Spec => []NoPanic` |
| `TxPoolProofs` | `TypeCorrect` | `Spec => []TypeOK` |
| | `NothingStuckAlways` | `Spec => []NothingStuck` |
| | `AnsweredInFullAlways` | `Spec => []AnsweredInFull` |
| | `NothingLostAlways` | `Spec => []NothingLost` |
| | `PackedOnceAlways` | `Spec => []PackedOnce` |
| `SyncProofs` | `TypeCorrect` | `Spec => []TypeOK` |
| | `AskedIsHeldAlways` | `Spec => []AskedIsHeld` |
| | `NoPanicAlways` | `Spec => []NoPanic` |
| `BlockProofProofs` | `TypeCorrect` | `Spec => []TypeOK` |
| | `RootIsMeantAlways` | `Spec => []RootIsMeant` |
| | `PanicsAsCountedAlways` | `Spec => []PanicsAsCounted` |
| | `RootTellsContentAlways` | `Spec => []RootTellsContent` |
| | `CommandsValidateAlways` | `Spec => []CommandsValidate` |
| `CliLedgerProofs` | `TypeCorrect` | `Spec => []TypeOK` |
| | `ScanExactAlways` | `Spec => []ScanExact` |
| | `NoPanicAlways` | `Spec => []NoPanic` |
| | `IndexExactAlways` | `Spec => []IndexExact` |

### Assumptions

* `ChainStore`: `BlockTree` (genesis is the only block without a parent, a block
  is one higher than its parent, blocks of others are blocks) and
  `MinerAssumption` (miners are goroutines).
* `Wallets`: `FileAssumption`, a missing and a truncated file are not files of
  keys; `KeyAssumption`, numbers fit their width; `WidthAssumption` of
  `Signature`, a byte has at least two values (bytes of any base, numbers of any
  width: 256 and 32 in the code).
* `Handlers`: `ChainAssumption`, inventories are not empty, a transaction is born
  in one block, and an output that is spent is spent in some block.
* `TxPool`: `NodesAssumption`, the seed does not mine and the client is no node;
  `TxAssumption`, what is submitted is not among the transactions of the
  initial chains, and the empty transaction is none of either.
* `Sync`: `NodesAssumption`, the seed does not mine; `NamesAssumption`, a block
  that bears a miner's name is on that miner's initial chain, so that names of
  mined blocks, which stand for hashes, are new.
* `BlockProof`: `ListsAssumption`, lists of transactions are lists and not empty
  (a block has a coinbase); `BoundAssumption`, a command is no server, and every
  message makes gob number at least one type.
* `CliLedger`: `RewardAssumption`, a coinbase pays something and its input names
  no transaction; `BoundsAssumption`, amounts are positive (cli.go checks them)
  and there are two ids for each block up to the bound on the chain's length,
  which may be any number.

### The arguments

None of the properties is inductive as it stands.

`ChainStore`

* `SoundInv` strengthens `TypeOK` and `MinedOnStored`: `LocalsOK` says what the
  locals of a goroutine are at each `pc` (an AddBlock holds a block of others, a
  sealed block is one of this node's on the tip it read), and `DatabaseOK` that the
  tip of the database, and every tip a goroutine has read, is stored.  Blocks
  are never removed, so what was stored at the time of the read still is when the
  block is committed.
* `SnapshotOK` is the contract of badger's transactions: a goroutine in AddBlock
  whose transaction is not stale has seen the current `lh`, and its block is
  not stored.  This is what makes `AddBlockRaises` hold: the height compared in
  the body is the height of the tip at the commit.
* `PointerOK` says where `lastHash` may be while goroutines are inside AddBlock
  and no block mined here is stored; when all are idle it leaves only `lh`.
  `FollowedStep` and `PointerStep` carry it through a step.
* `FreshStep` and `FreshAlways` say that a block on its way into the database is
  not there yet; with `SnapshotOK` they make a commit of AddBlock a `Learn` of
  `LongestChain`, one of MineBlock a `Mine`, and every other step a stutter.

`Wallets`: a command that is writing holds every key that was in the file when
it began, and the file is truncated only while some command writes.
`Signature`: reading back the first k bytes of a number of n bytes gives it divided
by the (n - k)th power of the base (`PrefixValue`), so a cut after its last byte gives
the number (`WholeNumber`), an earlier cut a smaller one (`CutNumber`), and a later
cut a larger one (`ExtendedNumber`).  The cut is in the middle of both numbers
together, which is where they meet just when the second is as long as the first
or one byte longer (`RecoveredWhenEven`).

`Handlers`

* `PointerInv`: `lastHash` differs from the tip of the database only while a call
  of AddBlock that raises it is still to commit or to panic.
* `CoverInv`: unless the index covers what is unspent at `lastHash`, a walk is
  still to come (`Coming`): a block is asked for or handled, or a Reindex has not
  read the tip, or has read this one.  `NothingMissing` is what is left of it
  when nobody works.  `ExactInv` is the same with equality, while one call of
  Reindex runs at a time.
* `ListInv`, for `NoPanic`: while nothing is disturbed one goroutine uses the list
  (`OneBusy`), its `pc` tells which block is asked for (`PhaseInv`), what is stored
  together with what is still to be (`Remaining`) is closed under parents
  (`Closed`), and a walk that is about to begin meets no hole (`WalkInv`).

`TxPool`

* `AnswerInv`: what the seed has announced in its first run is in its pool.
* `LossInv`: one job holds a selection; what it holds is pooled, and what was
  received is pooled or on the chain, and also on the chain that the block being
  mined extends, since that chain will replace the node's.
* `OneLeads`: of the messages that lead to a node's pooling a transaction that
  was submitted once there is one at a time.  `Unsent`: a transaction that was
  not submitted is nowhere.  `FreshInv`: what is on its way to a node has not been
  there.  `OnceInv`: what is pooled is on the chain only by the block whose
  transactions are about to be removed from the pool.

`Sync`

* `Star`: nodes talk to the seed and the seed to them, nobody else to anybody.
  `Known`: blocks are those of the beginning or mined.  `Held`: who names a block
  in an inventory or sends it has it, and what a node has in transit the seed has.
* `SeedInv`, for `AskedIsHeld` of the seed's own requests: the seed fetches only
  from the one node that has mined, and every other node is not higher than it.
* `SeedStill`, `Began`, `WalkInv`, for `NoPanic`: until a block is mined a node in
  its first run has one message under way between it and the seed (`Lone`), and
  what it lacks of the seed's chain is in that message or in transit, so that
  the chain is whole when its last block arrives.

`BlockProof` and `MerkleTree`

* `TopFacts`: the levels below the first odd one are each twice as long as the
  next; `SizesBelow` makes this a power of two times the odd length, and
  `OddFactor`, a power of two has no odd factor but 1, makes `Builds` the same
  as `Pairable`.
* `UpperLevels`: trees with equal roots have equal levels, counted from the
  root; since a leaf is no pair they have the same height, hence the same leaves
  (`RootTellsLeaves`).
* `RootIsTreeRoot`: the i-th node of level k is the halving tree's over the 2^k
  leaves after the first (i - 1) 2^k (`Segments` is the arithmetic of that).
* `BlocksInv` and `NumbersInv`: a server has numbered types before its first
  transaction, so its number is at least 2, while a command's is 1; by
  `EqualRoots` another number is another root.

`CliLedger` and `Utxo`

* `ChainInv`, for `TypeOK` and `ScanExact`: the ids are those of the chain's
  transactions, each once in `hashOrder` (`Hashes`); a transaction spends outputs
  of earlier blocks only (`Linked`); transactions with the same id are the same,
  and are two payments (`Repeats`).  Since spends point backwards, a scan from
  the tip has seen every spend of a transaction before it comes to the
  transaction (`TxScanned`, `BlockScanned`, `ChainScanned`).
* `PanicInv`, for `NoPanic`.  The inputs of a payment are in ascending order under
  each id (`InputsMade`), so that when Update comes to one, the list still holds
  an output for each input that is left: no key is absent (`RemovedInputs`,
  `Updated`).  As long as the chain has no repeats no list under a key is longer
  than the outputs of its transaction (`Fits`), so the positions that the
  index offers are on the chain when they are signed and verified.
* `ExactInv`, for `IndexExact`: the index is what is unspent of the chain, and
  between MineBlock and Update of the blocks before the last one (`Exact`).
  `OrderlyUnique`: an orderly chain has no repeats.  `UnspentStart`: what is
  unspent of a transaction is a start of its list of outputs, so positions in
  the index are positions in the transaction.  A payment therefore takes the
  last of such a start, and Update leaves the shorter start (`UpdateExact`).

### Induction

The induction theorems of the library take an operator as parameter, which the
installed provers cannot instantiate.  `Lemmas` gets the principle from sets
instead: inclusion of finite sets is well founded, `0 .. n - 1` grows with n, so
every set of naturals that is not empty has a smallest element
(`SmallestExists`), and a set that holds 0 and the successors of its elements
holds all (`Induction`).  With it the proofs go through lists and levels, and
show that a function defined by recursion exists and satisfies its equation
(`WithoutElements`, `LevelsAre`, `TreeRootIs`, `PowerStep`).

The loops of `Utxo` are treated the same way by `Steps` (a recursive function
over the rounds of a loop exists and satisfies its equation), `Rounds` and
`SameSteps`; each operator of `Utxo` then has a lemma that unfolds it into
rounds (`ScanBlockSteps`, `UpdateSteps`, `SpendableSteps`, ...), and a property
of the rounds goes through by `Induction`.

Only model-checked: `PaymentSettles`, which adds up balances over all ids with a
fold of the community modules, so that a proof would need induction over
that fold's data; and all liveness (`JoinerSyncs`, `SeedLearns`, `IndexCatchesUp`, `GossipReaches`,
`PoolIsMined`), since fairness and ENABLED are outside the proof system.

## 5. Not modelled, and why

* HandleAddr, RequestBlocks, SendAddr: nothing sends an `addr` message.
* Hashes and the elliptic curve: taken to be injective, and to accept exactly the
  pair that was signed.  base58 and the checksum of addresses: an address names
  its key.
* Creating the database is one step.  A process that dies during the genesis
  proof of work leaves a database without `lh`, on which createblockchain refuses
  to run and every other command panics; no step leads out of it.  Nor is the
  removal of a stale LOCK file modelled.
* getbalance and listaddresses only read (the balance is an operator of `Utxo`).
* `SmartContract.md`, a design without code.

## 6. Plan

1. Done: all modules of section 2 and the theorems of section 4.
2. `PaymentSettles`: needs what `OwnedIn` of an index is after one key has
   changed, which is a statement about a fold over all ids.
