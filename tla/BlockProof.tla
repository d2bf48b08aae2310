----------------------------- MODULE BlockProof -----------------------------
(***************************************************************************)
(* The proof of work of a block and its validation (blockchain/block.go,   *)
(* proof.go, printchain of cli/cli.go).  The proof is over the root of a   *)
(* tree of encoded transactions, and an encoding holds the numbers that    *)
(* encoding/gob gave their types in this process: it numbers every type    *)
(* when it first encodes a value of it.  The parent's hash, the nonce and  *)
(* the difficulty, which are hashed too, are the same whoever validates a  *)
(* block, and left out; so is the search for a nonce.                      *)
(***************************************************************************)
EXTENDS MerkleTree, FiniteSets

CONSTANTS
    Server,        \* the processes of nodes that mine, started with startnode -miner
    Transactions,  \* the lists of transactions that are mined
    Message,       \* what a server may send besides "version", transactions and blocks
    Types,         \* how many types gob numbers for each message
    MaxBlocks,     \* bound: how many blocks are mined
    MaxPanics      \* bound: how many panics are recorded

ASSUME ListsAssumption ==
    \A txs \in Transactions : txs \in Seq(ToSet(txs)) /\ txs # << >>

ASSUME BoundAssumption ==
    /\ "command" \notin Server
    /\ Types \in [Message \cup {"version"} -> Nat \ {0}]
    /\ MaxBlocks \in Nat /\ MaxPanics \in Nat

VARIABLES
    up,        \* the servers that run
    sent,      \* the messages each has encoded
    types,     \* how many types it has numbered for them
    number,    \* the number it gave to the type Transaction; 0: none yet
    blocks,    \* the blocks mined, with the miner and its number of Transaction
    panicked,  \* history: the lists that NewMerkleTree panicked on
    printed    \* history: what printchain has said of blocks

vars == <<up, sent, types, number, blocks, panicked, printed>>

-----------------------------------------------------------------------------
(* gob gives the next number to the type Transaction, and those after it   *)
(* to the types inside; a process that has encoded one keeps the number.   *)
(* (A Reindex before the first Transaction would number the type of its    *)
(* outputs apart.  One number stands for both, since either way the bytes  *)
(* are not those of a process that has encoded nothing before.)            *)
NumberIn(s) == IF number[s] = 0 THEN types[s] + 1 ELSE number[s]

(* A command encodes nothing before its first transaction. *)
CommandNumber == 1

(* Transactions as a process encodes them. *)
Encoded(n, txs) == [i \in DOMAIN txs |-> <<n, txs[i]>>]

(* MineBlock of these transactions: Run hashes their tree, and the process *)
(* panics when that has an odd level.                                      *)
Mines(by, n, txs) ==
    LET data == Encoded(n, txs)
    IN  /\ Builds(data)
        /\ Cardinality(blocks) < MaxBlocks
        /\ blocks' = blocks \cup {[by |-> by, number |-> n, txs |-> txs,
                                   root |-> RootNode(data)]}

Overtaxed(n, txs) ==
    /\ ~Builds(Encoded(n, txs))
    /\ Cardinality(panicked \ {txs}) < MaxPanics
    /\ panicked' = panicked \cup {txs}

(* Validate: only the data whose hash Run found below the target pass. *)
Validates(n, b) == RootNode(Encoded(n, b.txs)) = b.root

Init ==
    /\ up = {}
    /\ sent = [s \in Server |-> {}]
    /\ types = [s \in Server |-> 0]
    /\ number = [s \in Server |-> 0]
    /\ blocks = {}
    /\ panicked = {}
    /\ printed = {}

(* Mutant: only the seed sends its version. *)
StartSilently(s) ==
    /\ s \notin up
    /\ up' = up \cup {s}
    /\ UNCHANGED <<sent, types, number, blocks, panicked, printed>>

(* A miner is not the seed: it starts by sending its version. *)
Start(s) ==
    /\ s \notin up
    /\ up' = up \cup {s}
    /\ sent' = [sent EXCEPT ![s] = {"version"}]
    /\ types' = [types EXCEPT ![s] = Types["version"]]
    /\ UNCHANGED <<number, blocks, panicked, printed>>

Ends(s) ==
    /\ up' = up \ {s}
    /\ sent' = [sent EXCEPT ![s] = {}]
    /\ types' = [types EXCEPT ![s] = 0]
    /\ number' = [number EXCEPT ![s] = 0]

Stop(s) ==
    /\ s \in up
    /\ Ends(s)
    /\ UNCHANGED <<blocks, panicked, printed>>

Send(s, m) ==
    /\ s \in up
    /\ m \notin sent[s]
    /\ sent' = [sent EXCEPT ![s] = @ \cup {m}]
    /\ types' = [types EXCEPT ![s] = @ + Types[m]]
    /\ UNCHANGED <<up, number, blocks, panicked, printed>>

(* AddBlock encodes a block that was received; gob numbers the type Block  *)
(* first and the transactions in it next.                                  *)
AddBlock(s) ==
    /\ s \in up
    /\ number[s] = 0
    /\ number' = [number EXCEPT ![s] = types[s] + 2]
    /\ UNCHANGED <<up, sent, types, blocks, panicked, printed>>

(* MineTx: CoinBaseTx encodes its transaction for its id.                  *)
MineTx(s, txs) ==
    /\ s \in up
    /\ \/ /\ Mines(s, NumberIn(s), txs)
          /\ number' = [number EXCEPT ![s] = NumberIn(s)]
          /\ UNCHANGED <<up, sent, types, panicked, printed>>
       \/ /\ Overtaxed(NumberIn(s), txs)
          /\ Ends(s)
          /\ UNCHANGED <<blocks, printed>>

(* Mutant: the wallets are saved, three types, before a transaction. *)
SendMineSaved(txs) ==
    /\ Len(txs) \in 1 .. 2
    /\ Mines("command", CommandNumber + 3, txs)
    /\ UNCHANGED <<up, sent, types, number, panicked, printed>>

(* createblockchain mines one transaction, send -mine two. *)
SendMine(txs) ==
    /\ Len(txs) \in 1 .. 2
    /\ Mines("command", CommandNumber, txs)
    /\ UNCHANGED <<up, sent, types, number, panicked, printed>>

(* printchain validates each block. *)
PrintChain ==
    /\ printed' = {<<b, Validates(CommandNumber, b)>> : b \in blocks}
    /\ printed' # printed
    /\ UNCHANGED <<up, sent, types, number, blocks, panicked>>

Next ==
    \/ \E s \in Server :
        \/ Start(s)
        \/ Stop(s)
        \/ \E m \in Message : Send(s, m)
        \/ AddBlock(s)
        \/ \E txs \in Transactions : MineTx(s, txs)
    \/ \E txs \in Transactions : SendMine(txs)
    \/ PrintChain

Spec == Init /\ [][Next]_vars

-----------------------------------------------------------------------------
(* A process that does not run has numbered nothing, and one that runs has *)
(* encoded its version.                                                    *)
TypeOK ==
    /\ up \subseteq Server
    /\ sent \in [Server -> SUBSET (Message \cup {"version"})]
    /\ types \in [Server -> Nat] /\ number \in [Server -> Nat]
    /\ \A s \in Server \ up : sent[s] = {} /\ types[s] = 0 /\ number[s] = 0
    /\ \A s \in up : "version" \in sent[s]
    /\ \A b \in blocks : b.txs \in Transactions
    /\ panicked \subseteq Transactions

(* The root built level by level, from the leaves up, is the root of the   *)
(* tree that halves its leaves, from the root down.                        *)
RootIsMeant == \A b \in blocks : b.root = TreeRoot(Padded(Encoded(b.number, b.txs)))

(* Mining panics just on the lists that module TxPool takes it to: those   *)
(* whose number, made even, is no power of two.  Five are the first.       *)
PanicsAsCounted ==
    /\ \A txs \in panicked : ~Pairable(Len(txs))
    /\ \A b \in blocks : Pairable(Len(b.txs))

(* "Any change of a transaction changes the root": transactions other than *)
(* a block's have another root, but for a last one that is repeated.       *)
RootTellsContent ==
    \A b \in blocks, txs \in Transactions :
        Builds(txs) /\ RootNode(Encoded(b.number, txs)) = b.root
            => Padded(txs) = Padded(b.txs)

(* A block that a command mined validates in any later printchain, and one *)
(* that a server mined does not, whatever the server sent and received     *)
(* before.                                                                 *)
CommandsValidate == \A p \in printed : p[2] <=> p[1].by = "command"

-----------------------------------------------------------------------------
(* "The nonce; verification can reproduce the target hash": printchain     *)
(* finds the proof of every block that was mined.  Not of a server's: its  *)
(* "version" was encoded before any transaction.                           *)
ProofReproduced == \A p \in printed : p[2]

=============================================================================
