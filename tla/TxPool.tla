------------------------------- MODULE TxPool -------------------------------
(***************************************************************************)
(* Transactions on their way into blocks (network/network.go): the gossip  *)
(* from the seed to the miners, the memory pools, and MineTx, whose calls  *)
(* run on one pool and one chain without a lock.  A block is the set of    *)
(* the transactions it packs, the coinbase apart, and a chain the sequence *)
(* of its blocks after genesis.  The messages by which nodes fetch blocks  *)
(* (module Sync) are one message here, which carries a chain.              *)
(***************************************************************************)
EXTENDS MerkleTree, FiniteSets, Bags

CONSTANTS
    Seed,          \* localhost:3000
    Miner,         \* the other nodes, started with -miner
    Mortal,        \* the nodes that may be killed
    Client,        \* the sender of a transaction that send submits
    Tx,            \* the transactions that are submitted
    Old,           \* those on the chains at first
    Empty,         \* the empty transaction, stored under the empty id
    Bad,           \* the transactions whose signatures Verify rejects
    Needs,         \* the transactions whose outputs a transaction spends
    InitialChain,
    MaxJobs,       \* bound: how many calls of MineTx overlap on a node
    MaxSends,      \* bound: how often each transaction is submitted
    MaxStarts      \* bound: how often a node is started

Node == Miner \cup {Seed}
Job == 1 .. MaxJobs
Id == Tx \cup Old \cup {Empty}
Chain == Seq(SUBSET Id)

ASSUME NodesAssumption ==
    /\ Seed \notin Miner /\ Client \notin Node
    /\ Mortal \subseteq Node

ASSUME TxAssumption ==
    /\ Tx \cap Old = {} /\ Empty \notin Tx \cup Old /\ Bad \subseteq Tx
    /\ Needs \in [Id -> SUBSET Id] /\ Needs[Empty] = {}
    /\ InitialChain \in [Node -> Seq(SUBSET Old)]

ASSUME BoundAssumption ==
    MaxJobs \in Nat \ {0} /\ MaxSends \in [Tx -> Nat] /\ MaxStarts \in Nat

VARIABLES
    up,         \* the nodes whose process runs
    peers,      \* KnownNodes without the node itself; others know at most the seed
    pool,       \* memoryPool, its ids
    chain,      \* the chain that ends at "lh"
    job,        \* the calls of MineTx on each node
    net,        \* the messages in flight, a bag
    sends,      \* how often each transaction was submitted
    starts,     \* how often each node was started
    received,   \* history: what HandleTx has pooled since the node's start
    disturbed   \* history: nodes whose jobs held selections at the same time,
                \* or which took over a chain that lacks blocks of theirs or
                \* packs what they have pooled or what is on its way

vars == <<up, peers, pool, chain, job, net, sends, starts, received, disturbed>>

-----------------------------------------------------------------------------
Idle == [pc |-> "idle", txs |-> {}, parent |-> << >>]

Selecting == [Idle EXCEPT !.pc = "select"]

Packed(c) == UNION ToSet(c)

(* VerifyTransaction finds what a transaction spends, else it panics. *)
Found(t, c) == Needs[t] \subseteq Packed(c)

TxMsg(n, p, t)   == [type |-> "tx", from |-> n, to |-> p, tx |-> t]
Inv(n, p, t)     == [type |-> "inv", from |-> n, to |-> p, tx |-> t]
GetData(n, p, t) == [type |-> "getdata", from |-> n, to |-> p, tx |-> t]
Version(n, p)    == [type |-> "version", from |-> n, to |-> p, chain |-> chain[n]]
Blocks(n, p, c)  == [type |-> "blocks", from |-> n, to |-> p, chain |-> c]

(* Mutant: nobody notices that the receiver is down. *)
SentBlindly(mail, msgs) == mail (+) SetToBag(msgs)

(* SendData: what is sent to a node that does not listen is dropped, and   *)
(* the node is forgotten.  (A write that fails once the connection stands  *)
(* is a panic of the sender, and left out.)                                *)
Sent(mail, msgs) == mail (+) SetToBag({r \in msgs : r.to \in up})

Reached(known, msgs) == known \ {r.to : r \in {x \in msgs : x.to \notin up}}

Received(m) == net (-) SetToBag({m})

(* The messages that lead to n's pooling a transaction. *)
OnTheWay(n) ==
    {m \in BagToSet(net) : /\ m.type \in {"tx", "inv", "getdata"}
                           /\ n \in {m.from, m.to} \/ m.from = Client}

(* How many messages of these types the goroutines of n may be handling. *)
Handling(n, types) ==
    BagCardinality([m \in {x \in BagToSet(net) : x.to = n /\ x.type \in types} |-> net[m]])

(* The process of n ends, by a signal or a panic. *)
Stops(n, mail) ==
    /\ up' = up \ {n}
    /\ peers' = [peers EXCEPT ![n] = {}]
    /\ pool' = [pool EXCEPT ![n] = {}]
    /\ job' = [job EXCEPT ![n] = [j \in Job |-> Idle]]
    /\ net' = [r \in {x \in BagToSet(mail) : x.to # n} |-> mail[r]]
    /\ received' = [received EXCEPT ![n] = {}]
    /\ UNCHANGED <<chain, sends, starts, disturbed>>

-----------------------------------------------------------------------------
Init ==
    /\ up = {}
    /\ peers = [n \in Node |-> {}]
    /\ pool = [n \in Node |-> {}]
    /\ chain = InitialChain
    /\ job = [n \in Node |-> [j \in Job |-> Idle]]
    /\ net = EmptyBag
    /\ sends = [t \in Tx |-> 0]
    /\ starts = [n \in Node |-> 0]
    /\ received = [n \in Node |-> {}]
    /\ disturbed = {}

(* StartServer: a node greets the seed. *)
Start(n) ==
    LET hello == IF n = Seed THEN {} ELSE {Version(n, Seed)}
    IN  /\ n \notin up
        /\ starts[n] < MaxStarts
        /\ up' = up \cup {n}
        /\ peers' = [peers EXCEPT ![n] = Reached({Seed} \ {n}, hello)]
        /\ net' = Sent(net, hello)
        /\ starts' = [starts EXCEPT ![n] = @ + 1]
        /\ UNCHANGED <<pool, chain, job, sends, received, disturbed>>

Kill(n) == n \in up \cap Mortal /\ Stops(n, net)

(* send without -mine. *)
Submit(t) ==
    /\ sends[t] < MaxSends[t]
    /\ sends' = [sends EXCEPT ![t] = @ + 1]
    /\ net' = Sent(net, {TxMsg(Client, Seed, t)})
    /\ UNCHANGED <<up, peers, pool, chain, job, starts, received, disturbed>>

(* The seed comes to know the node; the blocks that the lower of the two   *)
(* then fetches are one message.                                           *)
HandleVersion(m) ==
    LET n     == m.to
        reply == IF Len(chain[n]) > Len(m.chain) THEN {Blocks(n, m.from, chain[n])}
                 ELSE IF Len(chain[n]) < Len(m.chain) THEN {Blocks(m.from, n, m.chain)}
                 ELSE {}
    IN  /\ m.type = "version"
        /\ net' = Sent(Received(m), reply)
        /\ peers' = [peers EXCEPT ![n] = Reached(@, reply) \cup {m.from}]
        /\ UNCHANGED <<up, pool, chain, job, sends, starts, received, disturbed>>

(* The higher chain becomes the node's, and its pool stays as it is.  The  *)
(* chain arrives whole: how a tip arrives before its ancestors, and the    *)
(* panics of walks that miss them, are in module Sync.                     *)
HandleBlocks(m) ==
    LET n == m.to
    IN  /\ m.type = "blocks"
        /\ net' = Received(m)
        /\ IF Len(m.chain) > Len(chain[n])
           THEN /\ chain' = [chain EXCEPT ![n] = m.chain]
                /\ disturbed' = disturbed \cup
                      {k \in {n} : \/ ~IsPrefix(chain[n], m.chain)
                                  \/ Packed(m.chain) \cap received[n] # {}
                                  \/ \E r \in OnTheWay(n) : r.tx \in Packed(m.chain)}
           ELSE UNCHANGED <<chain, disturbed>>
        /\ UNCHANGED <<up, peers, pool, job, sends, starts, received>>

(* Mutant: the seed passes transactions on without keeping them. *)
PooledByMiners(n, t) == IF n = Seed THEN pool[n] ELSE pool[n] \cup {t}

Pooled(n, t) == pool[n] \cup {t}

(* Mutant: more than two. *)
MoreThanTwo(size) == size > 2

Enough(size) == size >= 2

(* Every transaction is pooled.  The seed tells the nodes it knows, but    *)
(* not the sender.  Another node reads KnownNodes[0] first, which panics   *)
(* when the seed has been forgotten, and calls MineTx once its pool holds  *)
(* enough.                                                                 *)
HandleTx(m) ==
    LET n    == m.to
        news == {Inv(n, p, m.tx) : p \in peers[n] \ {m.from}}
        free == {j \in Job : job[n][j] = Idle}
        kept == /\ pool' = [pool EXCEPT ![n] = Pooled(n, m.tx)]
                /\ received' = [received EXCEPT ![n] = @ \cup {m.tx}]
                /\ UNCHANGED <<up, chain, sends, starts, disturbed>>
    IN  /\ m.type = "tx"
        /\ \/ /\ n = Seed
              /\ kept
              /\ net' = Sent(Received(m), news)
              /\ peers' = [peers EXCEPT ![n] = Reached(@, news)]
              /\ UNCHANGED job
           \/ /\ n # Seed /\ peers[n] # {}
              /\ kept
              /\ net' = Received(m)
              /\ \/ ~Enough(Cardinality(pool'[n])) /\ UNCHANGED job
                 \/ /\ Enough(Cardinality(pool'[n]))
                    /\ \E j \in free :
                          /\ \A k \in free : j <= k
                          /\ job' = [job EXCEPT ![n][j] = Selecting]
              /\ UNCHANGED peers
           \/ n # Seed /\ peers[n] = {} /\ Stops(n, Received(m))

(* Mutant: nothing is requested while something is pooled. *)
HandleInvWhenEmpty(m) ==
    LET n       == m.to
        request == IF pool[n] # {} THEN {} ELSE {GetData(n, m.from, m.tx)}
    IN  /\ m.type = "inv"
        /\ net' = Sent(Received(m), request)
        /\ peers' = [peers EXCEPT ![n] = Reached(@, request)]
        /\ UNCHANGED <<up, pool, chain, job, sends, starts, received, disturbed>>

(* HandleInv, for a transaction: it is requested unless it is pooled. *)
HandleInv(m) ==
    LET n       == m.to
        request == IF m.tx \in pool[n] \ {Empty} THEN {} ELSE {GetData(n, m.from, m.tx)}
    IN  /\ m.type = "inv"
        /\ net' = Sent(Received(m), request)
        /\ peers' = [peers EXCEPT ![n] = Reached(@, request)]
        /\ UNCHANGED <<up, pool, chain, job, sends, starts, received, disturbed>>

(* HandleGetData, for a transaction: one that is not pooled is answered    *)
(* with the empty one.                                                     *)
HandleGetData(m) ==
    LET n     == m.to
        reply == {TxMsg(n, m.from, IF m.tx \in pool[n] THEN m.tx ELSE Empty)}
    IN  /\ m.type = "getdata"
        /\ net' = Sent(Received(m), reply)
        /\ peers' = [peers EXCEPT ![n] = Reached(@, reply)]
        /\ UNCHANGED <<up, pool, chain, job, sends, starts, received, disturbed>>

Deliver ==
    \E m \in BagToSet(net) :
        \/ HandleVersion(m)
        \/ HandleBlocks(m)
        \/ HandleTx(m)
        \/ HandleInv(m)
        \/ HandleGetData(m)

-----------------------------------------------------------------------------
(* Mutant: one transaction that does not pass keeps all from being mined. *)
AllOrNothing(n) == IF pool[n] \cap Bad = {} THEN pool[n] ELSE {}

(* The transactions that VerifyTransaction lets pass. *)
Valid(n) == pool[n] \ Bad

(* MineTx verifies every pooled transaction and selects those that pass;   *)
(* one whose previous transactions are not on the chain is a panic.        *)
Select(n, j) ==
    /\ job[n][j].pc = "select"
    /\ \/ /\ \A t \in pool[n] : Found(t, chain[n])
          /\ job' = [job EXCEPT ![n][j] =
                        IF Valid(n) = {} THEN Idle
                        ELSE [@ EXCEPT !.pc = "selected", !.txs = Valid(n)]]
          /\ disturbed' = disturbed \cup
                {k \in {n} : \E i \in Job : job[n][i].pc \in {"selected", "mine", "sealed"}}
          /\ UNCHANGED <<up, peers, pool, chain, net, sends, starts, received>>
       \/ /\ \E t \in pool[n] : ~Found(t, chain[n])
          /\ Stops(n, net)

(* MineBlock verifies them again, reads the tip, and starts the proof of   *)
(* work with the Merkle root of the transactions and the coinbase.         *)
BeginBlock(n, j) ==
    LET txs   == job[n][j].txs
        valid == (\A t \in txs : Found(t, chain[n])) /\ Pairable(Cardinality(txs) + 1)
    IN  /\ job[n][j].pc = "selected"
        /\ \/ /\ valid
              /\ job' = [job EXCEPT ![n][j] = [@ EXCEPT !.pc = "mine", !.parent = chain[n]]]
              /\ UNCHANGED <<up, peers, pool, chain, net, sends, starts, received, disturbed>>
           \/ ~valid /\ Stops(n, net)

(* The block is stored and becomes the tip, whatever the tip is now. *)
Seal(n, j) ==
    /\ job[n][j].pc = "mine"
    /\ chain' = [chain EXCEPT ![n] = Append(job[n][j].parent, job[n][j].txs)]
    /\ job' = [job EXCEPT ![n][j].pc = "sealed"]
    /\ UNCHANGED <<up, peers, pool, net, sends, starts, received, disturbed>>

(* Mutant: the whole pool is emptied. *)
EmptiedPool(n, txs) == {}

(* Mutant: nothing is deleted. *)
KeptPool(n, txs) == pool[n]

Left(n, txs) == pool[n] \ txs

(* What was packed leaves the pool. *)
Clear(n, j) ==
    /\ job[n][j].pc = "sealed"
    /\ pool' = [pool EXCEPT ![n] = Left(n, job[n][j].txs)]
    /\ job' = [job EXCEPT ![n][j].pc = "announce"]
    /\ UNCHANGED <<up, peers, chain, net, sends, starts, received, disturbed>>

(* The block is announced, and MineTx calls itself if the pool holds more. *)
Announce(n, j) ==
    LET block == Append(job[n][j].parent, job[n][j].txs)
        news  == {Blocks(n, p, block) : p \in peers[n]}
    IN  /\ job[n][j].pc = "announce"
        /\ net' = Sent(net, news)
        /\ peers' = [peers EXCEPT ![n] = Reached(@, news)]
        /\ job' = [job EXCEPT ![n][j] = IF pool[n] = {} THEN Idle ELSE Selecting]
        /\ UNCHANGED <<up, pool, chain, sends, starts, received, disturbed>>

Mine(n) ==
    \E j \in Job :
        Select(n, j) \/ BeginBlock(n, j) \/ Seal(n, j) \/ Clear(n, j) \/ Announce(n, j)

(* memoryPool is a Go map without a lock: when a goroutine writes to it    *)
(* while another reads, writes or iterates, the runtime may stop the       *)
(* process.                                                                *)
MapRace(n) ==
    LET at(pc)  == Cardinality({j \in Job : job[n][j].pc = pc})
        writers == Handling(n, {"tx"}) + at("sealed")
        readers == Handling(n, {"inv", "getdata"}) + at("select")
    IN  /\ writers >= 1 /\ writers + readers >= 2
        /\ Stops(n, net)

Next ==
    \/ \E n \in Node : Start(n) \/ Kill(n) \/ MapRace(n)
    \/ \E t \in Tx : Submit(t)
    \/ Deliver
    \/ \E n \in Miner : Mine(n)

Spec == Init /\ [][Next]_vars

(* Connections are handled, and goroutines run on.  Nothing is said of     *)
(* submissions, kills and races, which need not happen.                    *)
Fairness ==
    /\ WF_vars(Deliver)
    /\ \A n \in Miner : WF_vars(Mine(n))

FairSpec == Spec /\ Fairness

-----------------------------------------------------------------------------
(* Transactions go from a client to the seed, are told by the seed to a     *)
(* miner, asked by it and sent.                                            *)
Message ==
    LET Ids == Tx \cup {Empty}
    IN  [type : {"tx"}, from : {Client}, to : {Seed}, tx : Ids]
        \cup [type : {"tx", "inv"}, from : {Seed}, to : Miner, tx : Ids]
        \cup [type : {"getdata"}, from : Miner, to : {Seed}, tx : Ids]
        \cup [type : {"version"}, from : Miner, to : {Seed}, chain : Chain]
        \cup [type : {"blocks"}, from : Node, to : Node, chain : Chain]

TypeOK ==
    LET Ids == Tx \cup {Empty}
    IN  /\ up \subseteq Node
        /\ peers \in [Node -> SUBSET Node]
        /\ peers[Seed] \subseteq Miner /\ \A n \in Miner : peers[n] \subseteq {Seed}
        /\ pool \in [Node -> SUBSET Ids]
        /\ chain \in [Node -> Chain]
        /\ job \in [Node -> [Job ->
              [pc : {"idle", "select", "selected", "mine", "sealed", "announce"},
               txs : SUBSET (Ids \ Bad),
               parent : Chain]]]
        /\ \A n \in Node, j \in Job :
              job[n][j].txs = {} <=> job[n][j].pc \in {"idle", "select"}
        /\ IsABag(net) /\ BagToSet(net) \subseteq Message
        /\ \A m \in BagToSet(net) : m.to \in up
        /\ sends \in [Tx -> Nat] /\ starts \in [Node -> 0 .. MaxStarts]
        /\ received \in [Node -> SUBSET Ids] /\ \A n \in Node : pool[n] \subseteq received[n]
        /\ disturbed \subseteq Node

(* The process of n has been killed or has panicked. *)
Ended(n) == starts[n] > 1 \/ (starts[n] = 1 /\ n \notin up)

(* A miner does not sit on transactions it could mine: when no MineTx runs *)
(* and two are pooled, all were rejected, whatever arrived while a pool    *)
(* was verified, mined and cleared.                                        *)
NothingStuck ==
    \A n \in Miner :
        /\ \A j \in Job : job[n][j] = Idle
        /\ Cardinality(pool[n]) >= 2
        => pool[n] \subseteq Bad

(* What a miner has pooled since its start stays pooled until it is on the *)
(* miner's chain, as long as no two MineTx held selections at once, and    *)
(* the miner took over no chain that lacks blocks of its own, or packs     *)
(* what it had pooled or what is on its way.                               *)
NothingLost ==
    \A n \in Miner \ disturbed :
        received[n] \ Bad \subseteq pool[n] \cup Packed(chain[n])

(* Under the same conditions a miner does not mine what is on the chain    *)
(* that it extends, unless it was submitted again: what was packed leaves  *)
(* the pool before the next selection.                                     *)
PackedOnce ==
    \A n \in Miner \ disturbed, j \in Job :
        job[n][j].pc = "mine" =>
            \A t \in job[n][j].txs \cap Packed(job[n][j].parent) :
                t = Empty \/ sends[t] > 1

(* Nobody pools the empty transaction as long as the seed has not ended:   *)
(* nothing but a restart takes from the seed's pool what it has announced. *)
AnsweredInFull ==
    (\E n \in Node : Empty \in received[n]) => Ended(Seed)

(* A transaction that reaches the seed reaches every miner that the seed   *)
(* knows, unless one of the two ends before.                               *)
GossipReaches ==
    \A n \in Miner, t \in Tx :
        n \in peers[Seed] /\ (\E m \in BagToSet(net) : m.type = "tx" /\ m.to = Seed /\ m.tx = t)
            ~> t \in received[n] \/ Ended(n) \/ Ended(Seed)

(* A transaction that passes and is pooled next to another gets on the     *)
(* chain of the miner, also when the other does not pass, and when it      *)
(* arrived while the miner verified, mined or cleared.  There are two      *)
(* escapes.  The miner's process ends, by one of its panics.  Or the miner *)
(* is disturbed: the block that packs the transaction may be replaced      *)
(* while it is still pooled, and it is then taken from the pool all the    *)
(* same.                                                                   *)
PoolIsMined ==
    \A n \in Miner, t \in Tx \ Bad :
        t \in pool[n] /\ Cardinality(pool[n]) >= 2
            ~> t \in Packed(chain[n]) \/ Ended(n) \/ n \in disturbed

=============================================================================
