-------------------------------- MODULE Sync --------------------------------
(***************************************************************************)
(* How nodes synchronise their chains (network/network.go): the handshake, *)
(* inventories, requests for blocks and the blocks themselves.  Every      *)
(* message travels on a TCP connection of its own, so messages arrive in   *)
(* any order; a message to a node that is down is never sent, and what a   *)
(* node has not read when it stops is lost.  A handler is one step here;   *)
(* the steps inside AddBlock and MineBlock are those of ChainStore.        *)
(***************************************************************************)
EXTENDS Naturals, Bags, FiniteSets, SequencesExt, Lists

CONSTANTS
    Node,
    Seed,        \* localhost:3000, the one node every node knows at start
    Miner,       \* the nodes started with -miner
    Mortal,      \* the nodes that may be killed
    InitialTip,  \* the chains that the nodes' databases hold at first
    NotMining,   \* no proof of work runs
    MaxMined,    \* bound: how many blocks are mined
    MaxStarts    \* bound: how often a node is started

(* A block is named by the nodes that mined the blocks from genesis to it, *)
(* in their server or with send -mine while it was stopped.                *)
Block == Seq(Node)

(* The blocks that a walk from b to genesis visits. *)
Chain(b) == Prefixes(b)

ASSUME NodesAssumption ==
    /\ Seed \in Node
    /\ Miner \subseteq Node \ {Seed}
    /\ Mortal \subseteq Node
    /\ InitialTip \in [Node -> Block]
    /\ NotMining \notin Block

(* A miner has its own blocks, so that none of them gets its name twice.   *)
ASSUME NamesAssumption ==
    \A n \in Miner, k \in Node : \A b \in Chain(InitialTip[k]) \ {<< >>} :
        Last(b) = n => b \in Chain(InitialTip[n])

ASSUME BoundAssumption == MaxMined \in Nat /\ MaxStarts \in Nat

VARIABLES
    up,        \* the nodes whose process runs
    stored,    \* the blocks in each node's database
    tip,       \* "lh", with which LastHash agrees between handlers
    peers,     \* KnownNodes
    transit,   \* blocksInTransit
    mining,    \* the block each miner's proof of work extends
    net,       \* the messages in flight, a bag
    starts,    \* how often each node was started
    panicked   \* history: the handlers in which a walk missed a block

db == <<stored, tip>>
vars == <<up, stored, tip, peers, transit, mining, net, starts, panicked>>

-----------------------------------------------------------------------------
Height(b) == Len(b)

(* GetBlockHashes: from the tip to genesis. *)
GetBlockHashes(b) == [k \in 1 .. Len(b) + 1 |-> SubSeq(b, 1, Len(b) + 1 - k)]

Rooted(n) == Chain(tip[n]) \subseteq stored[n]

Version(n, p)      == [type |-> "version", from |-> n, to |-> p, height |-> Height(tip[n])]
GetBlocks(n, p)    == [type |-> "getblocks", from |-> n, to |-> p]
Inv(n, p, items)   == [type |-> "inv", from |-> n, to |-> p, items |-> items]
GetData(n, p, b)   == [type |-> "getdata", from |-> n, to |-> p, hash |-> b]
BlockMsg(n, p, b)  == [type |-> "block", from |-> n, to |-> p, hash |-> b]

(* SendData: the messages whose receiver listens are sent, and a receiver  *)
(* that cannot be reached is removed from the known nodes.  (A write that  *)
(* fails once the connection stands is a panic of the sender, and left     *)
(* out; so are the panics of the receiver on a request cut short.)         *)
Sent(mail, msgs) == mail (+) SetToBag({r \in msgs : r.to \in up})

Reached(known, msgs) == Without(known, {r.to : r \in msgs} \ up)

Received(m) == net (-) SetToBag({m})

(* The process of n ends: what is in memory and what was sent to it is     *)
(* gone.                                                                   *)
Stops(n, mail) ==
    /\ up' = up \ {n}
    /\ peers' = [peers EXCEPT ![n] = << >>]
    /\ transit' = [transit EXCEPT ![n] = << >>]
    /\ mining' = [mining EXCEPT ![n] = NotMining]
    /\ net' = [r \in {x \in BagToSet(mail) : x.to # n} |-> mail[r]]
    /\ UNCHANGED starts

Panics(n, mail, handler) == Stops(n, mail) /\ panicked' = panicked \cup {handler}

-----------------------------------------------------------------------------
Init ==
    /\ up = {}
    /\ stored = [n \in Node |-> Chain(InitialTip[n])]
    /\ tip = InitialTip
    /\ peers = [n \in Node |-> << >>]
    /\ transit = [n \in Node |-> << >>]
    /\ mining = [n \in Node |-> NotMining]
    /\ net = EmptyBag
    /\ starts = [n \in Node |-> 0]
    /\ panicked = {}

(* StartServer listens, and all nodes but the seed greet the seed. *)
Start(n) ==
    LET hello == IF n = Seed THEN {} ELSE {Version(n, Seed)}
    IN  /\ n \notin up
        /\ starts[n] < MaxStarts
        /\ up' = up \cup {n}
        /\ peers' = [peers EXCEPT ![n] = Reached(<<Seed>>, hello)]
        /\ net' = Sent(net, hello)
        /\ starts' = [starts EXCEPT ![n] = @ + 1]
        /\ UNCHANGED <<stored, tip, transit, mining, panicked>>

Kill(n) ==
    /\ n \in up \cap Mortal
    /\ Stops(n, net)
    /\ UNCHANGED <<stored, tip, panicked>>

(* Mutant: the higher node does not answer. *)
HandleVersionSilently(m) ==
    LET n     == m.to
        reply == IF Height(tip[n]) < m.height THEN {GetBlocks(n, m.from)} ELSE {}
        known == Reached(peers[n], reply)
    IN  /\ m.type = "version"
        /\ net' = Sent(Received(m), reply)
        /\ peers' = [peers EXCEPT ![n] = IF m.from \in ToSet(known) THEN known
                                         ELSE Append(known, m.from)]
        /\ UNCHANGED <<up, stored, tip, transit, mining, starts, panicked>>

(* The lower of two nodes asks for blocks, the higher answers with its own *)
(* version; the sender becomes known.                                      *)
HandleVersion(m) ==
    LET n     == m.to
        reply == IF Height(tip[n]) < m.height THEN {GetBlocks(n, m.from)}
                 ELSE IF Height(tip[n]) > m.height THEN {Version(n, m.from)}
                 ELSE {}
        known == Reached(peers[n], reply)
    IN  /\ m.type = "version"
        /\ net' = Sent(Received(m), reply)
        /\ peers' = [peers EXCEPT ![n] = IF m.from \in ToSet(known) THEN known
                                         ELSE Append(known, m.from)]
        /\ UNCHANGED <<up, stored, tip, transit, mining, starts, panicked>>

(* GetBlockHashes panics when the walk misses a block. *)
HandleGetBlocks(m) ==
    LET n     == m.to
        reply == {Inv(n, m.from, GetBlockHashes(tip[n]))}
    IN  /\ m.type = "getblocks"
        /\ UNCHANGED db
        /\ \/ /\ Rooted(n)
              /\ net' = Sent(Received(m), reply)
              /\ peers' = [peers EXCEPT ![n] = Reached(@, reply)]
              /\ UNCHANGED <<up, transit, mining, starts, panicked>>
           \/ ~Rooted(n) /\ Panics(n, Received(m), "HandleGetBlocks")

(* Mutant: the rest of the inventory is forgotten. *)
HandleInvFirstOnly(m) ==
    LET n     == m.to
        reply == {GetData(n, m.from, Head(m.items))}
    IN  /\ m.type = "inv"
        /\ net' = Sent(Received(m), reply)
        /\ peers' = [peers EXCEPT ![n] = Reached(@, reply)]
        /\ UNCHANGED <<up, stored, tip, transit, mining, starts, panicked>>

(* Mutant: the block is requested from the first known node. *)
HandleInvFromFirst(m) ==
    LET n     == m.to
        first == Head(m.items)
        reply == IF peers[n] = << >> THEN {} ELSE {GetData(n, Head(peers[n]), first)}
    IN  /\ m.type = "inv"
        /\ transit' = [transit EXCEPT ![n] = Without(m.items, {first})]
        /\ net' = Sent(Received(m), reply)
        /\ peers' = [peers EXCEPT ![n] = Reached(@, reply)]
        /\ UNCHANGED <<up, stored, tip, mining, starts, panicked>>

(* The inventory replaces blocksInTransit; its first block is requested. *)
HandleInv(m) ==
    LET n     == m.to
        first == Head(m.items)
        reply == {GetData(n, m.from, first)}
    IN  /\ m.type = "inv"
        /\ transit' = [transit EXCEPT ![n] = Without(m.items, {first})]
        /\ net' = Sent(Received(m), reply)
        /\ peers' = [peers EXCEPT ![n] = Reached(@, reply)]
        /\ UNCHANGED <<up, stored, tip, mining, starts, panicked>>

(* A block that is not there is not answered. *)
HandleGetData(m) ==
    LET n     == m.to
        reply == IF m.hash \in stored[n] THEN {BlockMsg(n, m.from, m.hash)} ELSE {}
    IN  /\ m.type = "getdata"
        /\ net' = Sent(Received(m), reply)
        /\ peers' = [peers EXCEPT ![n] = Reached(@, reply)]
        /\ UNCHANGED <<up, stored, tip, transit, mining, starts, panicked>>

(* Mutant: the tip is moved, the block is not stored. *)
AddTip(n, b) ==
    /\ tip' = [tip EXCEPT ![n] =
                  IF b \notin stored[n] /\ Height(b) > Height(@) THEN b ELSE @]
    /\ UNCHANGED stored

(* AddBlock: a new block is stored, and is the tip if it is higher. *)
AddBlock(n, b) ==
    /\ stored' = [stored EXCEPT ![n] = @ \cup {b}]
    /\ tip' = [tip EXCEPT ![n] =
                  IF b \notin stored[n] /\ Height(b) > Height(@) THEN b ELSE @]

(* After AddBlock the next block in transit is requested from whoever sent *)
(* this one; when none is left, Reindex walks the chain from the tip and   *)
(* panics if a block is missing.                                           *)
HandleBlock(m) ==
    LET n    == m.to
        next == {GetData(n, m.from, Head(transit[n]))}
    IN  /\ m.type = "block"
        /\ AddBlock(n, m.hash)
        /\ \/ /\ transit[n] # << >>
              /\ transit' = [transit EXCEPT ![n] = Tail(@)]
              /\ net' = Sent(Received(m), next)
              /\ peers' = [peers EXCEPT ![n] = Reached(@, next)]
              /\ UNCHANGED <<up, mining, starts, panicked>>
           \/ /\ transit[n] = << >>
              /\ Rooted(n)'
              /\ net' = Received(m)
              /\ UNCHANGED <<up, peers, transit, mining, starts, panicked>>
           \/ /\ transit[n] = << >>
              /\ ~Rooted(n)'
              /\ Panics(n, Received(m), "HandleBlock")

Deliver ==
    \E m \in BagToSet(net) :
        \/ HandleVersion(m)
        \/ HandleGetBlocks(m)
        \/ HandleInv(m)
        \/ HandleGetData(m)
        \/ HandleBlock(m)

-----------------------------------------------------------------------------
(* The blocks mined since the first start, and the nodes that mine one.    *)
Mined == (UNION {stored[n] \ Chain(InitialTip[n]) : n \in Miner})
            \ (UNION {Chain(InitialTip[n]) : n \in Node})

Working == {n \in Miner : mining[n] # NotMining}

(* MineTx, once the pool holds two transactions: each is verified, its     *)
(* inputs looked up by a walk from the tip, which panics when it comes to  *)
(* a missing block before it has found them; then MineBlock reads the tip  *)
(* and starts the proof of work.                                           *)
StartMining(n) ==
    /\ n \in up
    /\ mining[n] = NotMining
    /\ Cardinality(Mined) + Cardinality(Working) < MaxMined
    /\ UNCHANGED db
    /\ \/ /\ mining' = [mining EXCEPT ![n] = tip[n]]
          /\ UNCHANGED <<up, peers, transit, net, starts, panicked>>
       \/ ~Rooted(n) /\ Panics(n, net, "MineTx")

(* Mutant: the block is not announced. *)
SealSilently(n) ==
    LET b == Append(mining[n], n)
    IN  /\ mining[n] # NotMining
        /\ stored' = [stored EXCEPT ![n] = @ \cup {b}]
        /\ tip' = [tip EXCEPT ![n] = b]
        /\ mining' = [mining EXCEPT ![n] = NotMining]
        /\ UNCHANGED <<up, peers, transit, net, starts, panicked>>

(* The proof of work ends.  The block is stored and becomes the tip,       *)
(* whatever the tip has become meanwhile; Reindex walks the chain; the     *)
(* block is announced to all known nodes.                                  *)
Seal(n) ==
    LET b    == Append(mining[n], n)
        news == {Inv(n, p, <<b>>) : p \in ToSet(peers[n]) \ {n}}
    IN  /\ mining[n] # NotMining
        /\ stored' = [stored EXCEPT ![n] = @ \cup {b}]
        /\ tip' = [tip EXCEPT ![n] = b]
        /\ \/ /\ Rooted(n)'
              /\ mining' = [mining EXCEPT ![n] = NotMining]
              /\ net' = Sent(net, news)
              /\ peers' = [peers EXCEPT ![n] = Reached(@, news)]
              /\ UNCHANGED <<up, transit, starts, panicked>>
           \/ ~Rooted(n)' /\ Panics(n, net, "MineTx")

Next ==
    \/ \E n \in Node : Start(n) \/ Kill(n)
    \/ Deliver
    \/ \E n \in Miner : StartMining(n) \/ Seal(n)

Spec == Init /\ [][Next]_vars

(* A connection's goroutine runs its handler, and a proof of work ends.    *)
(* The messages of a run are finitely many, so weak fairness of the        *)
(* deliveries together drains them all.  Nothing is said of starts and     *)
(* kills, which need not happen.                                           *)
Fairness ==
    /\ WF_vars(Deliver)
    /\ \A n \in Miner : WF_vars(Seal(n))

FairSpec == Spec /\ Fairness

-----------------------------------------------------------------------------
Message ==
    [type : {"version"}, from : Node, to : Node, height : Nat]
        \cup [type : {"getblocks"}, from : Node, to : Node]
        \cup [type : {"inv"}, from : Node, to : Node, items : Seq(Block) \ {<< >>}]
        \cup [type : {"getdata", "block"}, from : Node, to : Node, hash : Block]

TypeOK ==
    /\ up \subseteq Node
    /\ stored \in [Node -> SUBSET Block] /\ tip \in [Node -> Block]
    /\ \A n \in Node : tip[n] \in stored[n]
    /\ peers \in [Node -> Seq(Node)] /\ transit \in [Node -> Seq(Block)]
    /\ mining \in [Node -> Block \cup {NotMining}]
    /\ \A n \in Node \ up :
           peers[n] = << >> /\ transit[n] = << >> /\ mining[n] = NotMining
    /\ IsABag(net) /\ BagToSet(net) \subseteq Message
    /\ \A m \in BagToSet(net) : m.to \in up
    /\ starts \in [Node -> 0 .. MaxStarts]
    /\ panicked \subseteq {"HandleGetBlocks", "HandleBlock", "MineTx"}

(* No node's chain is higher than the seed's at first. *)
SeedHighest == \A n \in Node : Height(InitialTip[n]) <= Height(InitialTip[Seed])

(* As long as one node at most has mined, and the seed was the highest at  *)
(* first, a block is only requested from a node that has it, also when the *)
(* miner itself is synchronising, and when nodes are killed and restarted. *)
(* HandleBlock asks the sender of the last block for the next in transit,  *)
(* whoever sent the inventory, and HandleGetData does not answer a request *)
(* for a block that it has not: a wrong request is a block lost.           *)
OneMiner == \A b, c \in Mined : Last(b) = Last(c)

AskedIsHeld ==
    SeedHighest /\ OneMiner =>
        \A m \in BagToSet(net) : m.type = "getdata" => m.hash \in stored[m.to]

(* "All blocks are synchronised, rebuild the UTXO set": the tip is stored  *)
(* before its ancestors, and for most of a synchronisation a walk from it  *)
(* would panic; but a chain is whole whenever a handler walks it, until a  *)
(* block is mined, or a node that left a request behind starts again.      *)
NoPanic ==
    /\ SeedHighest /\ Mined = {}
    /\ \A n \in Node \ {Seed} : starts[n] <= 1
    => panicked \subseteq {"MineTx"}

(* The process of n has been killed or has panicked. *)
Ended(n) == starts[n] > 1 \/ (starts[n] = 1 /\ n \notin up)

Synchronised(n) == Rooted(n) /\ Height(tip[n]) >= Height(tip[Seed])

(* A node that starts when the seed runs gets the seed's chain, unless a   *)
(* block is mined or a process ends meanwhile.                             *)
JoinerSyncs ==
    \A n \in Node :
        n \in up /\ Seed \in ToSet(peers[n])
            ~> Synchronised(n) \/ Mined # {} \/ \E k \in Node : Ended(k)

(* A block mined by a miner that knows the seed reaches the seed, in       *)
(* whatever order announcements, requests and blocks of the miners         *)
(* overtake one another, unless a process ends.                            *)
SeedLearns ==
    \A n \in Miner :
        n \in up /\ Seed \in ToSet(peers[n])
            ~> stored[n] \subseteq stored[Seed] \/ \E k \in Node : Ended(k)

-----------------------------------------------------------------------------
(* "Nodes automatically sync with the seed node on startup", whatever      *)
(* happened to them before.  Not so after a kill during a synchronisation. *)
StartupSyncs ==
    \A n \in Node :
        n \in up /\ Seed \in ToSet(peers[n]) ~> n \notin up \/ Synchronised(n)

=============================================================================
