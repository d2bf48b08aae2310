------------------------------ MODULE Handlers ------------------------------
(***************************************************************************)
(* The goroutines of one server that receives blocks (HandleInv and        *)
(* HandleBlock of network/network.go), step by step.  They share the list  *)
(* blocksInTransit and the index of unspent outputs without a lock.  The   *)
(* peers hold one chain, whose blocks are named by their heights.  Module  *)
(* Sync has the forks and the other messages, module ChainStore the        *)
(* transactions of AddBlock, module Utxo how outputs are found and spent.  *)
(***************************************************************************)
EXTENDS Naturals, Bags, SequencesExt, Lists

CONSTANTS
    Thread,        \* the goroutines that handle connections at the same time
    MaxHeight,     \* the height of the peers' chain
    Inventories,   \* the inventories that peers send
    MaxStarts,     \* bound: how often the server is started
    Tx,            \* the transactions of the chain that have outputs
    Outputs,       \* their outputs
    Born,          \* the height of the block that holds the transaction
    Spent          \* the height of the block that spends the output, or more

Block == 0 .. MaxHeight

ASSUME ChainAssumption ==
    /\ MaxHeight \in Nat /\ MaxStarts \in Nat
    /\ Inventories \subseteq Seq(Block) \ {<< >>}
    /\ Born \in [Tx -> Block]
    /\ \A t \in Tx : \A o \in Outputs[t] : Spent[o] \in Nat

VARIABLES
    up,         \* the process runs
    starts,     \* how often it was started
    stored,     \* the blocks in the database
    lastHash,   \* chain.LastHash
    index,      \* the outputs stored under each transaction's "utxo-" key
    transit,    \* blocksInTransit
    asked,      \* the blocks requested and on their way, a bag
    arrived,    \* the inventories received since the start
    thread,     \* where each goroutine is, and its local variables
    disturbed,  \* history: a message came before the one before it was handled,
                \* an inventory left a gap below a block that is there or in it,
                \* or a walk began at a block that was still being stored
    raced,      \* history: the last call of Reindex overlapped another
    cut         \* history: the process ended with work to do; no Reindex since

vars == <<up, starts, stored, lastHash, index, transit, asked, arrived, thread,
          disturbed, raced, cut>>

-----------------------------------------------------------------------------
Idle == [pc |-> "idle", list |-> << >>, keys |-> {}, block |-> 0, tip |-> 0]

At(t, pc) == up /\ thread[t].pc = pc

Goes(t, local) == thread' = [thread EXCEPT ![t] = local]

(* Mutant: the tip is the number of blocks. *)
TipByCount == Cardinality(stored)

(* The block that "lh" names: AddBlock moves it to every higher block. *)
Tip == Max(stored)

(* A walk from h to genesis finds every block. *)
Whole(h) == 0 .. h \subseteq stored

Parents(b) == {h \in Block : h < b}

Gapless(blocks) == \A b \in blocks : Parents(b) \subseteq blocks

(* FindUTXO from the block at height h. *)
Unspent(h) == [t \in Tx |-> IF Born[t] > h THEN {} ELSE {o \in Outputs[t] : Spent[o] > h}]

Asks(b) == asked' = asked (+) SetToBag({b})

(* A goroutine uses the list of blocks, rather than Reindex. *)
Queueing ==
    \E t \in Thread :
        thread[t].pc \in {"filter", "assign", "adding", "added", "request", "slice"}

Reindexing(t) == thread[t].pc \in {"delete", "tip", "write"}

(* A goroutine is to walk from the tip, and has not read it yet. *)
ToWalk == \E t \in Thread : thread[t].pc \in {"view", "delete", "tip"}

Quiet == asked = EmptyBag /\ \A t \in Thread : thread[t].pc = "idle"

Dies ==
    /\ up' = FALSE
    /\ transit' = << >>
    /\ thread' = [t \in Thread |-> Idle]
    /\ cut' = (cut \/ ~Quiet)
    /\ UNCHANGED <<starts, stored, lastHash, index, asked, arrived, disturbed, raced>>

-----------------------------------------------------------------------------
(* The database just after createblockchain. *)
Init ==
    /\ up = FALSE
    /\ starts = 0
    /\ stored = {0}
    /\ lastHash = 0
    /\ index = Unspent(0)
    /\ transit = << >>
    /\ asked = EmptyBag
    /\ arrived = {}
    /\ thread = [t \in Thread |-> Idle]
    /\ disturbed = FALSE
    /\ raced = FALSE
    /\ cut = FALSE

(* StartServer.  The answers to an earlier process may still arrive. *)
Start ==
    /\ ~up
    /\ starts < MaxStarts
    /\ up' = TRUE
    /\ starts' = starts + 1
    /\ lastHash' = Tip
    /\ arrived' = {}
    /\ disturbed' = (asked # EmptyBag)
    /\ UNCHANGED <<stored, index, transit, asked, thread, raced, cut>>

Kill == up /\ Dies

(* What is sent to a server that does not listen is dropped. *)
Drop ==
    /\ ~up
    /\ \E b \in BagToSet(asked) : asked' = asked (-) SetToBag({b})
    /\ UNCHANGED <<up, starts, stored, lastHash, index, transit, arrived, thread,
                   disturbed, raced, cut>>

(* HandleInv puts the inventory in blocksInTransit and requests its first  *)
(* block ...                                                               *)
HandleInv(t, items) ==
    /\ At(t, "idle")
    /\ items \notin arrived
    /\ arrived' = arrived \cup {items}
    /\ transit' = items
    /\ Asks(Head(items))
    /\ Goes(t, [Idle EXCEPT !.pc = "filter", !.block = Head(items)])
    /\ disturbed' = \/ disturbed \/ Queueing
                    \/ asked # EmptyBag \/ transit # << >>
                    \/ ~Gapless(stored \cup ToSet(items))
                    \/ ToWalk /\ ~(\A b \in ToSet(items) : Parents(b) \subseteq stored)
    /\ UNCHANGED <<up, starts, stored, lastHash, index, raced, cut>>

(* Mutant: the comparison is inverted. *)
FilterRequested(t) ==
    /\ At(t, "filter")
    /\ LET first == thread[t].block
       IN  Goes(t, [Idle EXCEPT !.pc = "assign",
                                !.list = Without(transit, ToSet(transit) \ {first})])
    /\ UNCHANGED <<up, starts, stored, lastHash, index, transit, asked, arrived,
                   disturbed, raced, cut>>

(* ... and only then collects, from what blocksInTransit is by now, the    *)
(* blocks that were not requested ...                                      *)
Filter(t) ==
    /\ At(t, "filter")
    /\ LET first == thread[t].block
       IN  Goes(t, [Idle EXCEPT !.pc = "assign",
                                !.list = Without(transit, {first})])
    /\ UNCHANGED <<up, starts, stored, lastHash, index, transit, asked, arrived,
                   disturbed, raced, cut>>

(* ... to assign them. *)
Assign(t) ==
    /\ At(t, "assign")
    /\ transit' = thread[t].list
    /\ Goes(t, Idle)
    /\ UNCHANGED <<up, starts, stored, lastHash, index, asked, arrived, disturbed, raced, cut>>

(* Mutant: nothing more is done for a block that is there already. *)
HandleNewBlock(t, b) ==
    /\ At(t, "idle")
    /\ b \in BagToSet(asked)
    /\ asked' = asked (-) SetToBag({b})
    /\ IF b \in stored
       THEN UNCHANGED <<thread, lastHash>>
       ELSE /\ Goes(t, [Idle EXCEPT !.pc = "adding", !.block = b, !.tip = Tip])
            /\ lastHash' = IF b > Tip THEN b ELSE lastHash
    /\ disturbed' = (disturbed \/ Queueing)
    /\ UNCHANGED <<up, starts, stored, index, transit, arrived, raced, cut>>

(* HandleBlock calls AddBlock: the body of its transaction assigns         *)
(* LastHash, unless the block is there already ...                         *)
HandleBlock(t, b) ==
    /\ At(t, "idle")
    /\ b \in BagToSet(asked)
    /\ asked' = asked (-) SetToBag({b})
    /\ IF b \in stored
       THEN Goes(t, [Idle EXCEPT !.pc = "added"]) /\ UNCHANGED lastHash
       ELSE /\ Goes(t, [Idle EXCEPT !.pc = "adding", !.block = b, !.tip = Tip])
            /\ lastHash' = IF b > Tip THEN b ELSE lastHash
    /\ disturbed' = (disturbed \/ Queueing)
    /\ UNCHANGED <<up, starts, stored, index, transit, arrived, raced, cut>>

(* Another AddBlock has stored the block, or moved the tip, since. *)
Conflicts(t) == thread[t].block \in stored \/ thread[t].tip # Tip

(* ... and its commit stores the block. *)
Commit(t) ==
    /\ At(t, "adding")
    /\ ~Conflicts(t)
    /\ stored' = stored \cup {thread[t].block}
    /\ Goes(t, [Idle EXCEPT !.pc = "added"])
    /\ UNCHANGED <<up, starts, lastHash, index, transit, asked, arrived,
                   disturbed, raced, cut>>

(* Blocks are left to be requested, or the index is rebuilt. *)
Check(t) ==
    /\ At(t, "added")
    /\ Goes(t, [Idle EXCEPT !.pc = IF transit # << >> THEN "request" ELSE "view"])
    /\ UNCHANGED <<up, starts, stored, lastHash, index, transit, asked, arrived,
                   disturbed, raced, cut>>

(* Mutant: the next block is not requested. *)
Skip(t) ==
    /\ At(t, "request") /\ transit # << >>
    /\ Goes(t, [Idle EXCEPT !.pc = "slice"])
    /\ UNCHANGED <<up, starts, stored, lastHash, index, transit, asked, arrived,
                   disturbed, raced, cut>>

Request(t) ==
    /\ At(t, "request") /\ transit # << >>
    /\ Asks(Head(transit))
    /\ Goes(t, [Idle EXCEPT !.pc = "slice"])
    /\ UNCHANGED <<up, starts, stored, lastHash, index, transit, arrived,
                   disturbed, raced, cut>>

(* blocksInTransit[1:]: read here, assigned by Assign. *)
Slice(t) ==
    /\ At(t, "slice") /\ transit # << >>
    /\ Goes(t, [Idle EXCEPT !.pc = "assign", !.list = Tail(transit)])
    /\ UNCHANGED <<up, starts, stored, lastHash, index, transit, asked, arrived,
                   disturbed, raced, cut>>

-----------------------------------------------------------------------------
(* Reindex.  DeleteByPrefix collects the keys it sees ... *)
View(t) ==
    /\ At(t, "view")
    /\ Goes(t, [Idle EXCEPT !.pc = "delete", !.keys = {x \in Tx : index[x] # {}}])
    /\ raced' = \E u \in Thread : Reindexing(u)
    /\ UNCHANGED <<up, starts, stored, lastHash, index, transit, asked, arrived,
                   disturbed, cut>>

(* Mutant: Reindex only adds to the index. *)
KeepIndex(t) ==
    /\ At(t, "delete")
    /\ Goes(t, [Idle EXCEPT !.pc = "tip"])
    /\ UNCHANGED <<up, starts, stored, lastHash, index, transit, asked, arrived,
                   disturbed, raced, cut>>

(* ... and deletes them in a transaction of its own. *)
Delete(t) ==
    /\ At(t, "delete")
    /\ index' = [x \in Tx |-> IF x \in thread[t].keys THEN {} ELSE index[x]]
    /\ Goes(t, [Idle EXCEPT !.pc = "tip"])
    /\ UNCHANGED <<up, starts, stored, lastHash, transit, asked, arrived,
                   disturbed, raced, cut>>

(* FindUTXO starts its walk at LastHash. *)
ReadTip(t) ==
    /\ At(t, "tip")
    /\ Goes(t, [Idle EXCEPT !.pc = "write", !.tip = lastHash])
    /\ disturbed' = (disturbed \/ lastHash \notin stored)
    /\ UNCHANGED <<up, starts, stored, lastHash, index, transit, asked, arrived,
                   raced, cut>>

(* What the walk found is written, the keys it did not find stay as they are. *)
Write(t) ==
    /\ At(t, "write")
    /\ Whole(thread[t].tip)
    /\ LET found == Unspent(thread[t].tip)
       IN  index' = [x \in Tx |-> IF found[x] # {} THEN found[x] ELSE index[x]]
    /\ Goes(t, Idle)
    /\ cut' = FALSE
    /\ UNCHANGED <<up, starts, stored, lastHash, transit, asked, arrived, disturbed, raced>>

-----------------------------------------------------------------------------
(* What panics: an empty list that was not empty when it was checked, a    *)
(* walk that comes to a block that is not there, a commit that conflicts.  *)
NoneLeft(t) == (At(t, "request") \/ At(t, "slice")) /\ transit = << >>

Hole(t) == At(t, "write") /\ ~Whole(thread[t].tip)

Conflict(t) == At(t, "adding") /\ Conflicts(t)

(* A data race: a goroutine reads the three words of the list while        *)
(* another assigns them, and the mixed list may point outside its array.   *)
Torn(t) ==
    /\ \E pc \in {"filter", "request", "slice"} : At(t, pc)
    /\ \E u \in Thread \ {t} : At(u, "assign")

Panic(t) ==
    /\ NoneLeft(t) \/ Hole(t) \/ Conflict(t) \/ Torn(t)
    /\ Dies

Step(t) ==
    \/ Filter(t)
    \/ Assign(t)
    \/ Commit(t)
    \/ Check(t)
    \/ Request(t)
    \/ Slice(t)
    \/ View(t)
    \/ Delete(t)
    \/ ReadTip(t)
    \/ Write(t)

Receive == \E t \in Thread, b \in Block : HandleBlock(t, b)

Next ==
    \/ Start
    \/ Kill
    \/ Drop
    \/ Receive
    \/ \E t \in Thread :
        \/ \E items \in Inventories : HandleInv(t, items)
        \/ Step(t)
        \/ Panic(t)

Spec == Init /\ [][Next]_vars

(* Goroutines are scheduled, and a block that was sent arrives. *)
FairSpec ==
    /\ Spec
    /\ WF_vars(Receive)
    /\ \A t \in Thread : WF_vars(Step(t))

-----------------------------------------------------------------------------
TypeOK ==
    /\ up \in BOOLEAN
    /\ starts \in 0 .. MaxStarts
    /\ stored \subseteq Block /\ 0 \in stored
    /\ lastHash \in Block
    /\ index \in [Tx -> SUBSET UNION {Outputs[x] : x \in Tx}]
    /\ transit \in Seq(Block)
    /\ IsABag(asked) /\ BagToSet(asked) \subseteq Block
    /\ arrived \subseteq Inventories
    /\ thread \in [Thread -> [pc : {"idle", "filter", "assign", "adding", "added", "request",
                                    "slice", "view", "delete", "tip", "write"},
                              list : Seq(Block),
                              keys : SUBSET Tx,
                              block : Block,
                              tip : Block]]
    /\ disturbed \in BOOLEAN /\ raced \in BOOLEAN /\ cut \in BOOLEAN

(* No goroutine panics while each message comes after the one before it    *)
(* was handled, whatever calls of Reindex for earlier blocks still run.    *)
NoPanic ==
    ~disturbed => \A t \in Thread : ~NoneLeft(t) /\ ~Hole(t) /\ ~Conflict(t) /\ ~Torn(t)

(* When the server comes to rest, every unspent output of its chain is in  *)
(* the index, whichever calls of Reindex overlapped and whatever they      *)
(* deleted of each other's: the one that reads the tip last saw the last   *)
(* block.  A process that was ended has to have reindexed again.           *)
NothingMissing ==
    up /\ Quiet /\ ~cut => \A x \in Tx : Unspent(lastHash)[x] \subseteq index[x]

(* It is exactly the unspent outputs when the last Reindex ran alone;      *)
(* otherwise outputs may have come back that are spent.                    *)
IndexExact == up /\ Quiet /\ ~cut /\ ~raced => index = Unspent(lastHash)

(* An inventory leads to its blocks, to the first one's becoming the tip,  *)
(* and to their outputs in the index, as long as the process runs and      *)
(* messages do not overtake the handling of those before them.             *)
Catches(items) ==
    /\ ToSet(items) \subseteq stored
    /\ lastHash >= Head(items)
    /\ \A x \in Tx : Unspent(Head(items))[x] \cap Unspent(lastHash)[x] \subseteq index[x]

IndexCatchesUp ==
    \A items \in Inventories :
        items \in arrived ~> Catches(items) \/ disturbed \/ ~up

-----------------------------------------------------------------------------
(* "All blocks have been synchronised, rebuild the index": when Reindex    *)
(* scans, no block is missing.  A block may arrive before HandleInv has    *)
(* put the rest of the inventory in the list; then one of them is never    *)
(* requested.                                                              *)
SyncedAtReindex == \A t \in Thread : ~Hole(t)

=============================================================================
