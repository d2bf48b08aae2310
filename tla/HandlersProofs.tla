--------------------------- MODULE HandlersProofs ---------------------------
(***************************************************************************)
(* Proofs about the goroutines of one server, for every number of them,    *)
(* every chain and every set of inventories.                               *)
(***************************************************************************)
EXTENDS Handlers, Lemmas

(* A process that has ended left no goroutine and no list behind. *)
Down == ~up => transit = << >> /\ thread = [t \in Thread |-> Idle]

-----------------------------------------------------------------------------
(* The tip.  AddBlock assigns LastHash before its transaction is committed, *)
(* so LastHash may be ahead of the database, or behind another call: but    *)
(* only while a call that raises the tip is still to commit, or to panic.   *)
Adding(t) == thread[t].pc = "adding"

Raises(t) == Adding(t) /\ thread[t].block > thread[t].tip

PointerInv ==
    /\ \A t \in Thread : Adding(t) => thread[t].tip <= Tip
    /\ up /\ lastHash # Tip => \E t \in Thread : Raises(t) /\ thread[t].block = lastHash
    /\ (\E t \in Thread : Raises(t) /\ ~Conflicts(t)) =>
            \E t \in Thread : Raises(t) /\ thread[t].block = lastHash

-----------------------------------------------------------------------------
(* The index.  Unless it covers what is unspent at LastHash, somebody is    *)
(* still going to walk from there: a block is on its way, or is handled, or *)
(* Reindex has not read the tip, or has read this one.                      *)
Covers(h) == \A x \in Tx : Unspent(h)[x] \subseteq index[x]

Coming ==
    \/ asked # EmptyBag
    \/ \E t \in Thread :
        thread[t].pc \in {"adding", "added", "request", "view", "delete", "tip"}
    \/ \E t \in Thread : thread[t].pc = "write" /\ thread[t].tip = lastHash

Owed == ~cut \/ \E t \in Thread : thread[t].pc = "write"

CoverInv ==
    /\ up /\ Owed => Coming \/ Covers(lastHash)
    /\ ~up /\ ~cut => Covers(Tip)

(* While one call of Reindex runs at a time, nothing is in the index        *)
(* between its deletion and what it writes.                                 *)
ExactInv ==
    /\ ~raced =>
        /\ \A t, u \in Thread : Reindexing(t) /\ Reindexing(u) => t = u
        /\ \A t \in Thread :
            /\ thread[t].pc = "delete" => thread[t].keys = {x \in Tx : index[x] # {}}
            /\ thread[t].pc \in {"tip", "write"} => \A x \in Tx : index[x] = {}
    /\ up /\ Owed /\ ~raced =>
        Coming \/ (index = Unspent(lastHash) /\ \A t \in Thread : ~Reindexing(t))
    /\ ~up /\ ~cut /\ ~raced => index = Unspent(Tip)

-----------------------------------------------------------------------------
(* The list of blocks, while nothing has disturbed it.                      *)
Busy(t) ==
    thread[t].pc \in {"filter", "assign", "adding", "added", "request", "slice"}

(* One goroutine at a time uses the list, and where it is tells what is     *)
(* asked for.                                                               *)
OneBusy == \A t, u \in Thread : Busy(t) /\ Busy(u) => t = u

AskedOne == \E b \in Block : asked = SetToBag({b})

PhaseInv ==
    /\ \A t \in Thread :
        /\ thread[t].pc = "filter" => asked = SetToBag({thread[t].block})
                                      /\ thread[t].block \in ToSet(transit)
        /\ thread[t].pc = "assign" => AskedOne
        /\ thread[t].pc \in {"adding", "added"} => asked = EmptyBag
        /\ thread[t].pc = "request" => asked = EmptyBag /\ transit # << >>
        /\ thread[t].pc = "slice" => transit # << >> /\ asked = SetToBag({Head(transit)})
        /\ Adding(t) => ~Conflicts(t)
    /\ (\A t \in Thread : ~Busy(t)) => AskedOne \/ (asked = EmptyBag /\ transit = << >>)

(* The blocks that are still to be stored. *)
Remaining(b) ==
    \/ b \in BagToSet(asked)
    \/ \E t \in Thread : Adding(t) /\ b = thread[t].block
    \/ \E t \in Thread : thread[t].pc = "assign" /\ b \in ToSet(thread[t].list)
    \/ (\A t \in Thread : thread[t].pc # "assign") /\ b \in ToSet(transit)

Fetching == asked # EmptyBag \/ \E t \in Thread : Busy(t)

(* With them the chain is complete. *)
Closed ==
    Fetching =>
        \A b \in Block : b \in stored \/ Remaining(b) =>
            \A h \in Parents(b) : h \in stored \/ Remaining(h)

(* A walk that is to begin finds its way, also after the next block.        *)
WalkInv ==
    /\ ToWalk => /\ Gapless(stored)
                 /\ \A b \in Block : Remaining(b) => Parents(b) \subseteq stored
    /\ \A t \in Thread : thread[t].pc = "write" => Whole(thread[t].tip)

ListInv ==
    up /\ ~disturbed => OneBusy /\ PhaseInv /\ Closed /\ WalkInv

-----------------------------------------------------------------------------
(* Type correctness. *)
LEMMA MaxOfBlocks ==
  ASSUME NEW T \in SUBSET Block, 0 \in T
  PROVE  Max(T) \in T /\ Max(T) \in Block /\ \A b \in T : b <= Max(T)
  BY MaxOfSet, ChainAssumption DEF Block

LEMMA UnspentType ==
  ASSUME NEW h
  PROVE  /\ Unspent(h) \in [Tx -> SUBSET UNION {Outputs[x] : x \in Tx}]
         /\ \A x \in Tx : Unspent(h)[x] \subseteq UNION {Outputs[y] : y \in Tx}
  BY DEF Unspent

LEMMA TypeStep == TypeOK /\ [Next]_vars => TypeOK'
<1> SUFFICES ASSUME TypeOK, Next PROVE TypeOK'
  BY DEF vars, TypeOK
<1> USE DEF TypeOK
<1>1. ASSUME Dies PROVE TypeOK'
  <2>1. << >> \in Seq(Block) /\ 0 \in Block
    BY ChainAssumption DEF Block
  <2>2. thread' = [t \in Thread |-> Idle] /\ transit' = << >> /\ up' = FALSE
    BY <1>1 DEF Dies
  <2>3. cut' \in BOOLEAN
    BY <1>1, Zenon DEF Dies
  <2>4. Idle \in [pc : {"idle"}, list : Seq(Block), keys : SUBSET Tx, block : Block, tip : Block]
    BY <2>1 DEF Idle
  <2>5. /\ thread' \in [Thread -> [pc : {"idle"}, list : Seq(Block), keys : SUBSET Tx,
                                  block : Block, tip : Block]]
        /\ transit' \in Seq(Block)
        /\ up' \in BOOLEAN
    BY <2>1, <2>2, <2>4
  <2>6. UNCHANGED <<starts, stored, lastHash, index, asked, arrived, disturbed, raced>>
    BY <1>1 DEF Dies
  <2> QED
    BY <2>3, <2>5, <2>6
<1>2. ASSUME Start PROVE TypeOK'
  <2>1. Tip \in Block
    BY MaxOfBlocks DEF Tip
  <2>2. disturbed' \in BOOLEAN
    BY <1>2, Zenon DEF Start
  <2>3. starts' \in 0 .. MaxStarts
    BY <1>2, ChainAssumption DEF Start
  <2> QED
    BY <1>2, <2>1, <2>2, <2>3 DEF Start
<1>3. ASSUME Drop PROVE TypeOK'
  BY <1>3, BagRemove DEF Drop
<1>4. ASSUME NEW t \in Thread, NEW b \in Block, HandleBlock(t, b) PROVE TypeOK'
  <2>1. Tip \in Block /\ 0 \in Block /\ << >> \in Seq(Block)
    BY MaxOfBlocks DEF Tip
  <2>2. disturbed' \in BOOLEAN
    BY <1>4, Zenon DEF HandleBlock
  <2>3. IsABag(asked') /\ BagToSet(asked') \subseteq Block
    BY <1>4, BagRemove DEF HandleBlock
  <2> DEFINE Local == [pc : {"adding", "added"}, list : Seq(Block), keys : SUBSET Tx,
                       block : Block, tip : Block]
  <2>4. /\ [Idle EXCEPT !.pc = "added"] \in Local
        /\ [Idle EXCEPT !.pc = "adding", !.block = b, !.tip = Tip] \in Local
    BY <2>1 DEF Idle
  <2>5. \E local \in Local : thread' = [thread EXCEPT ![t] = local]
    <3> HIDE DEF Local
    <3> QED
      BY <1>4, <2>4 DEF HandleBlock, Goes
  <2>6. thread' \in [Thread -> [pc : {"idle", "filter", "assign", "adding", "added", "request",
                                    "slice", "view", "delete", "tip", "write"},
                              list : Seq(Block), keys : SUBSET Tx, block : Block, tip : Block]]
    BY <2>5
  <2>7. lastHash' \in Block
    BY <1>4 DEF HandleBlock
  <2>8. UNCHANGED <<up, starts, stored, index, transit, arrived, raced, cut>>
    BY <1>4 DEF HandleBlock
  <2> QED
    BY <2>2, <2>3, <2>6, <2>7, <2>8
<1>5. ASSUME NEW t \in Thread, NEW items \in Inventories, HandleInv(t, items) PROVE TypeOK'
  <2>1. items \in Seq(Block) /\ items # << >> /\ Head(items) \in Block
    BY ChainAssumption
  <2>2. disturbed' \in BOOLEAN
    BY <1>5, Zenon DEF HandleInv
  <2>3. IsABag(asked') /\ BagToSet(asked') \subseteq Block
    BY <1>5, <2>1, BagAdd DEF HandleInv, Asks
  <2>4. 0 \in Block /\ << >> \in Seq(Block)
    OBVIOUS
  <2> QED
    BY <1>5, <2>1, <2>2, <2>3, <2>4 DEF HandleInv, Goes, Idle
<1>6. ASSUME NEW t \in Thread, Step(t) PROVE TypeOK'
  <2>0. 0 \in Block /\ << >> \in Seq(Block)
    OBVIOUS
  <2> USE DEF Goes, Idle
  <2>1. CASE Filter(t)
    <3>1. Without(transit, {thread[t].block}) \in Seq(Block)
      BY WithoutElements
    <3> QED
      BY <2>0, <2>1, <3>1 DEF Filter
  <2>2. CASE Assign(t)
    BY <2>0, <2>2 DEF Assign, At
  <2>3. CASE Commit(t)
    BY <2>0, <2>3 DEF Commit
  <2>4. CASE Check(t)
    BY <2>0, <2>4 DEF Check
  <2>5. CASE Request(t)
    <3>1. IsABag(asked') /\ BagToSet(asked') \subseteq Block
      BY <2>5, BagAdd, SMTT(30) DEF Request, Asks
    <3> QED
      BY <2>0, <2>5, <3>1 DEF Request
  <2>6. CASE Slice(t)
    BY <2>0, <2>6, HeadTailElements DEF Slice
  <2>7. CASE View(t)
    <3>1. raced' \in BOOLEAN
      BY <2>7, Zenon DEF View
    <3> QED
      BY <2>0, <2>7, <3>1 DEF View
  <2>8. CASE Delete(t)
    BY <2>0, <2>8 DEF Delete
  <2>9. CASE ReadTip(t)
    <3>1. disturbed' \in BOOLEAN
      BY <2>9, Zenon DEF ReadTip
    <3> QED
      BY <2>0, <2>9, <3>1 DEF ReadTip
  <2>10. CASE Write(t)
    BY <2>0, <2>10, UnspentType DEF Write
  <2> QED
    BY <1>6, <2>1, <2>2, <2>3, <2>4, <2>5, <2>6, <2>7, <2>8, <2>9, <2>10 DEF Step
<1>7. Kill \/ (\E t \in Thread : Panic(t)) => Dies
  BY DEF Kill, Panic
<1> QED
  BY <1>1, <1>2, <1>3, <1>4, <1>5, <1>6, <1>7 DEF Next, Receive

LEMMA TypeInit == Init => TypeOK
<1> SUFFICES ASSUME Init PROVE TypeOK
  OBVIOUS
<1>1. 0 \in Block /\ << >> \in Seq(Block) /\ starts \in 0 .. MaxStarts
  BY ChainAssumption DEF Init, Block
<1>2. IsABag(asked) /\ BagToSet(asked) = {}
  BY BagEmpty DEF Init
<1> QED
  BY <1>1, <1>2, UnspentType DEF Init, TypeOK, Idle

(* The variables keep their types: the tip that AddBlock and Reindex read   *)
(* is the height of a stored block, and the lists hold blocks.              *)
THEOREM TypeCorrect == Spec => []TypeOK
  BY TypeInit, TypeStep, PTL DEF Spec

-----------------------------------------------------------------------------
(* The tip. *)
LEMMA DownStep == TypeOK /\ Down /\ [Next]_vars => Down'
<1> SUFFICES ASSUME TypeOK, Down, Next PROVE Down'
  BY DEF vars, Down, Idle
<1> USE DEF Down
<1>1. ASSUME Dies PROVE Down'
  BY <1>1 DEF Dies, Idle
<1>2. ASSUME Start \/ Drop PROVE Down'
  BY <1>2 DEF Start, Drop, Idle
<1>3. ASSUME NEW t \in Thread, NEW b \in Block, HandleBlock(t, b) PROVE up'
  BY <1>3 DEF HandleBlock, At
<1>4. ASSUME NEW t \in Thread, NEW items, HandleInv(t, items) PROVE up'
  BY <1>4 DEF HandleInv, At
<1>5. ASSUME NEW t \in Thread, Step(t) PROVE up'
  <2>1. up /\ up' = up
    BY <1>5, Zenon DEF Step, Filter, Assign, Commit, Check, Request, Slice, View, Delete,
                       ReadTip, Write, At
  <2> QED
    BY <2>1
<1> QED
  BY <1>1, <1>2, <1>3, <1>4, <1>5 DEF Next, Receive, Kill, Panic

(* Where a step takes its goroutine; the others stay where they are. *)
Others(t) == \A u \in Thread \ {t} : thread'[u] = thread[u]

LEMMA Moves ==
  ASSUME TypeOK, NEW t \in Thread
  PROVE
    /\ \A items \in Inventories : HandleInv(t, items) =>
         Others(t) /\ thread[t].pc = "idle" /\ thread'[t].pc = "filter"
         /\ thread'[t].block = Head(items)
    /\ \A b \in Block : HandleBlock(t, b) =>
         /\ Others(t) /\ thread[t].pc = "idle"
         /\ b \in stored => thread'[t].pc = "added"
         /\ b \notin stored => /\ thread'[t].pc = "adding"
                               /\ thread'[t].block = b /\ thread'[t].tip = Tip
    /\ Filter(t) =>
         /\ Others(t) /\ thread[t].pc = "filter" /\ thread'[t].pc = "assign"
         /\ thread'[t].list = Without(transit, {thread[t].block})
    /\ Assign(t) => Others(t) /\ thread[t].pc = "assign" /\ thread'[t].pc = "idle"
    /\ Commit(t) => Others(t) /\ thread[t].pc = "adding" /\ thread'[t].pc = "added"
    /\ Check(t) => /\ Others(t) /\ thread[t].pc = "added"
                   /\ transit # << >> => thread'[t].pc = "request"
                   /\ transit = << >> => thread'[t].pc = "view"
    /\ Request(t) => Others(t) /\ thread[t].pc = "request" /\ thread'[t].pc = "slice"
    /\ Slice(t) => /\ Others(t) /\ thread[t].pc = "slice" /\ thread'[t].pc = "assign"
                   /\ thread'[t].list = Tail(transit)
    /\ View(t) => /\ Others(t) /\ thread[t].pc = "view" /\ thread'[t].pc = "delete"
                  /\ thread'[t].keys = {x \in Tx : index[x] # {}}
    /\ Delete(t) => Others(t) /\ thread[t].pc = "delete" /\ thread'[t].pc = "tip"
    /\ ReadTip(t) => /\ Others(t) /\ thread[t].pc = "tip" /\ thread'[t].pc = "write"
                     /\ thread'[t].tip = lastHash
    /\ Write(t) => Others(t) /\ thread[t].pc = "write" /\ thread'[t].pc = "idle"
<1>1. ASSUME NEW local, thread' = [thread EXCEPT ![t] = local]
      PROVE  thread'[t] = local /\ Others(t)
  BY <1>1 DEF TypeOK, Others
<1>2. \A p : [Idle EXCEPT !.pc = p].pc = p
  BY DEF Idle
<1>3. ASSUME NEW items \in Inventories, HandleInv(t, items)
      PROVE  /\ Others(t) /\ thread[t].pc = "idle" /\ thread'[t].pc = "filter"
             /\ thread'[t].block = Head(items)
  <2>1. thread' = [thread EXCEPT ![t] = [Idle EXCEPT !.pc = "filter", !.block = Head(items)]]
    BY <1>3 DEF HandleInv, Goes
  <2>2. thread'[t] = [Idle EXCEPT !.pc = "filter", !.block = Head(items)] /\ Others(t)
    BY <1>1, <2>1
  <2> QED
    BY <1>3, <2>2 DEF HandleInv, At, Idle
<1>4. ASSUME NEW b \in Block, HandleBlock(t, b)
      PROVE  /\ Others(t) /\ thread[t].pc = "idle"
             /\ b \in stored => thread'[t].pc = "added"
             /\ b \notin stored => /\ thread'[t].pc = "adding"
                                   /\ thread'[t].block = b /\ thread'[t].tip = Tip
  <2>1. CASE b \in stored
    BY <1>1, <1>2, <1>4, <2>1 DEF HandleBlock, Goes, At
  <2>2. CASE b \notin stored
    <3>1. thread' = [thread EXCEPT ![t] = [Idle EXCEPT !.pc = "adding", !.block = b, !.tip = Tip]]
      BY <1>4, <2>2 DEF HandleBlock, Goes
    <3>2. thread'[t] = [Idle EXCEPT !.pc = "adding", !.block = b, !.tip = Tip] /\ Others(t)
      BY <1>1, <3>1
    <3> QED
      BY <1>4, <2>2, <3>2 DEF HandleBlock, At, Idle
  <2> QED
    BY <2>1, <2>2
<1>5. ASSUME Filter(t)
      PROVE  /\ Others(t) /\ thread[t].pc = "filter" /\ thread'[t].pc = "assign"
             /\ thread'[t].list = Without(transit, {thread[t].block})
  <2>1. thread' = [thread EXCEPT ![t] = [Idle EXCEPT !.pc = "assign",
                                             !.list = Without(transit, {thread[t].block})]]
    BY <1>5 DEF Filter, Goes
  <2>2. thread'[t] = [Idle EXCEPT !.pc = "assign",
                                             !.list = Without(transit, {thread[t].block})] /\ Others(t)
    BY <1>1, <2>1
  <2> QED
    BY <1>5, <2>2 DEF Filter, At, Idle
<1>6. ASSUME Assign(t) PROVE Others(t) /\ thread[t].pc = "assign" /\ thread'[t].pc = "idle"
  BY <1>1, <1>6 DEF Assign, Goes, At, Idle
<1>7. ASSUME Commit(t) PROVE Others(t) /\ thread[t].pc = "adding" /\ thread'[t].pc = "added"
  BY <1>1, <1>2, <1>7 DEF Commit, Goes, At
<1>8. ASSUME Check(t)
      PROVE  /\ Others(t) /\ thread[t].pc = "added"
             /\ transit # << >> => thread'[t].pc = "request"
             /\ transit = << >> => thread'[t].pc = "view"
  BY <1>1, <1>2, <1>8 DEF Check, Goes, At
<1>9. ASSUME Request(t) PROVE Others(t) /\ thread[t].pc = "request" /\ thread'[t].pc = "slice"
  BY <1>1, <1>2, <1>9 DEF Request, Goes, At
<1>10. ASSUME Slice(t)
       PROVE  /\ Others(t) /\ thread[t].pc = "slice" /\ thread'[t].pc = "assign"
              /\ thread'[t].list = Tail(transit)
  <2>1. thread' = [thread EXCEPT ![t] = [Idle EXCEPT !.pc = "assign", !.list = Tail(transit)]]
    BY <1>10 DEF Slice, Goes
  <2>2. thread'[t] = [Idle EXCEPT !.pc = "assign", !.list = Tail(transit)] /\ Others(t)
    BY <1>1, <2>1
  <2> QED
    BY <1>10, <2>2 DEF Slice, At, Idle
<1>11. ASSUME View(t)
       PROVE  /\ Others(t) /\ thread[t].pc = "view" /\ thread'[t].pc = "delete"
              /\ thread'[t].keys = {x \in Tx : index[x] # {}}
  <2>1. thread' = [thread EXCEPT ![t] = [Idle EXCEPT !.pc = "delete",
                                             !.keys = {x \in Tx : index[x] # {}}]]
    BY <1>11 DEF View, Goes
  <2>2. thread'[t] = [Idle EXCEPT !.pc = "delete",
                                             !.keys = {x \in Tx : index[x] # {}}] /\ Others(t)
    BY <1>1, <2>1
  <2> QED
    BY <1>11, <2>2 DEF View, At, Idle
<1>12. ASSUME Delete(t) PROVE Others(t) /\ thread[t].pc = "delete" /\ thread'[t].pc = "tip"
  BY <1>1, <1>2, <1>12 DEF Delete, Goes, At
<1>13. ASSUME ReadTip(t)
       PROVE  /\ Others(t) /\ thread[t].pc = "tip" /\ thread'[t].pc = "write"
              /\ thread'[t].tip = lastHash
  <2>1. thread' = [thread EXCEPT ![t] = [Idle EXCEPT !.pc = "write", !.tip = lastHash]]
    BY <1>13 DEF ReadTip, Goes
  <2>2. thread'[t] = [Idle EXCEPT !.pc = "write", !.tip = lastHash] /\ Others(t)
    BY <1>1, <2>1
  <2> QED
    BY <1>13, <2>2 DEF ReadTip, At, Idle
<1>14. ASSUME Write(t) PROVE Others(t) /\ thread[t].pc = "write" /\ thread'[t].pc = "idle"
  BY <1>1, <1>14 DEF Write, Goes, At, Idle
<1> QED
  BY <1>3, <1>4, <1>5, <1>6, <1>7, <1>8, <1>9, <1>10, <1>11, <1>12, <1>13, <1>14

(* Most steps leave AddBlock alone. *)
LEMMA PointerFrame ==
  ASSUME PointerInv,
         UNCHANGED <<up, stored, lastHash>>,
         \A u \in Thread : Adding(u) \/ Adding(u)' => thread'[u] = thread[u]
  PROVE  PointerInv'
<1>1. Tip' = Tip
  BY DEF Tip
<1>2. ASSUME NEW u \in Thread
      PROVE  /\ Adding(u)' <=> Adding(u)
             /\ Adding(u) => thread'[u] = thread[u]
  BY DEF Adding
<1>3. ASSUME NEW u \in Thread
      PROVE  /\ Raises(u)' <=> Raises(u)
             /\ Raises(u) => thread'[u] = thread[u] /\ (Conflicts(u)' <=> Conflicts(u))
  BY <1>1, <1>2 DEF Raises, Conflicts
<1> QED
  BY <1>1, <1>2, <1>3 DEF PointerInv

LEMMA PointerStep == TypeOK /\ Down /\ PointerInv /\ [Next]_vars => PointerInv'
<1> SUFFICES ASSUME TypeOK, Down, PointerInv, [Next]_vars PROVE PointerInv'
  OBVIOUS
<1>0. /\ Tip \in stored /\ Tip \in Block /\ \A b \in stored : b <= Tip
      /\ stored \subseteq Nat /\ Block \subseteq Nat
  BY MaxOfBlocks DEF Tip, TypeOK, Block
<1>1. ASSUME Dies PROVE PointerInv'
  BY <1>1 DEF Dies, PointerInv, Raises, Adding, Idle
<1>2. ASSUME Start PROVE PointerInv'
  <2>1. lastHash' = Tip' /\ \A t \in Thread : ~Adding(t)'
    BY <1>2 DEF Start, Down, Adding, Idle, Tip
  <2> QED
    BY <2>1 DEF PointerInv, Raises
<1>3. ASSUME NEW t \in Thread, NEW b \in Block, HandleBlock(t, b) PROVE PointerInv'
  <2>1. Tip' = Tip /\ stored' = stored /\ up' = up /\ ~Adding(t)
    BY <1>3 DEF HandleBlock, Tip, At, Adding
  <2>2. CASE b \in stored
    <3>1. ~Adding(t)'
      BY <1>3, <2>2, Moves DEF Adding
    <3>2. Others(t)
      BY <1>3, Moves
    <3>3. UNCHANGED <<up, stored, lastHash>>
      BY <1>3, <2>2 DEF HandleBlock
    <3> QED
      BY <2>1, <3>1, <3>2, <3>3, PointerFrame DEF Others
  <2>3. CASE b \notin stored
    <3>1. /\ Adding(t)' /\ thread'[t].block = b /\ thread'[t].tip = Tip
          /\ \A u \in Thread \ {t} : thread'[u] = thread[u]
      BY <1>3, <2>3, Moves DEF Adding, Others
    <3>2. \A u \in Thread \ {t} : /\ Adding(u)' <=> Adding(u)
                                  /\ Raises(u)' <=> Raises(u)
                                  /\ Conflicts(u)' <=> Conflicts(u)
      BY <2>1, <3>1 DEF Adding, Raises, Conflicts
    <3>3. \A u \in Thread : Adding(u)' => thread'[u].tip <= Tip'
      BY <1>0, <2>1, <3>1, <3>2 DEF PointerInv
    <3>4. CASE b > Tip
      <4>1. Raises(t)' /\ thread'[t].block = lastHash'
        BY <1>3, <2>3, <3>1, <3>4 DEF Raises, HandleBlock
      <4> QED
        BY <3>3, <4>1 DEF PointerInv
    <3>5. CASE ~(b > Tip)
      <4>1. ~Raises(t)' /\ lastHash' = lastHash
        BY <1>3, <2>3, <3>1, <3>5 DEF Raises, HandleBlock
      <4>2. ~Raises(t)
        BY <2>1 DEF Raises
      <4> QED
        BY <2>1, <3>1, <3>2, <3>3, <4>1, <4>2 DEF PointerInv
    <3> QED
      BY <3>4, <3>5
  <2> QED
    BY <2>2, <2>3
<1>4. ASSUME NEW t \in Thread, Commit(t) PROVE PointerInv'
  <2> DEFINE b == thread[t].block
  <2>1. /\ ~Adding(t)' /\ Adding(t) /\ ~Conflicts(t) /\ b \in Block
        /\ \A u \in Thread \ {t} : thread'[u] = thread[u]
        /\ stored' = stored \cup {b} /\ UNCHANGED <<up, lastHash>> /\ up
    BY <1>4, Moves DEF Commit, Adding, At, TypeOK, Others
  <2>2. /\ Tip' \in stored' /\ Tip' \in Nat /\ \A x \in stored' : x <= Tip'
    <3>1. stored' \in SUBSET Block /\ 0 \in stored'
      BY <2>1 DEF TypeOK
    <3>2. Max(stored') \in stored' /\ \A x \in stored' : x <= Max(stored')
      BY <3>1, MaxOfBlocks
    <3> QED
      BY <1>0, <3>1, <3>2 DEF Tip
  <2>3. Tip <= Tip'
    BY <1>0, <2>1, <2>2
  <2>4. ASSUME NEW u \in Thread
        PROVE  /\ Adding(u)' => u # t /\ Adding(u) /\ thread'[u] = thread[u]
               /\ Adding(u) /\ u # t => Adding(u)'
               /\ Raises(u)' => u # t /\ Raises(u) /\ thread'[u] = thread[u]
               /\ Raises(u) /\ u # t => Raises(u)'
    BY <2>1 DEF Adding, Raises
  <2>5. ASSUME NEW u \in Thread, Adding(u)' PROVE thread'[u].tip <= Tip'
    <3>1. thread[u].tip \in Nat
      BY <1>0 DEF TypeOK
    <3> QED
      BY <1>0, <2>2, <2>3, <2>4, <2>5, <3>1 DEF PointerInv
  <2>6. CASE Raises(t)
    <3>1. Tip' = b
      <4>1. b > Tip
        BY <2>1, <2>6 DEF Raises, Conflicts
      <4>2. b \in Nat /\ b <= Tip'
        BY <1>0, <2>1, <2>2
      <4>3. Tip' \in stored => Tip' <= Tip
        BY <1>0
      <4> QED
        BY <1>0, <2>1, <2>2, <4>1, <4>2, <4>3
    <3>2. PICK w \in Thread : Raises(w) /\ thread[w].block = lastHash
      BY <2>1, <2>6 DEF PointerInv
    <3>3. lastHash' # Tip' => Raises(w)' /\ thread'[w].block = lastHash'
      BY <2>1, <2>4, <3>1, <3>2
    <3>4. ASSUME NEW u \in Thread, Raises(u)' PROVE Conflicts(u)'
      <4>1. thread[u].tip <= Tip /\ Tip < Tip' /\ thread'[u] = thread[u] /\ thread[u].tip \in Nat
        BY <1>0, <2>1, <2>4, <2>6, <3>1, <3>4 DEF PointerInv, Raises, Conflicts, TypeOK
      <4> QED
        BY <1>0, <2>2, <4>1 DEF Conflicts
    <3> QED
      BY <2>5, <3>3, <3>4 DEF PointerInv
  <2>7. CASE ~Raises(t)
    <3>1. Tip' = Tip
      <4>1. b <= Tip
        <5>1. ~(b > thread[t].tip) /\ thread[t].tip = Tip /\ b \in Nat
          BY <1>0, <2>1, <2>7 DEF Raises, Conflicts
        <5> QED
          BY <1>0, <5>1
      <4> QED
        BY <1>0, <2>1, <2>2, <4>1
    <3>2. ASSUME NEW u \in Thread, Raises(u)', ~Conflicts(u)' PROVE Raises(u) /\ ~Conflicts(u)
      BY <2>1, <2>4, <3>1, <3>2 DEF Conflicts
    <3> QED
      BY <2>1, <2>4, <2>5, <2>7, <3>1, <3>2 DEF PointerInv
  <2> QED
    BY <2>6, <2>7
<1>5. ASSUME NEW t \in Thread, NEW items \in Inventories, HandleInv(t, items) PROVE PointerInv'
  <2>1. ~Adding(t) /\ ~Adding(t)' /\ \A u \in Thread \ {t} : thread'[u] = thread[u]
    BY <1>5, Moves DEF Adding, Others
  <2> QED
    BY <1>5, <2>1, PointerFrame DEF HandleInv
<1>6. ASSUME NEW t \in Thread, Step(t), ~Commit(t) PROVE PointerInv'
  <2>1. UNCHANGED <<up, stored, lastHash>>
    BY <1>6 DEF Step, Filter, Assign, Check, Request, Slice, View, Delete, ReadTip, Write
  <2>2. ~Adding(t) /\ ~Adding(t)' /\ \A u \in Thread \ {t} : thread'[u] = thread[u]
    BY <1>6, Moves DEF Step, Adding, Others
  <2> QED
    BY <2>1, <2>2, PointerFrame
<1>7. ASSUME Drop \/ UNCHANGED vars PROVE PointerInv'
  BY <1>7, PointerFrame DEF Drop, vars
<1> QED
  BY <1>1, <1>2, <1>3, <1>4, <1>5, <1>6, <1>7 DEF Next, Receive, Kill, Panic

LEMMA TipSettled ==
  ASSUME PointerInv, up, \A t \in Thread : ~Adding(t)
  PROVE  lastHash = Tip
  BY DEF PointerInv, Raises

-----------------------------------------------------------------------------
(* The index. *)

(* An output that is unspent at the higher of two blocks is so at the lower *)
(* one, if that has its transaction.                                        *)
LEMMA UnspentShrinks ==
  ASSUME NEW g \in Block, NEW h \in Block, h <= g, NEW x \in Tx, Unspent(h)[x] # {}
  PROVE  Unspent(g)[x] \subseteq Unspent(h)[x]
<1>1. Born[x] \in Nat /\ g \in Nat /\ h \in Nat
  BY ChainAssumption DEF Block
<1>2. ~(Born[x] > h)
  BY DEF Unspent
<1>3. ASSUME NEW o \in Outputs[x], Spent[o] > g PROVE Spent[o] > h
  BY <1>1, <1>3, ChainAssumption
<1> QED
  BY <1>1, <1>2, <1>3 DEF Unspent

LEMMA AsksSomething ==
  ASSUME TypeOK, NEW b, Asks(b)
  PROVE  asked' # EmptyBag
<1>1. BagToSet(asked') = BagToSet(asked) \cup {b}
  BY BagAdd DEF Asks, TypeOK
<1>2. BagToSet(EmptyBag) = {}
  BY BagEmpty
<1> QED
  BY <1>1, <1>2

LEMMA Ends ==
  ASSUME Kill \/ \E t \in Thread : Panic(t)
  PROVE  up /\ Dies
  BY DEF Kill, Panic, NoneLeft, Hole, Conflict, Torn, At

LEMMA CoverStep == TypeOK /\ Down /\ PointerInv /\ CoverInv /\ [Next]_vars => CoverInv'
<1> SUFFICES ASSUME TypeOK, Down, PointerInv, CoverInv, [Next]_vars PROVE CoverInv'
  OBVIOUS
<1>1. ASSUME up, Dies PROVE CoverInv'
  <2>1. ~up' /\ Tip' = Tip /\ index' = index
    BY <1>1 DEF Dies, Tip
  <2>2. ASSUME ~cut' PROVE Covers(Tip)
    <3>1. ~cut /\ asked = EmptyBag /\ \A t \in Thread : thread[t].pc = "idle"
      BY <1>1, <2>2 DEF Dies, Quiet
    <3>2. ~Coming /\ Owed
      BY <3>1 DEF Coming, Owed
    <3>3. lastHash = Tip
      BY <1>1, <3>1, TipSettled DEF Adding
    <3> QED
      BY <1>1, <3>2, <3>3 DEF CoverInv
  <2> QED
    BY <2>1, <2>2 DEF CoverInv, Covers
<1>2. ASSUME Start PROVE CoverInv'
  <2>1. up' /\ ~up /\ lastHash' = Tip /\ index' = index /\ cut' = cut /\ thread' = thread
    BY <1>2 DEF Start
  <2>2. \A t \in Thread : thread[t].pc = "idle"
    BY <2>1 DEF Down, Idle
  <2>3. Owed' => ~cut
    BY <2>1, <2>2 DEF Owed
  <2> QED
    BY <2>1, <2>3 DEF CoverInv, Covers
<1>3. ASSUME Drop \/ UNCHANGED vars PROVE CoverInv'
  <2>1. UNCHANGED <<up, stored, lastHash, index, thread, cut>> /\ (up => asked' = asked)
    BY <1>3 DEF Drop, vars
  <2> QED
    BY <2>1 DEF CoverInv, Covers, Coming, Owed, Tip
<1>4. ASSUME NEW t \in Thread, NEW b \in Block, HandleBlock(t, b) PROVE CoverInv'
  <2>1. up' /\ thread'[t].pc \in {"adding", "added"}
    BY <1>4, Moves DEF HandleBlock, At
  <2> QED
    BY <2>1 DEF CoverInv, Coming
<1>5. ASSUME NEW t \in Thread, NEW items \in Inventories, HandleInv(t, items) PROVE CoverInv'
  <2>1. up' /\ asked' # EmptyBag
    BY <1>5, AsksSomething DEF HandleInv, At
  <2> QED
    BY <2>1 DEF CoverInv, Coming
<1>6. ASSUME NEW t \in Thread, Filter(t) \/ Assign(t) \/ Slice(t) PROVE CoverInv'
  <2>1. UNCHANGED <<up, lastHash, index, asked, cut>> /\ up
    BY <1>6 DEF Filter, Assign, Slice, At
  <2>2. /\ Others(t) /\ thread[t].pc \in {"filter", "assign", "slice"}
        /\ thread'[t].pc \in {"assign", "idle"}
    BY <1>6, Moves
  <2>3. Coming => Coming'
    BY <2>1, <2>2 DEF Coming, Others
  <2>4. Owed' => Owed
    BY <2>1, <2>2 DEF Owed, Others
  <2> QED
    BY <2>1, <2>3, <2>4 DEF CoverInv, Covers
<1>7. ASSUME NEW t \in Thread, Commit(t) \/ Check(t) \/ View(t) \/ Delete(t) PROVE CoverInv'
  <2>1. thread'[t].pc \in {"added", "request", "view", "delete", "tip"}
    BY <1>7, Moves
  <2>2. up'
    <3>1. (Commit(t) => up') /\ (Check(t) => up')
      BY DEF Commit, Check, At
    <3>2. View(t) => up'
      BY DEF View, At
    <3>3. Delete(t) => up'
      BY DEF Delete, At
    <3> QED
      BY <1>7, <3>1, <3>2, <3>3
  <2> QED
    BY <2>1, <2>2 DEF CoverInv, Coming
<1>8. ASSUME NEW t \in Thread, Request(t) PROVE CoverInv'
  <2>1. up' /\ asked' # EmptyBag
    BY <1>8, AsksSomething DEF Request, At
  <2> QED
    BY <2>1 DEF CoverInv, Coming
<1>9. ASSUME NEW t \in Thread, ReadTip(t) PROVE CoverInv'
  <2>1. up' /\ thread'[t].pc = "write" /\ thread'[t].tip = lastHash'
    BY <1>9, Moves DEF ReadTip, At
  <2> QED
    BY <2>1 DEF CoverInv, Coming
<1>10. ASSUME NEW t \in Thread, Write(t) PROVE CoverInv'
  <2> DEFINE found == Unspent(thread[t].tip)
  <2>1. /\ up /\ Whole(thread[t].tip) /\ UNCHANGED <<up, stored, lastHash, asked>>
        /\ index' = [x \in Tx |-> IF found[x] # {} THEN found[x] ELSE index[x]]
        /\ Others(t) /\ thread[t].pc = "write" /\ thread'[t].pc = "idle"
    BY <1>10, Moves DEF Write, At
  <2>2. Coming \/ Covers(lastHash)
    BY <2>1 DEF CoverInv, Owed
  <2>3. CASE thread[t].tip = lastHash
    <3>1. Covers(lastHash)'
      BY <2>1, <2>3 DEF Covers
    <3> QED
      BY <2>1, <3>1 DEF CoverInv
  <2>4. CASE thread[t].tip # lastHash /\ Coming
    <3>1. Coming'
      BY <2>1, <2>4 DEF Coming, Others
    <3> QED
      BY <2>1, <3>1 DEF CoverInv
  <2>5. CASE ~Coming /\ Covers(lastHash)
    <3>1. lastHash = Tip
      BY <2>1, <2>5, TipSettled DEF Coming, Adding
    <3>2. thread[t].tip \in stored /\ thread[t].tip \in Block
      BY <2>1 DEF Whole, TypeOK, Block
    <3>3. thread[t].tip <= lastHash /\ lastHash \in Block
      BY <3>1, <3>2, MaxOfBlocks DEF Tip, TypeOK
    <3>4. ASSUME NEW x \in Tx PROVE Unspent(lastHash)[x] \subseteq index'[x]
      <4>1. CASE found[x] # {}
        BY <2>1, <3>2, <3>3, <4>1, UnspentShrinks
      <4>2. CASE found[x] = {}
        BY <2>1, <2>5, <4>2 DEF Covers
      <4> QED
        BY <4>1, <4>2
    <3> QED
      BY <2>1, <3>4 DEF CoverInv, Covers
  <2> QED
    BY <2>2, <2>3, <2>4, <2>5
<1> QED
  BY <1>1, <1>2, <1>3, <1>4, <1>5, <1>6, <1>7, <1>8, <1>9, <1>10, Ends DEF Next, Receive, Step

LEMMA ExactStep == TypeOK /\ Down /\ PointerInv /\ ExactInv /\ [Next]_vars => ExactInv'
<1> SUFFICES ASSUME TypeOK, Down, PointerInv, ExactInv, [Next]_vars PROVE ExactInv'
  OBVIOUS
<1> DEFINE Alone == \A t, u \in Thread : Reindexing(t) /\ Reindexing(u) => t = u
           Clean == \A u \in Thread :
              /\ thread[u].pc = "delete" => thread[u].keys = {x \in Tx : index[x] # {}}
              /\ thread[u].pc \in {"tip", "write"} => \A x \in Tx : index[x] = {}
           Done == index = Unspent(lastHash) /\ \A u \in Thread : ~Reindexing(u)
(* A step of a goroutine that neither begins nor is in Reindex. *)
<1>0. ASSUME UNCHANGED <<index, raced>>,
             \A u \in Thread : Reindexing(u) \/ Reindexing(u)' => thread'[u] = thread[u]
      PROVE  ~raced' => Alone' /\ Clean'
  <2>1. \A u \in Thread : Reindexing(u)' <=> Reindexing(u)
    BY <1>0 DEF Reindexing
  <2>2. ~raced => Alone /\ Clean
    BY DEF ExactInv
  <2>3. Alone => Alone'
    BY <2>1
  <2>4. Clean => Clean'
    BY <1>0, <2>1 DEF Reindexing
  <2> QED
    BY <1>0, <2>2, <2>3, <2>4
<1>1. ASSUME up, Dies PROVE ExactInv'
  <2>1. /\ ~up' /\ Tip' = Tip /\ index' = index /\ raced' = raced
        /\ \A t \in Thread : thread'[t].pc = "idle"
    BY <1>1 DEF Dies, Tip, Idle
  <2>2. ASSUME ~cut', ~raced PROVE index = Unspent(Tip)
    <3>1. ~cut /\ asked = EmptyBag /\ \A t \in Thread : thread[t].pc = "idle"
      BY <1>1, <2>2 DEF Dies, Quiet
    <3>2. ~Coming /\ Owed
      BY <3>1 DEF Coming, Owed
    <3>3. lastHash = Tip
      BY <1>1, <3>1, TipSettled DEF Adding
    <3> QED
      BY <1>1, <2>2, <3>2, <3>3 DEF ExactInv
  <2>3. Alone' /\ Clean'
    BY <2>1 DEF Reindexing
  <2>4. ~up' /\ ~cut' /\ ~raced' => index' = Unspent(Tip')
    BY <2>1, <2>2
  <2> QED
    BY <2>1, <2>3, <2>4 DEF ExactInv
<1>2. ASSUME Start PROVE ExactInv'
  <2>1. /\ up' /\ ~up /\ lastHash' = Tip
        /\ UNCHANGED <<index, cut, thread, raced>>
    BY <1>2 DEF Start
  <2>2. \A t \in Thread : thread[t].pc = "idle" /\ ~Reindexing(t) /\ ~Reindexing(t)'
    BY <2>1 DEF Down, Idle, Reindexing
  <2>3. Owed' => ~cut
    BY <2>1, <2>2 DEF Owed
  <2>4. Alone' /\ Clean'
    BY <2>1, <2>2 DEF Reindexing
  <2>5. Owed' /\ ~raced' => Done'
    BY <2>1, <2>2, <2>3 DEF ExactInv
  <2> QED
    BY <2>1, <2>4, <2>5 DEF ExactInv
<1>3. ASSUME Drop \/ UNCHANGED vars PROVE ExactInv'
  <2>1. UNCHANGED <<up, stored, lastHash, index, thread, cut, raced>> /\ (up => asked' = asked)
    BY <1>3 DEF Drop, vars
  <2>2. Tip' = Tip /\ (\A u \in Thread : Reindexing(u)' <=> Reindexing(u))
    BY <2>1 DEF Tip, Reindexing
  <2>3. up => (Coming' <=> Coming) /\ (Owed' <=> Owed)
    BY <2>1 DEF Coming, Owed
  <2> QED
    BY <2>1, <2>2, <2>3 DEF ExactInv
<1>4. ASSUME NEW t \in Thread, NEW b \in Block, HandleBlock(t, b) PROVE ExactInv'
  <2>1. /\ up' /\ thread'[t].pc \in {"adding", "added"} /\ Others(t) /\ thread[t].pc = "idle"
        /\ UNCHANGED <<index, raced>>
    BY <1>4, Moves DEF HandleBlock, At
  <2>2. ~raced' => Alone' /\ Clean'
    BY <1>0, <2>1 DEF Others, Reindexing
  <2> QED
    BY <2>1, <2>2 DEF ExactInv, Coming
<1>5. ASSUME NEW t \in Thread, NEW items \in Inventories, HandleInv(t, items) PROVE ExactInv'
  <2>1. /\ up' /\ asked' # EmptyBag /\ Others(t)
        /\ thread[t].pc = "idle" /\ thread'[t].pc = "filter"
        /\ UNCHANGED <<index, raced>>
    BY <1>5, AsksSomething, Moves DEF HandleInv, At
  <2>2. ~raced' => Alone' /\ Clean'
    BY <1>0, <2>1 DEF Others, Reindexing
  <2> QED
    BY <2>1, <2>2 DEF ExactInv, Coming
<1>6. ASSUME NEW t \in Thread, Filter(t) \/ Assign(t) \/ Slice(t) PROVE ExactInv'
  <2>1. UNCHANGED <<up, lastHash, index, asked, cut, raced>> /\ up
    BY <1>6 DEF Filter, Assign, Slice, At
  <2>2. /\ Others(t) /\ thread[t].pc \in {"filter", "assign", "slice"}
        /\ thread'[t].pc \in {"assign", "idle"}
    BY <1>6, Moves
  <2>3. Coming => Coming'
    BY <2>1, <2>2 DEF Coming, Others
  <2>4. Owed' => Owed
    BY <2>1, <2>2 DEF Owed, Others
  <2>5. \A u \in Thread : Reindexing(u)' <=> Reindexing(u)
    BY <2>2 DEF Reindexing, Others
  <2>6. ~raced' => Alone' /\ Clean'
    BY <1>0, <2>1, <2>2 DEF Others, Reindexing
  <2>7. Done => Done'
    BY <2>1, <2>5
  <2>8. up' /\ Owed' /\ ~raced' => Coming' \/ Done'
    BY <2>1, <2>3, <2>4, <2>7 DEF ExactInv
  <2> QED
    BY <2>1, <2>6, <2>8 DEF ExactInv
<1>7. ASSUME NEW t \in Thread, Commit(t) \/ Check(t) PROVE ExactInv'
  <2>1. up' /\ UNCHANGED <<index, raced>>
    BY <1>7 DEF Commit, Check, At
  <2>2. /\ Others(t) /\ thread[t].pc \in {"adding", "added"}
        /\ thread'[t].pc \in {"added", "request", "view"}
    BY <1>7, Moves
  <2>3. ~raced' => Alone' /\ Clean'
    BY <1>0, <2>1, <2>2 DEF Others, Reindexing
  <2> QED
    BY <2>1, <2>2, <2>3 DEF ExactInv, Coming
<1>8. ASSUME NEW t \in Thread, Request(t) PROVE ExactInv'
  <2>1. /\ up' /\ asked' # EmptyBag /\ Others(t)
        /\ thread[t].pc = "request" /\ thread'[t].pc = "slice"
        /\ UNCHANGED <<index, raced>>
    BY <1>8, AsksSomething, Moves DEF Request, At
  <2>2. ~raced' => Alone' /\ Clean'
    BY <1>0, <2>1 DEF Others, Reindexing
  <2> QED
    BY <2>1, <2>2 DEF ExactInv, Coming
<1>9. ASSUME NEW t \in Thread, View(t) PROVE ExactInv'
  <2>1. /\ up' /\ Others(t) /\ thread[t].pc = "view" /\ thread'[t].pc = "delete"
        /\ thread'[t].keys = {x \in Tx : index[x] # {}}
        /\ index' = index
    BY <1>9, Moves DEF View, At
  <2>2. raced' <=> \E u \in Thread : Reindexing(u)
    BY <1>9, Zenon DEF View
  <2>3. ASSUME ~raced' PROVE Alone' /\ Clean'
    <3>1. \A u \in Thread \ {t} : ~Reindexing(u)'
      BY <2>1, <2>2, <2>3 DEF Reindexing, Others
    <3>2. Alone'
      BY <3>1
    <3>3. Clean'
      BY <2>1, <3>1 DEF Reindexing
    <3> QED
      BY <3>2, <3>3
  <2> QED
    BY <2>1, <2>3 DEF ExactInv, Coming
<1>10. ASSUME NEW t \in Thread, Delete(t) PROVE ExactInv'
  <2>1. /\ up' /\ Others(t) /\ thread[t].pc = "delete" /\ thread'[t].pc = "tip"
        /\ index' = [x \in Tx |-> IF x \in thread[t].keys THEN {} ELSE index[x]]
        /\ raced' = raced
    BY <1>10, Moves DEF Delete, At
  <2>2. ASSUME ~raced' PROVE Alone' /\ Clean'
    <3>1. \A u \in Thread \ {t} : ~Reindexing(u) /\ ~Reindexing(u)'
      BY <2>1, <2>2 DEF ExactInv, Reindexing, Others
    <3>2. thread[t].keys = {x \in Tx : index[x] # {}}
      BY <2>1, <2>2 DEF ExactInv
    <3>3. \A x \in Tx : index'[x] = {}
      BY <2>1, <3>2
    <3>4. Alone'
      BY <3>1
    <3>5. Clean'
      BY <2>1, <3>1, <3>3 DEF Reindexing
    <3> QED
      BY <3>4, <3>5
  <2> QED
    BY <2>1, <2>2 DEF ExactInv, Coming
<1>11. ASSUME NEW t \in Thread, ReadTip(t) PROVE ExactInv'
  <2>1. /\ up' /\ Others(t) /\ thread[t].pc = "tip" /\ thread'[t].pc = "write"
        /\ thread'[t].tip = lastHash' /\ UNCHANGED <<index, raced>>
    BY <1>11, Moves DEF ReadTip, At
  <2>2. \A u \in Thread : Reindexing(u)' <=> Reindexing(u)
    BY <2>1 DEF Reindexing, Others
  <2>3. ~raced' => Alone' /\ Clean'
    <3>1. ~raced => Alone /\ Clean
      BY DEF ExactInv
    <3>2. Alone => Alone'
      BY <2>2
    <3>3. Clean => Clean'
      BY <2>1 DEF Others
    <3> QED
      BY <2>1, <3>1, <3>2, <3>3
  <2> QED
    BY <2>1, <2>3 DEF ExactInv, Coming
<1>12. ASSUME NEW t \in Thread, Write(t) PROVE ExactInv'
  <2> DEFINE found == Unspent(thread[t].tip)
  <2>1. /\ up /\ UNCHANGED <<up, lastHash, asked, raced>>
        /\ index' = [x \in Tx |-> IF found[x] # {} THEN found[x] ELSE index[x]]
        /\ Others(t) /\ thread[t].pc = "write" /\ thread'[t].pc = "idle"
    BY <1>12, Moves DEF Write, At
  <2>2. CASE raced
    BY <2>1, <2>2 DEF ExactInv
  <2>3. CASE ~raced
    <3>1. \A u \in Thread : ~Reindexing(u)'
      BY <2>1, <2>3 DEF ExactInv, Reindexing, Others
    <3>2. Alone' /\ Clean'
      BY <3>1 DEF Reindexing
    <3>3. CASE thread[t].tip = lastHash
      <4>1. \A x \in Tx : index[x] = {}
        BY <2>1, <2>3 DEF ExactInv
      <4>2. index' = Unspent(lastHash)
        BY <2>1, <3>3, <4>1 DEF Unspent
      <4>3. Done'
        BY <2>1, <3>1, <4>2
      <4> QED
        BY <2>1, <3>2, <4>3 DEF ExactInv
    <3>4. CASE thread[t].tip # lastHash
      <4>1. Coming
        BY <2>1, <2>3 DEF ExactInv, Owed, Reindexing
      <4>2. Coming'
        BY <2>1, <3>4, <4>1 DEF Coming, Others
      <4> QED
        BY <2>1, <3>2, <4>2 DEF ExactInv
    <3> QED
      BY <3>3, <3>4
  <2> QED
    BY <2>2, <2>3
<1> QED
  BY <1>1, <1>2, <1>3, <1>4, <1>5, <1>6, <1>7, <1>8, <1>9, <1>10, <1>11, <1>12, Ends
  DEF Next, Receive, Step

Inv == TypeOK /\ Down /\ PointerInv /\ CoverInv /\ ExactInv

LEMMA InvInit == Init => Inv
<1> SUFFICES ASSUME Init PROVE Inv
  OBVIOUS
<1>1. TypeOK
  BY TypeInit
<1>2. /\ ~up /\ thread = [t \in Thread |-> Idle] /\ transit = << >> /\ index = Unspent(0)
      /\ \A t \in Thread : thread[t].pc = "idle"
  BY DEF Init, Idle
<1>3. Tip = 0
  BY <1>1, MaxOfBlocks DEF Init, Tip, TypeOK
<1>4. Down /\ PointerInv
  BY <1>2 DEF Down, PointerInv, Raises, Adding
<1>5. CoverInv /\ ExactInv
  BY <1>2, <1>3 DEF CoverInv, ExactInv, Covers, Reindexing
<1> QED
  BY <1>1, <1>4, <1>5 DEF Inv

LEMMA InvStep == Inv /\ [Next]_vars => Inv'
  BY TypeStep, DownStep, PointerStep, CoverStep, ExactStep DEF Inv

(* Whichever goroutines delete and write the index, in whatever order and   *)
(* from whatever block, a server that comes to rest has every unspent       *)
(* output of its chain in the index.                                        *)
THEOREM NothingMissingAlways == Spec => []NothingMissing
<1>1. Inv => NothingMissing
  BY DEF Inv, NothingMissing, CoverInv, Covers, Owed, Coming, Quiet
<1> QED
  BY <1>1, InvInit, InvStep, PTL DEF Spec

(* When the last call of Reindex ran alone, the index then holds nothing    *)
(* else.                                                                    *)
THEOREM IndexExactAlways == Spec => []IndexExact
<1>1. Inv => IndexExact
  BY DEF Inv, IndexExact, ExactInv, Owed, Coming, Quiet
<1> QED
  BY <1>1, InvInit, InvStep, PTL DEF Spec

-----------------------------------------------------------------------------
(* The list of blocks. *)
LEMMA ClosedFrom ==
  ASSUME Closed, Fetching' => Fetching,
         \A b \in Block : (b \in stored \/ Remaining(b))' <=> b \in stored \/ Remaining(b)
  PROVE  Closed'
<1>1. \A b \in Block : Parents(b) \subseteq Block
  BY DEF Parents
<1> QED
  BY <1>1 DEF Closed

LEMMA WalkFrom ==
  ASSUME WalkInv, stored' = stored, ToWalk' => ToWalk,
         \A b \in Block : Remaining(b)' => Remaining(b),
         \A u \in Thread : thread'[u].pc = "write" => thread'[u] = thread[u]
  PROVE  WalkInv'
  BY DEF WalkInv, Gapless, Whole

(* A step of the goroutine that uses the list: the invariants about it are  *)
(* about this goroutine only.                                               *)
LEMMA OnlyBusy ==
  ASSUME OneBusy, NEW t \in Thread, Others(t), Busy(t)
  PROVE  /\ \A u \in Thread \ {t} : ~Busy(u) /\ ~Busy(u)' /\ thread'[u] = thread[u]
         /\ OneBusy'
         /\ Fetching
  BY DEF OneBusy, Others, Busy, Fetching

(* A step within Reindex leaves the list alone. *)
LEMMA ReindexFrame ==
  ASSUME OneBusy, PhaseInv, Closed, NEW t \in Thread, Others(t),
         UNCHANGED <<stored, transit, asked>>,
         thread[t].pc \in {"view", "delete", "tip", "write"},
         thread'[t].pc \in {"delete", "tip", "write", "idle"}
  PROVE  /\ OneBusy' /\ PhaseInv' /\ Closed'
         /\ \A b \in Block : Remaining(b)' => Remaining(b)
<1>1. ASSUME NEW u \in Thread
      PROVE  /\ Busy(u)' <=> Busy(u)
             /\ Busy(u) => thread'[u] = thread[u]
  BY DEF Busy, Others
<1>2. Tip' = Tip
  BY DEF Tip
<1>3. OneBusy'
  BY <1>1 DEF OneBusy
<1>4. PhaseInv'
  BY <1>1, <1>2 DEF PhaseInv, Busy, Adding, Conflicts, AskedOne
<1>5. \A u \in Thread : /\ Adding(u)' <=> Adding(u)
                        /\ thread'[u].pc = "assign" <=> thread[u].pc = "assign"
                        /\ Adding(u) \/ thread[u].pc = "assign" => thread'[u] = thread[u]
  BY DEF Adding, Others
<1>6. \A b \in Block : Remaining(b)' <=> Remaining(b)
  BY <1>5 DEF Remaining
<1>7. Fetching' => Fetching
  BY <1>1 DEF Fetching
<1>8. Closed'
  BY <1>6, <1>7, ClosedFrom
<1> QED
  BY <1>3, <1>4, <1>6, <1>8

LEMMA ListStep == TypeOK /\ Down /\ ListInv /\ [Next]_vars => ListInv'
<1> SUFFICES ASSUME TypeOK, Down, ListInv, [Next]_vars, up', ~disturbed'
             PROVE  OneBusy' /\ PhaseInv' /\ Closed' /\ WalkInv'
  BY DEF ListInv
<1> USE DEF ListInv
<1>1. ASSUME Dies PROVE FALSE
  BY <1>1 DEF Dies
<1>2. ASSUME Start PROVE OneBusy' /\ PhaseInv' /\ Closed' /\ WalkInv'
  <2>1. asked' = EmptyBag /\ transit' = << >> /\ \A t \in Thread : thread'[t].pc = "idle"
    <3>1. ~up /\ UNCHANGED <<asked, transit, thread>>
      BY <1>2 DEF Start
    <3>2. asked = EmptyBag
      BY <1>2, Zenon DEF Start
    <3> QED
      BY <3>1, <3>2 DEF Down, Idle
  <2>2. OneBusy' /\ PhaseInv' /\ ~Fetching'
    BY <2>1 DEF OneBusy, Busy, PhaseInv, Adding, Fetching
  <2>3. Closed'
    BY <2>2 DEF Closed
  <2>4. WalkInv'
    BY <2>1 DEF WalkInv, ToWalk
  <2> QED
    BY <2>2, <2>3, <2>4
<1>3. ASSUME Drop PROVE FALSE
  BY <1>3 DEF Drop
<1>4. ASSUME UNCHANGED vars PROVE OneBusy' /\ PhaseInv' /\ Closed' /\ WalkInv'
  BY <1>4 DEF vars, OneBusy, Busy, PhaseInv, Adding, Conflicts, AskedOne, Tip, Closed,
              Fetching, Remaining, WalkInv, ToWalk, Gapless, Whole
<1>5. ASSUME NEW t \in Thread, NEW items \in Inventories, HandleInv(t, items)
      PROVE  OneBusy' /\ PhaseInv' /\ Closed' /\ WalkInv'
  <2>1. /\ up /\ ~disturbed /\ ~Queueing /\ asked = EmptyBag
        /\ Gapless(stored \cup ToSet(items))
        /\ ToWalk => \A b \in ToSet(items) : Parents(b) \subseteq stored
    BY <1>5, Zenon DEF HandleInv, At
  <2>2. /\ Others(t) /\ thread[t].pc = "idle" /\ thread'[t].pc = "filter"
        /\ thread'[t].block = Head(items)
    BY <1>5, Moves
  <2>3. transit' = items /\ asked' = SetToBag({Head(items)}) /\ stored' = stored
    BY <1>5, <2>1, BagSingleton DEF HandleInv, Asks
  <2>4. items \in Seq(Block) /\ items # << >> /\ Head(items) \in ToSet(items)
    BY ChainAssumption, HeadTailElements
  <2>5. \A u \in Thread \ {t} : ~Busy(u) /\ ~Busy(u)'
    BY <2>1, <2>2 DEF Queueing, Busy, Others
  <2>6. OneBusy' /\ PhaseInv'
    BY <2>2, <2>3, <2>4, <2>5 DEF OneBusy, PhaseInv, Busy, Adding
  <2>7. BagToSet(asked') = {Head(items)}
    BY <2>3, BagSingleton
  <2>8. \A b : Remaining(b)' <=> b \in ToSet(items)
    BY <2>2, <2>3, <2>4, <2>5, <2>7 DEF Remaining, Busy, Adding
  <2>9. Closed'
    <3>1. \A b \in Block : Parents(b) \subseteq Block
      BY DEF Parents
    <3> QED
      BY <2>1, <2>3, <2>8, <3>1 DEF Closed, Gapless
  <2>10. WalkInv'
    <3>1. ToWalk' => ToWalk
      BY <2>2 DEF ToWalk, Others
    <3>2. \A u \in Thread : thread'[u].pc = "write" => thread'[u] = thread[u]
      BY <2>2 DEF Others
    <3> QED
      BY <2>1, <2>3, <2>8, <3>1, <3>2 DEF WalkInv, Gapless, Whole
  <2> QED
    BY <2>6, <2>9, <2>10
<1>6. ASSUME NEW t \in Thread, NEW b \in Block, HandleBlock(t, b)
      PROVE  OneBusy' /\ PhaseInv' /\ Closed' /\ WalkInv'
  <2>1. up /\ ~disturbed /\ ~Queueing
    BY <1>6, Zenon DEF HandleBlock, At
  <2>2. /\ Others(t) /\ thread[t].pc = "idle"
        /\ b \in stored => thread'[t].pc = "added"
        /\ b \notin stored => /\ thread'[t].pc = "adding"
                              /\ thread'[t].block = b /\ thread'[t].tip = Tip
    BY <1>6, Moves
  <2>3. UNCHANGED <<stored, transit>> /\ Tip' = Tip
    BY <1>6 DEF HandleBlock, Tip
  <2>4. \A u \in Thread : ~Busy(u)
    BY <2>1 DEF Queueing, Busy
  <2>5. asked = SetToBag({b})
    <3>1. b \in BagToSet(asked)
      BY <1>6 DEF HandleBlock
    <3>2. asked # EmptyBag
      BY <3>1, BagEmpty
    <3>3. PICK c \in Block : asked = SetToBag({c})
      BY <2>1, <2>4, <3>2 DEF PhaseInv, AskedOne
    <3>4. b = c
      BY <3>1, <3>3, BagSingleton
    <3> QED
      BY <3>3, <3>4
  <2>6. asked' = EmptyBag /\ BagToSet(asked') = {} /\ BagToSet(asked) = {b}
    BY <1>6, <2>5, BagSingleton, BagEmpty DEF HandleBlock
  <2>7. \A u \in Thread \ {t} : ~Busy(u)' /\ thread'[u] = thread[u]
    BY <2>2, <2>4 DEF Busy, Others
  <2>8. OneBusy' /\ Busy(t)'
    BY <2>2, <2>7 DEF OneBusy, Busy
  <2>9. Adding(t)' => ~Conflicts(t)'
    BY <2>2, <2>3 DEF Adding, Conflicts
  <2>10. PhaseInv'
    BY <2>2, <2>6, <2>7, <2>8, <2>9 DEF PhaseInv, Busy, Adding
  <2>11. \A x : Remaining(x) <=> x = b \/ x \in ToSet(transit)
    BY <2>4, <2>6 DEF Remaining, Busy, Adding
  <2>12. \A x : Remaining(x)' <=> (x = b /\ b \notin stored) \/ x \in ToSet(transit)
    BY <2>2, <2>3, <2>6, <2>7 DEF Remaining, Busy, Adding
  <2>13. Fetching
    BY <2>5, BagSingleton DEF Fetching
  <2>14. Closed'
    BY <2>1, <2>3, <2>11, <2>12, <2>13, ClosedFrom
  <2>15. WalkInv'
    <3>1. ToWalk' => ToWalk
      BY <2>2 DEF ToWalk, Others
    <3>2. \A u \in Thread : thread'[u].pc = "write" => thread'[u] = thread[u]
      BY <2>2 DEF Others
    <3> QED
      BY <2>1, <2>3, <2>11, <2>12, <3>1, <3>2, WalkFrom
  <2> QED
    BY <2>8, <2>10, <2>14, <2>15
<1>7. ASSUME NEW t \in Thread, Filter(t)
      PROVE  OneBusy' /\ PhaseInv' /\ Closed' /\ WalkInv'
  <2> DEFINE first == thread[t].block
  <2>1. up /\ ~disturbed /\ UNCHANGED <<stored, transit, asked>>
    BY <1>7 DEF Filter, At
  <2>2. /\ Others(t) /\ thread[t].pc = "filter" /\ thread'[t].pc = "assign"
        /\ thread'[t].list = Without(transit, {first})
    BY <1>7, Moves
  <2>3. Busy(t) /\ Busy(t)'
    BY <2>2 DEF Busy
  <2>4. /\ \A u \in Thread \ {t} : ~Busy(u) /\ ~Busy(u)' /\ thread'[u] = thread[u]
        /\ OneBusy' /\ Fetching
    BY <2>1, <2>2, <2>3, OnlyBusy
  <2>5. asked = SetToBag({first}) /\ first \in ToSet(transit) /\ BagToSet(asked) = {first}
    BY <2>1, <2>2, BagSingleton DEF PhaseInv
  <2>6. first \in Block
    BY DEF TypeOK
  <2>7. ToSet(thread'[t].list) = ToSet(transit) \ {first}
    BY <2>2, WithoutElements DEF TypeOK
  <2>8. PhaseInv'
    BY <2>1, <2>2, <2>3, <2>4, <2>5, <2>6 DEF PhaseInv, AskedOne, Busy, Adding
  <2>9. \A x : Remaining(x) <=> x \in ToSet(transit)
    BY <2>2, <2>4, <2>5 DEF Remaining, Busy, Adding
  <2>10. \A x : Remaining(x)' <=> x \in ToSet(transit)
    BY <2>1, <2>2, <2>4, <2>5, <2>7 DEF Remaining, Busy, Adding
  <2>11. Closed'
    BY <2>1, <2>4, <2>9, <2>10, ClosedFrom
  <2>12. WalkInv'
    <3>1. ToWalk' => ToWalk
      BY <2>2 DEF ToWalk, Others
    <3>2. \A u \in Thread : thread'[u].pc = "write" => thread'[u] = thread[u]
      BY <2>2 DEF Others
    <3> QED
      BY <2>1, <2>9, <2>10, <3>1, <3>2, WalkFrom
  <2> QED
    BY <2>4, <2>8, <2>11, <2>12
<1>8. ASSUME NEW t \in Thread, Assign(t)
      PROVE  OneBusy' /\ PhaseInv' /\ Closed' /\ WalkInv'
  <2>1. up /\ ~disturbed /\ UNCHANGED <<stored, asked>> /\ transit' = thread[t].list
    BY <1>8 DEF Assign, At
  <2>2. Others(t) /\ thread[t].pc = "assign" /\ thread'[t].pc = "idle"
    BY <1>8, Moves
  <2>3. Busy(t) /\ ~Busy(t)'
    BY <2>2 DEF Busy
  <2>4. /\ \A u \in Thread \ {t} : ~Busy(u) /\ ~Busy(u)' /\ thread'[u] = thread[u]
        /\ OneBusy' /\ Fetching
    BY <2>1, <2>2, <2>3, OnlyBusy
  <2>5. AskedOne
    BY <2>1, <2>2 DEF PhaseInv
  <2>6. PhaseInv'
    BY <2>1, <2>2, <2>3, <2>4, <2>5 DEF PhaseInv, AskedOne, Busy, Adding
  <2>7. \A x : Remaining(x) <=> x \in BagToSet(asked) \/ x \in ToSet(thread[t].list)
    BY <2>2, <2>4 DEF Remaining, Busy, Adding
  <2>8. \A x : Remaining(x)' <=> x \in BagToSet(asked) \/ x \in ToSet(thread[t].list)
    BY <2>1, <2>2, <2>4 DEF Remaining, Busy, Adding
  <2>9. Closed'
    BY <2>1, <2>4, <2>7, <2>8, ClosedFrom
  <2>10. WalkInv'
    <3>1. ToWalk' => ToWalk
      BY <2>2 DEF ToWalk, Others
    <3>2. \A u \in Thread : thread'[u].pc = "write" => thread'[u] = thread[u]
      BY <2>2 DEF Others
    <3> QED
      BY <2>1, <2>7, <2>8, <3>1, <3>2, WalkFrom
  <2> QED
    BY <2>4, <2>6, <2>9, <2>10
<1>9. ASSUME NEW t \in Thread, Commit(t)
      PROVE  OneBusy' /\ PhaseInv' /\ Closed' /\ WalkInv'
  <2> DEFINE b == thread[t].block
  <2>1. up /\ ~disturbed /\ UNCHANGED <<asked, transit>> /\ stored' = stored \cup {b}
    BY <1>9 DEF Commit, At
  <2>2. Others(t) /\ thread[t].pc = "adding" /\ thread'[t].pc = "added" /\ b \in Block
    BY <1>9, Moves DEF TypeOK
  <2>3. Busy(t) /\ Busy(t)'
    BY <2>2 DEF Busy
  <2>4. /\ \A u \in Thread \ {t} : ~Busy(u) /\ ~Busy(u)' /\ thread'[u] = thread[u]
        /\ OneBusy' /\ Fetching
    BY <2>1, <2>2, <2>3, OnlyBusy
  <2>5. asked = EmptyBag /\ BagToSet(asked) = {}
    BY <2>1, <2>2, BagEmpty DEF PhaseInv
  <2>6. PhaseInv'
    BY <2>1, <2>2, <2>3, <2>4, <2>5 DEF PhaseInv, Busy, Adding
  <2>7. \A x : Remaining(x) <=> x = b \/ x \in ToSet(transit)
    BY <2>2, <2>4, <2>5 DEF Remaining, Busy, Adding
  <2>8. \A x : Remaining(x)' <=> x \in ToSet(transit)
    BY <2>1, <2>2, <2>4, <2>5 DEF Remaining, Busy, Adding
  <2>9. Closed'
    BY <2>1, <2>4, <2>7, <2>8, ClosedFrom
  <2>10. WalkInv'
    <3>1. ToWalk' => ToWalk
      BY <2>2 DEF ToWalk, Others
    <3>2. \A u \in Thread : thread'[u].pc = "write" => thread'[u] = thread[u]
      BY <2>2 DEF Others
    <3>3. ToWalk => Gapless(stored') /\ \A x \in Block : Remaining(x)' => Parents(x) \subseteq stored'
      BY <2>1, <2>2, <2>7, <2>8 DEF WalkInv, Gapless
    <3>4. \A u \in Thread : thread'[u].pc = "write" => 0 .. thread'[u].tip \subseteq stored'
      BY <2>1, <3>2 DEF WalkInv, Whole
    <3> QED
      BY <3>1, <3>3, <3>4 DEF WalkInv, Whole
  <2> QED
    BY <2>4, <2>6, <2>9, <2>10
<1>10. ASSUME NEW t \in Thread, Check(t)
       PROVE  OneBusy' /\ PhaseInv' /\ Closed' /\ WalkInv'
  <2>1. up /\ ~disturbed /\ UNCHANGED <<stored, asked, transit>>
    BY <1>10 DEF Check, At
  <2>2. /\ Others(t) /\ thread[t].pc = "added"
        /\ transit # << >> => thread'[t].pc = "request"
        /\ transit = << >> => thread'[t].pc = "view"
    BY <1>10, Moves
  <2>3. Busy(t)
    BY <2>2 DEF Busy
  <2>4. /\ \A u \in Thread \ {t} : ~Busy(u) /\ ~Busy(u)' /\ thread'[u] = thread[u]
        /\ OneBusy' /\ Fetching
    BY <2>1, <2>2, <2>3, OnlyBusy
  <2>5. asked = EmptyBag /\ BagToSet(asked) = {}
    BY <2>1, <2>2, BagEmpty DEF PhaseInv
  <2>6. PhaseInv'
    BY <2>1, <2>2, <2>3, <2>4, <2>5 DEF PhaseInv, Busy, Adding
  <2>7. \A x : Remaining(x) <=> x \in ToSet(transit)
    BY <2>2, <2>4, <2>5 DEF Remaining, Busy, Adding
  <2>8. \A x : Remaining(x)' <=> x \in ToSet(transit)
    BY <2>1, <2>2, <2>4, <2>5 DEF Remaining, Busy, Adding
  <2>9. Closed'
    BY <2>1, <2>4, <2>7, <2>8, ClosedFrom
  <2>10. \A u \in Thread : thread'[u].pc = "write" => thread'[u] = thread[u]
    BY <2>2 DEF Others
  <2>11. CASE transit # << >>
    <3>1. ToWalk' => ToWalk
      BY <2>2, <2>11 DEF ToWalk, Others
    <3>2. WalkInv'
      BY <2>1, <2>7, <2>8, <2>10, <3>1, WalkFrom
    <3> QED
      BY <2>4, <2>6, <2>9, <3>2
  <2>12. CASE transit = << >>
    <3>1. \A x : ~Remaining(x) /\ ~Remaining(x)'
      BY <2>7, <2>8, <2>12 DEF ToSet
    <3>2. Gapless(stored)
      <4>1. \A x \in stored : \A h \in Parents(x) : h \in stored
        BY <2>1, <2>4, <3>1 DEF Closed, TypeOK
      <4> QED
        BY <4>1 DEF Gapless
    <3>3. WalkInv'
      BY <2>1, <2>10, <3>1, <3>2 DEF WalkInv, Gapless, Whole
    <3> QED
      BY <2>4, <2>6, <2>9, <3>3
  <2> QED
    BY <2>11, <2>12
<1>11. ASSUME NEW t \in Thread, Request(t)
       PROVE  OneBusy' /\ PhaseInv' /\ Closed' /\ WalkInv'
  <2>1. up /\ ~disturbed /\ UNCHANGED <<stored, transit>> /\ transit # << >>
    BY <1>11 DEF Request, At
  <2>2. Others(t) /\ thread[t].pc = "request" /\ thread'[t].pc = "slice"
    BY <1>11, Moves
  <2>3. Busy(t)
    BY <2>2 DEF Busy
  <2>4. /\ \A u \in Thread \ {t} : ~Busy(u) /\ ~Busy(u)' /\ thread'[u] = thread[u]
        /\ OneBusy' /\ Fetching
    BY <2>1, <2>2, <2>3, OnlyBusy
  <2>5. asked = EmptyBag /\ BagToSet(asked) = {}
    BY <2>1, <2>2, BagEmpty DEF PhaseInv
  <2>6. asked' = SetToBag({Head(transit)}) /\ BagToSet(asked') = {Head(transit)}
    BY <1>11, <2>5, BagSingleton DEF Request, Asks
  <2>7. Head(transit) \in ToSet(transit)
    BY <2>1, HeadTailElements DEF TypeOK
  <2>8. PhaseInv'
    BY <2>1, <2>2, <2>4, <2>6 DEF PhaseInv, Busy, Adding
  <2>9. \A x : Remaining(x) <=> x \in ToSet(transit)
    BY <2>2, <2>4, <2>5 DEF Remaining, Busy, Adding
  <2>10. \A x : Remaining(x)' <=> x \in ToSet(transit)
    BY <2>1, <2>2, <2>4, <2>6, <2>7 DEF Remaining, Busy, Adding
  <2>11. Closed'
    BY <2>1, <2>4, <2>9, <2>10, ClosedFrom
  <2>12. WalkInv'
    <3>1. ToWalk' => ToWalk
      BY <2>2 DEF ToWalk, Others
    <3>2. \A u \in Thread : thread'[u].pc = "write" => thread'[u] = thread[u]
      BY <2>2 DEF Others
    <3> QED
      BY <2>1, <2>9, <2>10, <3>1, <3>2, WalkFrom
  <2> QED
    BY <2>4, <2>8, <2>11, <2>12
<1>12. ASSUME NEW t \in Thread, Slice(t)
       PROVE  OneBusy' /\ PhaseInv' /\ Closed' /\ WalkInv'
  <2>1. up /\ ~disturbed /\ UNCHANGED <<stored, transit, asked>> /\ transit # << >>
    BY <1>12 DEF Slice, At
  <2>2. /\ Others(t) /\ thread[t].pc = "slice" /\ thread'[t].pc = "assign"
        /\ thread'[t].list = Tail(transit)
    BY <1>12, Moves
  <2>3. Busy(t)
    BY <2>2 DEF Busy
  <2>4. /\ \A u \in Thread \ {t} : ~Busy(u) /\ ~Busy(u)' /\ thread'[u] = thread[u]
        /\ OneBusy' /\ Fetching
    BY <2>1, <2>2, <2>3, OnlyBusy
  <2>5. asked = SetToBag({Head(transit)}) /\ BagToSet(asked) = {Head(transit)}
    BY <2>1, <2>2, BagSingleton DEF PhaseInv
  <2>6. Head(transit) \in Block /\ ToSet(transit) = {Head(transit)} \cup ToSet(Tail(transit))
    BY <2>1, HeadTailElements DEF TypeOK
  <2>7. PhaseInv'
    BY <2>1, <2>2, <2>4, <2>5, <2>6 DEF PhaseInv, AskedOne, Busy, Adding
  <2>8. \A x : Remaining(x) <=> x \in ToSet(transit)
    BY <2>2, <2>4, <2>5, <2>6 DEF Remaining, Busy, Adding
  <2>9. \A x : Remaining(x)' <=> x \in ToSet(transit)
    BY <2>1, <2>2, <2>4, <2>5, <2>6 DEF Remaining, Busy, Adding
  <2>10. Closed'
    BY <2>1, <2>4, <2>8, <2>9, ClosedFrom
  <2>11. WalkInv'
    <3>1. ToWalk' => ToWalk
      BY <2>2 DEF ToWalk, Others
    <3>2. \A u \in Thread : thread'[u].pc = "write" => thread'[u] = thread[u]
      BY <2>2 DEF Others
    <3> QED
      BY <2>1, <2>8, <2>9, <3>1, <3>2, WalkFrom
  <2> QED
    BY <2>4, <2>7, <2>10, <2>11
<1>13. ASSUME NEW t \in Thread, View(t) \/ Delete(t) \/ Write(t)
       PROVE  OneBusy' /\ PhaseInv' /\ Closed' /\ WalkInv'
  <2>1. up /\ ~disturbed /\ UNCHANGED <<stored, transit, asked>>
    <3> DEFINE Stays == up /\ ~disturbed /\ UNCHANGED <<stored, transit, asked>>
    <3>1. View(t) => Stays
      BY DEF View, At
    <3>2. Delete(t) => Stays
      BY DEF Delete, At
    <3>3. Write(t) => Stays
      BY DEF Write, At
    <3> QED
      BY <1>13, <3>1, <3>2, <3>3
  <2>2. /\ Others(t) /\ thread[t].pc \in {"view", "delete", "write"}
        /\ thread'[t].pc \in {"delete", "tip", "idle"}
        /\ thread[t].pc = "write" => thread'[t].pc = "idle"
    BY <1>13, Moves
  <2>3. /\ OneBusy' /\ PhaseInv' /\ Closed'
        /\ \A b \in Block : Remaining(b)' => Remaining(b)
    BY <2>1, <2>2, ReindexFrame
  <2>4. ToWalk' => ToWalk
    BY <2>2 DEF ToWalk, Others
  <2>5. \A u \in Thread : thread'[u].pc = "write" => thread'[u] = thread[u]
    BY <2>2 DEF Others
  <2> QED
    BY <2>1, <2>3, <2>4, <2>5, WalkFrom
<1>14. ASSUME NEW t \in Thread, ReadTip(t)
       PROVE  OneBusy' /\ PhaseInv' /\ Closed' /\ WalkInv'
  <2>1. up /\ UNCHANGED <<stored, transit, asked>>
    BY <1>14 DEF ReadTip, At
  <2>2. ~disturbed /\ lastHash \in stored
    BY <1>14, Zenon DEF ReadTip
  <2>3. /\ Others(t) /\ thread[t].pc = "tip" /\ thread'[t].pc = "write"
        /\ thread'[t].tip = lastHash
    BY <1>14, Moves
  <2>4. /\ OneBusy' /\ PhaseInv' /\ Closed'
        /\ \A b \in Block : Remaining(b)' => Remaining(b)
    BY <2>1, <2>2, <2>3, ReindexFrame
  <2>5. ToWalk
    BY <2>3 DEF ToWalk
  <2>6. Gapless(stored) /\ \A b \in Block : Remaining(b) => Parents(b) \subseteq stored
    BY <2>1, <2>2, <2>5 DEF WalkInv
  <2>7. Whole(lastHash)
    <3>1. Parents(lastHash) \subseteq stored
      BY <2>2, <2>6 DEF Gapless
    <3>2. ASSUME NEW h \in 0 .. lastHash PROVE h \in stored
      <4>1. lastHash \in 0 .. MaxHeight /\ MaxHeight \in Nat
        BY ChainAssumption DEF TypeOK, Block
      <4>2. h = lastHash \/ h \in Parents(lastHash)
        BY <4>1 DEF Parents, Block
      <4> QED
        BY <2>2, <3>1, <4>2
    <3> QED
      BY <3>2 DEF Whole
  <2>8. ASSUME NEW u \in Thread, thread'[u].pc = "write"
        PROVE  0 .. thread'[u].tip \subseteq stored'
    <3>1. CASE u = t
      BY <2>1, <2>3, <2>7, <3>1 DEF Whole
    <3>2. CASE u # t
      BY <2>1, <2>2, <2>3, <2>8, <3>2 DEF WalkInv, Whole, Others
    <3> QED
      BY <3>1, <3>2
  <2>9. WalkInv'
    BY <2>1, <2>4, <2>6, <2>8 DEF WalkInv, Gapless, Whole
  <2> QED
    BY <2>4, <2>9
<1> QED
  BY <1>1, <1>2, <1>3, <1>4, <1>5, <1>6, <1>7, <1>8, <1>9, <1>10, <1>11, <1>12, <1>13, <1>14,
     Ends DEF Next, Receive, Step

LEMMA ListInit == Init => ListInv
  BY DEF Init, ListInv

LEMMA ListTells == Down /\ ListInv => NoPanic
<1> SUFFICES ASSUME Down, ListInv, up, ~disturbed, NEW t \in Thread
             PROVE  ~NoneLeft(t) /\ ~Hole(t) /\ ~Conflict(t) /\ ~Torn(t)
  BY DEF NoPanic, NoneLeft, Hole, Conflict, Torn, At
<1>1. ~NoneLeft(t)
  BY DEF NoneLeft, At, ListInv, PhaseInv
<1>2. ~Hole(t)
  BY DEF Hole, At, ListInv, WalkInv
<1>3. ~Conflict(t)
  BY DEF Conflict, At, ListInv, PhaseInv, Adding
<1>4. ~Torn(t)
  BY DEF Torn, At, ListInv, OneBusy, Busy
<1> QED
  BY <1>1, <1>2, <1>3, <1>4

(* While each message comes after the one before it was handled, no         *)
(* goroutine finds the list empty that it found filled, walks into a block  *)
(* that is not there, commits what conflicts, or reads the list while it is *)
(* assigned: however many of them rebuild the index at the same time.       *)
THEOREM NoPanicAlways == Spec => []NoPanic
<1>1. Inv /\ ListInv /\ [Next]_vars => (Inv /\ ListInv)'
  BY InvStep, ListStep DEF Inv
<1>2. Inv /\ ListInv => NoPanic
  BY ListTells DEF Inv
<1> QED
  BY <1>1, <1>2, InvInit, ListInit, PTL DEF Spec

=============================================================================
