-------------------------- MODULE ChainStoreProofs --------------------------
(***************************************************************************)
(* Proofs about ChainStore, for every tree of blocks, every number of      *)
(* goroutines and every set of them that mines.                            *)
(***************************************************************************)
EXTENDS ChainStore, TLAPS

(* What a goroutine holds at each place of AddBlock and MineBlock. *)
LocalsOK ==
    \A t \in Thread :
        /\ pc[t] # "idle" => up
        /\ pc[t] = "add" => blk[t] \in Remote /\ seen[t] \in Hash
        /\ pc[t] = "mine" => seen[t] \in stored
        /\ pc[t] = "write" => /\ blk[t] \in Hash \ Remote
                              /\ Prev[blk[t]] \in stored

(* The database is sound: the tip is stored, and so is the parent of every *)
(* block mined here.                                                       *)
DatabaseOK == lh \in stored /\ MinedOnStored

(* badger's isolation, as AddBlock uses it: while a transaction can still  *)
(* commit, what it read is what the database holds.                        *)
SnapshotOK ==
    \A t \in Thread :
        pc[t] = "add" /\ ~stale[t] => seen[t] = lh /\ blk[t] \notin stored

SoundInv == TypeOK /\ LocalsOK /\ DatabaseOK

-----------------------------------------------------------------------------
(* The types, the locals and the database are kept together: a commit      *)
(* writes what the goroutine holds, and the goroutine holds what it read   *)
(* from the database.                                                      *)
LEMMA SoundInit == Init => SoundInv
  BY BlockTree DEF Init, SoundInv, TypeOK, LocalsOK, DatabaseOK, MinedOnStored

(* The end of the process keeps the database. *)
LEMMA SoundDie == SoundInv /\ Die => SoundInv'
<1> SUFFICES ASSUME SoundInv, Die PROVE SoundInv'
  OBVIOUS
<1>1. stale' \in [Thread -> BOOLEAN]
  BY Zenon DEF Die
<1>2. stored' = stored /\ lh' = lh
  BY DEF Die, db
<1> QED
  BY <1>1, <1>2 DEF SoundInv, TypeOK, LocalsOK, DatabaseOK, MinedOnStored, Die

LEMMA SoundCommit ==
  ASSUME SoundInv, NEW t \in Thread, NEW b \in Hash, NEW m \in BOOLEAN,
         CommitBlock(t, b, m), Return(t), UNCHANGED <<lastHash, up>>,
         b \in Remote \/ Prev[b] \in stored
  PROVE  SoundInv'
<1> USE DEF SoundInv
<1>1. TypeOK'
  <2>1. stale' \in [Thread -> BOOLEAN]
    BY Zenon DEF CommitBlock
  <2> QED
    BY <2>1, BlockTree DEF TypeOK, CommitBlock, Return
<1>2. LocalsOK'
  BY BlockTree DEF TypeOK, LocalsOK, CommitBlock, Return
<1>3. DatabaseOK'
  BY BlockTree DEF TypeOK, DatabaseOK, MinedOnStored, CommitBlock
<1> QED
  BY <1>1, <1>2, <1>3

LEMMA SoundStep == SoundInv /\ [Next]_vars => SoundInv'
<1> SUFFICES ASSUME SoundInv, [Next]_vars PROVE SoundInv'
  OBVIOUS
<1> USE BlockTree, MinerAssumption
        DEF SoundInv, TypeOK, LocalsOK, DatabaseOK, MinedOnStored
<1>1. CASE Start
  BY <1>1 DEF Start
<1>2. CASE Crash \/ WalkMissing
  BY <1>2, SoundDie DEF Crash, WalkMissing
<1>3. ASSUME NEW t \in Thread, NEW h \in Remote, AddBlockBody(t, h)
      PROVE  SoundInv'
  BY <1>3 DEF AddBlockBody, Idle
<1>4. ASSUME NEW t \in Thread, AddBlockCommit(t)
      PROVE  SoundInv'
  <2>1. blk[t] \in Hash /\ blk[t] \in Remote
    BY <1>4 DEF AddBlockCommit
  <2>2. Higher(blk[t], seen[t]) \in BOOLEAN
    BY DEF Higher
  <2> HIDE DEF SoundInv
  <2> QED
    BY <1>4, <2>1, <2>2, SoundCommit DEF AddBlockCommit
<1>5. ASSUME NEW t \in Thread, AddBlockConflict(t)
      PROVE  SoundInv'
  BY <1>5, SoundDie DEF AddBlockConflict
<1>6. ASSUME NEW t \in Miner, MineVerify(t)
      PROVE  SoundInv'
  BY <1>6 DEF MineVerify, Idle
<1>7. ASSUME NEW t \in Miner, MineReadTip(t)
      PROVE  SoundInv'
  BY <1>7 DEF MineReadTip
<1>8. ASSUME NEW t \in Miner, NEW h \in Hash \ Remote, MineSeal(t, h)
      PROVE  SoundInv'
  BY <1>8 DEF MineSeal
<1>9. ASSUME NEW t \in Miner, MineCommit(t)
      PROVE  SoundInv'
  <2>1. /\ blk[t] \in Hash
        /\ Prev[blk[t]] \in stored
        /\ t \in Thread
    BY <1>9 DEF MineCommit
  <2> HIDE DEF SoundInv
  <2> QED
    BY <1>9, <2>1, SoundCommit DEF MineCommit
<1>10. CASE UNCHANGED vars
  BY <1>10 DEF vars
<1> QED
  BY <1>1, <1>2, <1>3, <1>4, <1>5, <1>6, <1>7, <1>8, <1>9, <1>10 DEF Next

LEMMA SoundAlways == Spec => []SoundInv
  BY SoundInit, SoundStep, PTL DEF Spec

(* The types of the state are kept by every step of every goroutine. *)
THEOREM TypeCorrect == Spec => []TypeOK
  BY SoundAlways, PTL DEF SoundInv

(* MineBlock extends a block of the database: no interleaving and no crash *)
(* leaves a block mined here without its parent.                           *)
THEOREM MinedOnStoredAlways == Spec => []MinedOnStored
<1>1. SoundInv => MinedOnStored
  BY DEF SoundInv, DatabaseOK
<1> QED
  BY <1>1, SoundAlways, PTL

(* The goroutine that has pointed LastHash at a block that is not stored   *)
(* yet is still in the transaction that stores it, or the process ends.    *)
LEMMA TipStep == SoundInv /\ TipReadable /\ [Next]_vars => TipReadable'
<1> SUFFICES ASSUME SoundInv, TipReadable, [Next]_vars PROVE TipReadable'
  OBVIOUS
<1> USE BlockTree, MinerAssumption DEF TipReadable
<1>0. TypeOK /\ LocalsOK /\ lh \in stored
  BY DEF SoundInv, DatabaseOK
<1>1. CASE Start
  BY <1>0, <1>1 DEF Start
<1>2. CASE Crash \/ WalkMissing \/ \E t \in Thread : AddBlockConflict(t)
  <2>1. Die
    BY <1>2 DEF Crash, WalkMissing, AddBlockConflict
  <2> QED
    BY <2>1 DEF Die, db
<1>3. ASSUME NEW t \in Thread, NEW h \in Remote, AddBlockBody(t, h)
      PROVE  TipReadable'
  BY <1>0, <1>3 DEF AddBlockBody, Idle, TypeOK
<1>4. ASSUME NEW t \in Thread, AddBlockCommit(t) \/ MineCommit(t)
      PROVE  TipReadable'
  <2>1. /\ stored' = stored \cup {blk[t]} /\ lh' \in {lh, blk[t]}
        /\ lastHash' = lastHash /\ up' = up
        /\ \A u \in Thread \ {t} : pc'[u] = pc[u] /\ blk'[u] = blk[u]
    BY <1>0, <1>4 DEF AddBlockCommit, MineCommit, CommitBlock, Return, TypeOK
  <2> QED
    BY <2>1
<1>5. ASSUME NEW t \in Miner, MineVerify(t) \/ MineReadTip(t)
      PROVE  TipReadable'
  BY <1>0, <1>5 DEF MineVerify, MineReadTip, Idle, TypeOK
<1>6. ASSUME NEW t \in Miner, NEW h \in Hash \ Remote, MineSeal(t, h)
      PROVE  TipReadable'
  BY <1>0, <1>6 DEF MineSeal, TypeOK
<1>7. CASE UNCHANGED vars
  BY <1>7 DEF vars
<1> QED
  BY <1>1, <1>2, <1>3, <1>4, <1>5, <1>6, <1>7 DEF Next

(* Whoever opens the database or starts a walk at LastHash finds that      *)
(* block, or a goroutine is inside the transaction that writes it.         *)
THEOREM TipReadableAlways == Spec => []TipReadable
<1>1. Init => TipReadable
  BY DEF Init, TipReadable
<1> QED
  BY <1>1, TipStep, SoundAlways, PTL DEF Spec

-----------------------------------------------------------------------------
(* A commit of another transaction either touches nothing that an open     *)
(* AddBlock has read, or makes it stale.                                   *)
LEMMA SnapshotCommit ==
  ASSUME SoundInv, SnapshotOK, NEW t \in Thread, NEW b \in Hash,
         NEW m \in BOOLEAN, CommitBlock(t, b, m), Return(t)
  PROVE  SnapshotOK'
<1> SUFFICES ASSUME NEW u \in Thread, pc'[u] = "add", ~stale'[u]
             PROVE  seen'[u] = lh' /\ blk'[u] \notin stored'
  BY DEF SnapshotOK
<1>1. u # t /\ pc[u] = "add" /\ seen'[u] = seen[u] /\ blk'[u] = blk[u]
  BY DEF Return, SoundInv, TypeOK
<1>2. ~stale[u] /\ ~Reads(u, b, m)
  BY <1>1, Zenon DEF CommitBlock
<1>3. b # blk[u] /\ ~m
  BY <1>1, <1>2 DEF Reads
<1>4. lh' = lh /\ stored' = stored \cup {b}
  BY <1>3 DEF CommitBlock
<1> QED
  BY <1>1, <1>2, <1>3, <1>4 DEF SnapshotOK

LEMMA SnapshotStep == SoundInv /\ SnapshotOK /\ [Next]_vars => SnapshotOK'
<1> SUFFICES ASSUME SoundInv, SnapshotOK, [Next]_vars PROVE SnapshotOK'
  OBVIOUS
<1> USE BlockTree, MinerAssumption DEF SnapshotOK
<1>0. TypeOK /\ LocalsOK
  BY DEF SoundInv
<1>1. CASE Start
  BY <1>1 DEF Start
<1>2. CASE Crash \/ WalkMissing
  BY <1>2 DEF Crash, WalkMissing, Die
<1>3. ASSUME NEW t \in Thread, NEW h \in Remote, AddBlockBody(t, h)
      PROVE  SnapshotOK'
  BY <1>0, <1>3 DEF AddBlockBody, Idle, TypeOK
<1>4. ASSUME NEW t \in Thread, AddBlockCommit(t)
      PROVE  SnapshotOK'
  <2>1. blk[t] \in Hash
    BY <1>0, <1>4 DEF AddBlockCommit, LocalsOK
  <2>2. Higher(blk[t], seen[t]) \in BOOLEAN
    BY DEF Higher
  <2> HIDE DEF SnapshotOK
  <2> QED
    BY <1>4, <2>1, <2>2, SnapshotCommit DEF AddBlockCommit
<1>5. ASSUME NEW t \in Thread, AddBlockConflict(t)
      PROVE  SnapshotOK'
  BY <1>5 DEF AddBlockConflict, Die
<1>6. ASSUME NEW t \in Miner, MineVerify(t)
      PROVE  SnapshotOK'
  BY <1>0, <1>6 DEF MineVerify, TypeOK
<1>7. ASSUME NEW t \in Miner, MineReadTip(t)
      PROVE  SnapshotOK'
  BY <1>0, <1>7 DEF MineReadTip, TypeOK
<1>8. ASSUME NEW t \in Miner, NEW h \in Hash \ Remote, MineSeal(t, h)
      PROVE  SnapshotOK'
  BY <1>0, <1>8 DEF MineSeal, TypeOK
<1>9. ASSUME NEW t \in Miner, MineCommit(t)
      PROVE  SnapshotOK'
  <2>1. blk[t] \in Hash /\ t \in Thread
    BY <1>0, <1>9 DEF MineCommit, LocalsOK
  <2> HIDE DEF SnapshotOK
  <2> QED
    BY <1>9, <2>1, SnapshotCommit DEF MineCommit
<1>10. CASE UNCHANGED vars
  BY <1>10 DEF vars
<1> QED
  BY <1>1, <1>2, <1>3, <1>4, <1>5, <1>6, <1>7, <1>8, <1>9, <1>10 DEF Next

LEMMA SnapshotAlways == Spec => []SnapshotOK
<1>1. Init => SnapshotOK
  BY DEF Init, SnapshotOK
<1> QED
  BY <1>1, SoundAlways, SnapshotStep, PTL DEF Spec

(* AddBlock moves the tip only upwards, however many goroutines mine and   *)
(* overwrite "lh" while it runs: the tip it compared with is the tip of    *)
(* the moment it commits.                                                  *)
THEOREM AddBlockRaises == Spec => AddBlockRaisesTip
<1> DEFINE Raises == lh' # lh /\ lh' \in Remote => Higher(lh', lh)
<1>1. SoundInv /\ SnapshotOK /\ [Next]_vars => [Raises]_vars
  <2> SUFFICES ASSUME SoundInv, SnapshotOK, Next PROVE Raises
    BY DEF vars
  <2> USE BlockTree, MinerAssumption
  <2>0. TypeOK /\ LocalsOK
    BY DEF SoundInv
  <2>1. CASE Start \/ Crash \/ WalkMissing
    BY <2>1 DEF Start, Crash, WalkMissing, Die, db
  <2>2. ASSUME NEW t \in Thread, NEW h \in Remote, AddBlockBody(t, h)
        PROVE  Raises
    BY <2>2 DEF AddBlockBody
  <2>3. ASSUME NEW t \in Thread, AddBlockCommit(t)
        PROVE  Raises
    <3>1. seen[t] = lh
      BY <2>3 DEF AddBlockCommit, SnapshotOK
    <3> QED
      BY <2>3, <3>1 DEF AddBlockCommit, CommitBlock
  <2>4. ASSUME NEW t \in Thread, AddBlockConflict(t)
        PROVE  Raises
    BY <2>4 DEF AddBlockConflict, Die, db
  <2>5. ASSUME NEW t \in Miner,
               \/ MineVerify(t)
               \/ MineReadTip(t)
               \/ \E h \in Hash \ Remote : MineSeal(t, h)
        PROVE  Raises
    BY <2>5 DEF MineVerify, MineReadTip, MineSeal
  <2>6. ASSUME NEW t \in Miner, MineCommit(t)
        PROVE  Raises
    <3>1. blk[t] \notin Remote
      BY <2>0, <2>6 DEF MineCommit, LocalsOK
    <3> QED
      BY <2>6, <3>1 DEF MineCommit, CommitBlock
  <2> QED
    BY <2>1, <2>2, <2>3, <2>4, <2>5, <2>6 DEF Next
<1> QED
  BY <1>1, SoundAlways, SnapshotAlways, PTL DEF Spec, AddBlockRaisesTip

-----------------------------------------------------------------------------
(* Before a block mined here is stored.  Two goroutines in AddBlock can    *)
(* both have pointed LastHash at their own block; at most one of them      *)
(* commits, and the other takes the process down.  A goroutine about to    *)
(* commit a mined block has taken LastHash over.                           *)
Unmined == stored \subseteq Remote \cup {Genesis}

Writing == \E t \in Thread : pc[t] = "write"

Raising(t) == pc[t] = "add" /\ Higher(blk[t], seen[t])

PointsAtRaising == \E t \in Thread : Raising(t) /\ blk[t] = lastHash

Followed ==
    /\ (\E t \in Thread : Raising(t) /\ ~stale[t]) => PointsAtRaising
    /\ up /\ lastHash # lh => PointsAtRaising

PointerOK == Unmined /\ ~Writing => Followed

LEMMA FollowedStep ==
  ASSUME SoundInv, SnapshotOK, Followed, NEW t \in Thread,
         (\E h \in Remote : AddBlockBody(t, h)) \/ AddBlockCommit(t)
  PROVE  Followed'
<1> USE BlockTree DEF Followed, PointsAtRaising, Raising
<1>0. TypeOK /\ LocalsOK
  BY DEF SoundInv
<1>1. CASE \E h \in Remote : AddBlockBody(t, h)
  <2>0. PICK h \in Remote : AddBlockBody(t, h)
    BY <1>1
  <2>1. \A u \in Thread \ {t} : /\ pc'[u] = pc[u] /\ blk'[u] = blk[u]
                               /\ seen'[u] = seen[u] /\ stale'[u] = stale[u]
    BY <1>0, <2>0 DEF AddBlockBody, TypeOK
  <2>2. pc[t] = "idle" /\ pc'[t] = "add" /\ blk'[t] = h /\ seen'[t] = lh
    BY <1>0, <2>0 DEF AddBlockBody, Idle, TypeOK
  <2>3. lh' = lh /\ up' = up
    BY <2>0 DEF AddBlockBody
  <2>4. CASE Higher(h, lh)
    <3>1. lastHash' = h
      BY <2>0, <2>4 DEF AddBlockBody
    <3> QED
      BY <2>2, <2>4, <3>1 DEF Higher
  <2>5. CASE ~Higher(h, lh)
    <3>1. lastHash' = lastHash
      BY <2>0, <2>5 DEF AddBlockBody
    <3>2. ~Raising(t)'
      BY <2>2, <2>5 DEF Higher
    <3>3. \A u \in Thread : Raising(u)' <=> Raising(u)
      BY <2>1, <2>2, <3>2 DEF Higher
    <3>4. PointsAtRaising' <=> PointsAtRaising
      BY <2>1, <2>2, <3>1, <3>3
    <3> QED
      BY <2>1, <2>3, <3>1, <3>2, <3>3, <3>4
  <2> QED
    BY <2>4, <2>5
<1>2. CASE AddBlockCommit(t)
  <2>1. \A u \in Thread \ {t} : /\ pc'[u] = pc[u] /\ blk'[u] = blk[u]
                               /\ seen'[u] = seen[u]
    BY <1>0, <1>2 DEF AddBlockCommit, Return, TypeOK
  <2>2. pc[t] = "add" /\ ~stale[t] /\ pc'[t] = "idle" /\ seen[t] = lh
    BY <1>0, <1>2 DEF AddBlockCommit, Return, TypeOK, SnapshotOK
  <2>3. lastHash' = lastHash /\ up' = up
    BY <1>2 DEF AddBlockCommit
  <2>4. CASE Raising(t)
    <3>1. lh' = blk[t]
      BY <1>2, <2>4 DEF AddBlockCommit, CommitBlock
    <3>2. \A u \in Thread : pc'[u] = "add" => stale'[u]
      BY <1>2, <2>1, <2>2, <2>4 DEF AddBlockCommit, CommitBlock, Reads
    <3>3. PICK v \in Thread : Raising(v) /\ blk[v] = lastHash
      BY <2>2, <2>4
    <3>4. CASE v = t
      BY <2>3, <3>1, <3>2, <3>3, <3>4
    <3>5. CASE v # t
      BY <2>1, <2>3, <3>2, <3>3, <3>5 DEF Higher
    <3> QED
      BY <3>4, <3>5
  <2>5. CASE ~Raising(t)
    <3>1. lh' = lh
      BY <1>2, <2>2, <2>5 DEF AddBlockCommit, CommitBlock
    <3>2. \A u \in Thread : Raising(u)' <=> Raising(u)
      BY <2>1, <2>2, <2>5 DEF Higher
    <3>3. \A u \in Thread : Raising(u) /\ ~stale'[u] => ~stale[u]
      BY <1>2, Zenon DEF AddBlockCommit, CommitBlock
    <3>4. PointsAtRaising' <=> PointsAtRaising
      BY <2>1, <2>2, <2>3, <2>5, <3>2
    <3> QED
      BY <2>3, <3>1, <3>2, <3>3, <3>4
  <2> QED
    BY <2>4, <2>5
<1> QED
  BY <1>1, <1>2

LEMMA PointerStep ==
  SoundInv /\ SnapshotOK /\ PointerOK /\ [Next]_vars => PointerOK'
<1> SUFFICES ASSUME SoundInv, SnapshotOK, PointerOK, [Next]_vars,
                    Unmined', ~Writing'
             PROVE  Followed'
  BY DEF PointerOK
<1> USE BlockTree, MinerAssumption
<1>0. TypeOK /\ LocalsOK
  BY DEF SoundInv
<1>1. CASE Start
  <2>1. \A t \in Thread : pc[t] # "add"
    BY <1>0, <1>1 DEF Start, LocalsOK
  <2> QED
    BY <1>1, <2>1 DEF Start, Followed, Raising
<1>2. CASE Crash \/ WalkMissing \/ \E t \in Thread : AddBlockConflict(t)
  <2>1. Die
    BY <1>2 DEF Crash, WalkMissing, AddBlockConflict
  <2> QED
    BY <2>1 DEF Die, Followed, Raising
<1>3. ASSUME NEW t \in Thread,
             (\E h \in Remote : AddBlockBody(t, h)) \/ AddBlockCommit(t)
      PROVE  Followed'
  <2>1. stored \subseteq stored'
    BY <1>3 DEF AddBlockBody, AddBlockCommit, CommitBlock
  <2>2. \A u \in Thread : pc[u] = "write" => pc'[u] = "write"
    BY <1>0, <1>3 DEF AddBlockBody, Idle, AddBlockCommit, Return, TypeOK
  <2>3. Followed
    BY <2>1, <2>2 DEF PointerOK, Unmined, Writing
  <2> QED
    BY <1>3, <2>3, FollowedStep
<1>4. ASSUME NEW t \in Miner, MineVerify(t) \/ MineReadTip(t)
      PROVE  Followed'
  <2>1. /\ stored' = stored /\ lh' = lh /\ lastHash' = lastHash /\ up' = up
        /\ blk' = blk /\ stale' = stale
    BY <1>4 DEF MineVerify, MineReadTip
  <2>2. \A u \in Thread : /\ pc[u] = "write" <=> pc'[u] = "write"
                          /\ pc[u] = "add" <=> pc'[u] = "add"
                          /\ pc[u] = "add" => seen'[u] = seen[u]
    BY <1>0, <1>4 DEF MineVerify, MineReadTip, Idle, TypeOK
  <2>3. Followed
    BY <2>1, <2>2 DEF PointerOK, Unmined, Writing
  <2>4. \A u \in Thread : Raising(u)' <=> Raising(u)
    BY <2>1, <2>2 DEF Raising, Higher
  <2> QED
    BY <2>1, <2>3, <2>4 DEF Followed, PointsAtRaising
<1>5. ASSUME NEW t \in Miner, NEW h \in Hash \ Remote, MineSeal(t, h)
      PROVE  FALSE
  BY <1>0, <1>5 DEF MineSeal, Writing, TypeOK
<1>6. ASSUME NEW t \in Miner, MineCommit(t)
      PROVE  FALSE
  <2>1. blk[t] \in Hash \ Remote /\ Prev[blk[t]] \in Hash
    BY <1>0, <1>6 DEF MineCommit, LocalsOK, TypeOK
  <2>2. blk[t] # Genesis
    BY <2>1
  <2> QED
    BY <1>6, <2>1, <2>2 DEF MineCommit, CommitBlock, Unmined
<1>7. CASE UNCHANGED vars
  <2>1. Followed
    BY <1>7 DEF vars, PointerOK, Unmined, Writing
  <2> QED
    BY <1>7, <2>1 DEF vars, Followed, PointsAtRaising, Raising, Higher
<1> QED
  BY <1>1, <1>2, <1>3, <1>4, <1>5, <1>6, <1>7 DEF Next

(* Until a block mined here is stored, LastHash and "lh" name the same     *)
(* block whenever no goroutine is inside AddBlock or MineBlock, however    *)
(* many are and whatever becomes of them.                                  *)
THEOREM PointersAgreeAlways == Spec => []PointersAgree
<1>1. Init => PointerOK
  BY DEF Init, PointerOK, Followed, PointsAtRaising, Raising
<1>2. PointerOK => PointersAgree
  BY DEF PointerOK, Unmined, Writing, Followed, PointsAtRaising, Raising, PointersAgree
<1> QED
  BY <1>1, <1>2, PointerStep, SoundAlways, SnapshotAlways, PTL DEF Spec

-----------------------------------------------------------------------------
(* A block that was just mined is nobody else's, and not stored before its *)
(* own commit.                                                             *)
FreshOK ==
    \A t \in Thread : pc[t] = "write" =>
        /\ blk[t] \notin stored
        /\ \A u \in Thread \ {t} : blk[u] # blk[t]

LEMMA FreshStep == SoundInv /\ FreshOK /\ [Next]_vars => FreshOK'
<1> SUFFICES ASSUME SoundInv, FreshOK, [Next]_vars PROVE FreshOK'
  OBVIOUS
<1> USE BlockTree, MinerAssumption DEF FreshOK
<1>0. TypeOK /\ LocalsOK
  BY DEF SoundInv
<1>1. CASE Start
  BY <1>1 DEF Start
<1>2. CASE Crash \/ WalkMissing
  BY <1>2 DEF Crash, WalkMissing, Die
<1>3. ASSUME NEW t \in Thread, NEW h \in Remote, AddBlockBody(t, h)
      PROVE  FreshOK'
  BY <1>0, <1>3 DEF AddBlockBody, Idle, TypeOK, LocalsOK
<1>4. ASSUME NEW t \in Thread, AddBlockCommit(t)
      PROVE  FreshOK'
  BY <1>0, <1>4 DEF AddBlockCommit, CommitBlock, Return, TypeOK, LocalsOK
<1>5. ASSUME NEW t \in Thread, AddBlockConflict(t)
      PROVE  FreshOK'
  BY <1>5 DEF AddBlockConflict, Die
<1>6. ASSUME NEW t \in Miner, MineVerify(t) \/ MineReadTip(t)
      PROVE  FreshOK'
  BY <1>0, <1>6 DEF MineVerify, MineReadTip, TypeOK
<1>7. ASSUME NEW t \in Miner, NEW h \in Hash \ Remote, MineSeal(t, h)
      PROVE  FreshOK'
  BY <1>0, <1>7 DEF MineSeal, TypeOK
<1>8. ASSUME NEW t \in Miner, MineCommit(t)
      PROVE  FreshOK'
  BY <1>0, <1>8 DEF MineCommit, CommitBlock, Return, TypeOK, LocalsOK
<1>9. CASE UNCHANGED vars
  BY <1>9 DEF vars
<1> QED
  BY <1>1, <1>2, <1>3, <1>4, <1>5, <1>6, <1>7, <1>8, <1>9 DEF Next

LEMMA FreshAlways == Spec => []FreshOK
<1>1. Init => FreshOK
  BY DEF Init, FreshOK
<1> QED
  BY <1>1, FreshStep, SoundAlways, PTL DEF Spec

(* The database implements LongestChain: a commit of AddBlock learns a     *)
(* block of others, a commit of MineBlock mines a block of this node, and  *)
(* no other step is seen.                                                  *)
THEOREM Implements == Spec => PromiseKept
<1>1. Init => Promise!Init
  BY DEF Init, Promise!Init
<1>2. SoundInv /\ SnapshotOK /\ FreshOK /\ [Next]_vars
      => [Promise!Next]_(Promise!vars)
  <2> SUFFICES ASSUME SoundInv, SnapshotOK, FreshOK, [Next]_vars
               PROVE  Promise!Next \/ (stored' = stored /\ lh' = lh)
    BY DEF Promise!vars
  <2> USE BlockTree, MinerAssumption
  <2>0. TypeOK /\ LocalsOK
    BY DEF SoundInv
  <2>1. CASE Start \/ Crash \/ WalkMissing \/ UNCHANGED vars
    BY <2>1 DEF Start, Crash, WalkMissing, Die, db, vars
  <2>2. ASSUME NEW t \in Thread, NEW h \in Remote, AddBlockBody(t, h)
        PROVE  stored' = stored /\ lh' = lh
    BY <2>2 DEF AddBlockBody
  <2>3. ASSUME NEW t \in Thread, AddBlockCommit(t)
        PROVE  Promise!Next
    <3>1. /\ seen[t] = lh
          /\ blk[t] \in Remote \ stored
      BY <2>0, <2>3 DEF AddBlockCommit, SnapshotOK, LocalsOK
    <3>2. Promise!Learn(blk[t])
      BY <2>3, <3>1 DEF AddBlockCommit, CommitBlock, Higher, Promise!Learn
    <3> QED
      BY <3>1, <3>2 DEF Promise!Next
  <2>4. ASSUME NEW t \in Thread, AddBlockConflict(t)
        PROVE  stored' = stored /\ lh' = lh
    BY <2>4 DEF AddBlockConflict, Die, db
  <2>5. ASSUME NEW t \in Miner,
               \/ MineVerify(t)
               \/ MineReadTip(t)
               \/ \E h \in Hash \ Remote : MineSeal(t, h)
        PROVE  stored' = stored /\ lh' = lh
    BY <2>5 DEF MineVerify, MineReadTip, MineSeal
  <2>6. ASSUME NEW t \in Miner, MineCommit(t)
        PROVE  Promise!Next
    <3>1. /\ blk[t] \in (Hash \ Remote) \ stored
          /\ Prev[blk[t]] \in stored
      BY <2>0, <2>6 DEF MineCommit, LocalsOK, FreshOK
    <3>2. Promise!Mine(blk[t])
      BY <2>6, <3>1 DEF MineCommit, CommitBlock, Promise!Mine
    <3> QED
      BY <3>1, <3>2 DEF Promise!Next
  <2> QED
    BY <2>1, <2>2, <2>3, <2>4, <2>5, <2>6 DEF Next
<1> QED
  BY <1>1, <1>2, SoundAlways, SnapshotAlways, FreshAlways, PTL
     DEF Spec, PromiseKept, Promise!Spec

=============================================================================
