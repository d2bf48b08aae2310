---------------------------- MODULE TxPoolProofs ----------------------------
(***************************************************************************)
(* Proofs about the transactions on their way into blocks, for every       *)
(* number of miners, transactions and overlapping calls of MineTx.         *)
(***************************************************************************)
EXTENDS TxPool, Lemmas

Ids == Tx \cup {Empty}

JobType == [pc : {"idle", "select", "selected", "mine", "sealed", "announce"},
            txs : SUBSET (Ids \ Bad),
            parent : Chain]

-----------------------------------------------------------------------------
(* Messages and the bag that holds them. *)
LEMMA MessageFields ==
  ASSUME NEW m \in Message
  PROVE  /\ m.to \in Node
         /\ m.type \in {"tx", "inv", "getdata", "version", "blocks"}
         /\ m.type = "tx" => /\ m.tx \in Ids
                             /\ \/ m.from = Client /\ m.to = Seed
                                \/ m.from = Seed /\ m.to \in Miner
         /\ m.type = "inv" => m.tx \in Ids /\ m.from = Seed /\ m.to \in Miner
         /\ m.type = "getdata" => m.tx \in Ids /\ m.from \in Miner /\ m.to = Seed
         /\ m.type = "version" => m.chain \in Chain /\ m.from \in Miner /\ m.to = Seed
         /\ m.type = "blocks" => m.chain \in Chain /\ m.from \in Node
  BY DEF Message, Ids, Node

LEMMA MessagesMade ==
  /\ \A t \in Ids : /\ TxMsg(Client, Seed, t) \in Message
                    /\ \A p \in Miner : /\ TxMsg(Seed, p, t) \in Message
                                        /\ Inv(Seed, p, t) \in Message
                                        /\ GetData(p, Seed, t) \in Message
  /\ \A n, p \in Node, c \in Chain : Blocks(n, p, c) \in Message
<1>1. \A t \in Ids : TxMsg(Client, Seed, t) \in Message
  BY DEF Message, Ids, TxMsg
<1>2. \A t \in Ids, p \in Miner : TxMsg(Seed, p, t) \in Message /\ Inv(Seed, p, t) \in Message
  BY DEF Message, Ids, TxMsg, Inv
<1>3. \A t \in Ids, p \in Miner : GetData(p, Seed, t) \in Message
  BY DEF Message, Ids, GetData
<1>4. \A n, p \in Node, c \in Chain : Blocks(n, p, c) \in Message
  BY DEF Message, Blocks
<1> QED
  BY <1>1, <1>2, <1>3, <1>4

LEMMA VersionMade ==
  ASSUME TypeOK, NEW n \in Miner
  PROVE  Version(n, Seed) \in Message
  BY DEF TypeOK, Message, Version, Node

LEMMA SentMail ==
  ASSUME NEW mail, IsABag(mail), NEW msgs
  PROVE  /\ IsABag(Sent(mail, msgs))
         /\ BagToSet(Sent(mail, msgs)) = BagToSet(mail) \cup {r \in msgs : r.to \in up}
  BY BagAdd DEF Sent

LEMMA ReceivedMail ==
  ASSUME TypeOK, NEW m \in BagToSet(net)
  PROVE  IsABag(Received(m)) /\ BagToSet(Received(m)) \subseteq BagToSet(net)
  BY BagRemove DEF TypeOK, Received

LEMMA StopsMail ==
  ASSUME NEW n, NEW mail, IsABag(mail), Stops(n, mail)
  PROVE  IsABag(net') /\ BagToSet(net') = {x \in BagToSet(mail) : x.to # n}
  BY DEF Stops, IsABag, BagToSet

(* A node that sends forgets those that are down. *)
LEMMA ReachedSubset ==
  ASSUME NEW known, NEW msgs
  PROVE  Reached(known, msgs) \subseteq known
  BY DEF Reached

-----------------------------------------------------------------------------
(* Type correctness. *)
LEMMA JobMoves ==
  ASSUME TypeOK, NEW n \in Node, NEW j \in Job, NEW local,
         job' = [job EXCEPT ![n][j] = local]
  PROVE  /\ job'[n][j] = local
         /\ \A k \in Node, i \in Job : k # n \/ i # j => job'[k][i] = job[k][i]
         /\ local \in JobType => job' \in [Node -> [Job -> JobType]]
  BY DEF TypeOK, JobType, Ids

JobOK(p) ==
    p \in JobType /\ (p.txs = {} <=> p.pc \in {"idle", "select"})

LEMMA JobStep ==
  ASSUME TypeOK, NEW n \in Node, NEW j \in Job, NEW local, JobOK(local),
         job' = [job EXCEPT ![n][j] = local]
  PROVE  /\ job' \in [Node -> [Job -> JobType]]
         /\ \A k \in Node, i \in Job :
               job'[k][i].txs = {} <=> job'[k][i].pc \in {"idle", "select"}
<1>0. local \in JobType
  BY DEF JobOK
<1>1. /\ job'[n][j] = local
      /\ \A k \in Node, i \in Job : k # n \/ i # j => job'[k][i] = job[k][i]
      /\ job' \in [Node -> [Job -> JobType]]
  BY <1>0, JobMoves, ZenonT(40)
<1> QED
  BY <1>1 DEF JobOK, TypeOK

LEMMA IdleOK == JobOK(Idle) /\ JobOK(Selecting)
<1>1. << >> \in Chain
  BY DEF Chain
<1>2. Idle \in JobType /\ Idle.txs = {} /\ Idle.pc = "idle"
  BY <1>1 DEF JobType, Idle
<1>3. Selecting \in JobType /\ Selecting.txs = {} /\ Selecting.pc = "select"
  BY <1>2 DEF JobType, Selecting
<1> QED
  BY <1>2, <1>3 DEF JobOK

(* What TypeOK says, with the names used here. *)
LEMMA TypeParts ==
  TypeOK <=>
    /\ up \subseteq Node
    /\ peers \in [Node -> SUBSET Node]
    /\ peers[Seed] \subseteq Miner /\ \A n \in Miner : peers[n] \subseteq {Seed}
    /\ pool \in [Node -> SUBSET Ids]
    /\ chain \in [Node -> Chain]
    /\ job \in [Node -> [Job -> JobType]]
    /\ \A n \in Node, j \in Job : job[n][j].txs = {} <=> job[n][j].pc \in {"idle", "select"}
    /\ IsABag(net) /\ BagToSet(net) \subseteq Message
    /\ \A m \in BagToSet(net) : m.to \in up
    /\ sends \in [Tx -> Nat] /\ starts \in [Node -> 0 .. MaxStarts]
    /\ received \in [Node -> SUBSET Ids]
    /\ \A n \in Node : pool[n] \subseteq received[n]
    /\ disturbed \subseteq Node
  BY DEF TypeOK, JobType, Ids

LEMMA TypeStops ==
  ASSUME TypeOK, NEW n \in Node, NEW mail, IsABag(mail), BagToSet(mail) \subseteq BagToSet(net),
         Stops(n, mail)
  PROVE  TypeOK'
<1>1. /\ IsABag(net') /\ BagToSet(net') = {x \in BagToSet(mail) : x.to # n}
  BY StopsMail
<1>2. up' = up \ {n} /\ UNCHANGED <<chain, sends, starts, disturbed>>
  BY DEF Stops
<1>3. BagToSet(net') \subseteq Message /\ \A m \in BagToSet(net') : m.to \in up'
  BY <1>1, <1>2 DEF TypeOK
<1>4. /\ job' = [job EXCEPT ![n] = [j \in Job |-> Idle]]
      /\ peers' = [peers EXCEPT ![n] = {}]
      /\ pool' = [pool EXCEPT ![n] = {}]
      /\ received' = [received EXCEPT ![n] = {}]
  BY DEF Stops
<1>5. /\ job' \in [Node -> [Job -> JobType]]
      /\ \A k \in Node, j \in Job : job'[k][j].txs = {} <=> job'[k][j].pc \in {"idle", "select"}
  BY <1>4, IdleOK DEF TypeOK, JobOK, JobType, Ids
<1>6. /\ peers' \in [Node -> SUBSET Node]
      /\ peers'[Seed] \subseteq Miner /\ \A k \in Miner : peers'[k] \subseteq {Seed}
  BY <1>4 DEF TypeOK, Node
<1>7. /\ pool' \in [Node -> SUBSET Ids] /\ received' \in [Node -> SUBSET Ids]
      /\ \A k \in Node : pool'[k] \subseteq received'[k]
  BY <1>4 DEF TypeOK, Ids
<1>8. up' \subseteq Node /\ chain' \in [Node -> Chain] /\ disturbed' \subseteq Node
      /\ sends' \in [Tx -> Nat] /\ starts' \in [Node -> 0 .. MaxStarts]
  BY <1>2 DEF TypeOK
<1> QED
  BY <1>1, <1>3, <1>5, <1>6, <1>7, <1>8 DEF TypeOK, JobType, Ids

(* The nodes a handler sends to. *)
LEMMA PeersStep ==
  ASSUME TypeOK, NEW n \in Node, NEW known, NEW msgs, known \subseteq peers[n],
         peers' = [peers EXCEPT ![n] = Reached(known, msgs)]
  PROVE  /\ peers' \in [Node -> SUBSET Node]
         /\ peers'[Seed] \subseteq Miner /\ \A k \in Miner : peers'[k] \subseteq {Seed}
         /\ \A k \in Node : peers'[k] \subseteq peers[k]
<1>1. Reached(known, msgs) \subseteq peers[n]
  BY ReachedSubset
<1> QED
  BY <1>1 DEF TypeOK, Node

(* A handler sends messages, and the one it handles is gone. *)
LEMMA MailStep ==
  ASSUME TypeOK, NEW m \in BagToSet(net), NEW msgs, msgs \subseteq Message,
         net' = Sent(Received(m), msgs), up' = up
  PROVE  /\ IsABag(net') /\ BagToSet(net') \subseteq Message
         /\ \A r \in BagToSet(net') : r.to \in up'
<1>1. IsABag(Received(m)) /\ BagToSet(Received(m)) \subseteq BagToSet(net)
  BY ReceivedMail
<1>2. /\ IsABag(net')
      /\ BagToSet(net') = BagToSet(Received(m)) \cup {r \in msgs : r.to \in up}
  BY <1>1, SentMail
<1> QED
  BY <1>1, <1>2 DEF TypeOK

LEMMA TypeStep == TypeOK /\ [Next]_vars => TypeOK'
<1> SUFFICES ASSUME TypeOK, Next PROVE TypeOK'
  BY DEF vars, TypeOK
<1>1. ASSUME NEW n \in Node, Start(n) PROVE TypeOK'
  <2> DEFINE hello == IF n = Seed THEN {} ELSE {Version(n, Seed)}
  <2>1. hello \subseteq Message
    BY VersionMade DEF Node
  <2>2. /\ up' = up \cup {n} /\ net' = Sent(net, hello)
        /\ peers' = [peers EXCEPT ![n] = Reached({Seed} \ {n}, hello)]
        /\ starts' = [starts EXCEPT ![n] = @ + 1] /\ starts[n] < MaxStarts
        /\ UNCHANGED <<pool, chain, job, sends, received, disturbed>>
    BY <1>1 DEF Start
  <2> HIDE DEF hello
  <2>3. IsABag(net') /\ BagToSet(net') = BagToSet(net) \cup {r \in hello : r.to \in up}
    BY <2>2, SentMail DEF TypeOK
  <2>4. Reached({Seed} \ {n}, hello) \subseteq {Seed} \ {n}
    BY ReachedSubset
  <2>5. /\ peers' \in [Node -> SUBSET Node]
        /\ peers'[Seed] \subseteq Miner /\ \A k \in Miner : peers'[k] \subseteq {Seed}
    BY <2>2, <2>4, NodesAssumption DEF TypeOK, Node
  <2>6. starts' \in [Node -> 0 .. MaxStarts]
    BY <2>2, BoundAssumption DEF TypeOK
  <2> QED
    BY <2>1, <2>2, <2>3, <2>5, <2>6 DEF TypeOK
<1>2. ASSUME NEW n \in Node, Kill(n) \/ MapRace(n) PROVE TypeOK'
  <2>1. Stops(n, net)
    BY <1>2 DEF Kill, MapRace
  <2> QED
    BY <2>1, TypeStops DEF TypeOK
<1>3. ASSUME NEW t \in Tx, Submit(t) PROVE TypeOK'
  <2>1. {TxMsg(Client, Seed, t)} \subseteq Message
    BY MessagesMade DEF Ids
  <2>2. /\ IsABag(net')
        /\ BagToSet(net') = BagToSet(net) \cup {r \in {TxMsg(Client, Seed, t)} : r.to \in up}
    BY <1>3, SentMail DEF Submit, TypeOK
  <2>3. sends' \in [Tx -> Nat]
    BY <1>3 DEF Submit, TypeOK
  <2>4. UNCHANGED <<up, peers, pool, chain, job, starts, received, disturbed>>
    BY <1>3 DEF Submit
  <2> QED
    BY <2>1, <2>2, <2>3, <2>4 DEF TypeOK
<1>4. ASSUME NEW m \in BagToSet(net), HandleVersion(m) PROVE TypeOK'
  <2> DEFINE n == m.to
             reply == IF Len(chain[n]) > Len(m.chain) THEN {Blocks(n, m.from, chain[n])}
                      ELSE IF Len(chain[n]) < Len(m.chain) THEN {Blocks(m.from, n, m.chain)}
                      ELSE {}
  <2>1. /\ m.type = "version" /\ m \in Message /\ n = Seed /\ m.from \in Miner
        /\ m.chain \in Chain /\ chain[n] \in Chain /\ n \in Node /\ m.from \in Node
    BY <1>4, MessageFields DEF HandleVersion, TypeOK, Node
  <2>2. reply \subseteq Message
    BY <2>1, MessagesMade
  <2>3. /\ net' = Sent(Received(m), reply) /\ up' = up
        /\ peers' = [peers EXCEPT ![n] = Reached(peers[n], reply) \cup {m.from}]
        /\ UNCHANGED <<up, pool, chain, job, sends, starts, received, disturbed>>
    BY <1>4 DEF HandleVersion
  <2> HIDE DEF reply
  <2>4. /\ IsABag(net') /\ BagToSet(net') \subseteq Message
        /\ \A r \in BagToSet(net') : r.to \in up'
    BY <2>2, <2>3, MailStep
  <2>5. Reached(peers[n], reply) \subseteq peers[n]
    BY ReachedSubset
  <2>6. /\ peers' \in [Node -> SUBSET Node]
        /\ peers'[Seed] \subseteq Miner /\ \A k \in Miner : peers'[k] \subseteq {Seed}
    BY <2>1, <2>3, <2>5, NodesAssumption DEF TypeOK, Node
  <2> QED
    BY <2>3, <2>4, <2>6 DEF TypeOK
<1>5. ASSUME NEW m \in BagToSet(net), HandleBlocks(m) PROVE TypeOK'
  <2>1. /\ m.type = "blocks" /\ m \in Message /\ m.to \in Node /\ m.chain \in Chain
        /\ net' = Received(m) /\ UNCHANGED <<up, peers, pool, job, sends, starts, received>>
    BY <1>5, MessageFields DEF HandleBlocks, TypeOK
  <2>2. IsABag(net') /\ BagToSet(net') \subseteq BagToSet(net)
    BY <2>1, ReceivedMail
  <2>3. chain' \in [Node -> Chain]
    BY <1>5, <2>1 DEF HandleBlocks, TypeOK
  <2>4. disturbed' \subseteq Node
    BY <1>5, <2>1 DEF HandleBlocks, TypeOK
  <2> QED
    BY <2>1, <2>2, <2>3, <2>4 DEF TypeOK
<1>6. ASSUME NEW m \in BagToSet(net), HandleTx(m) PROVE TypeOK'
  <2> DEFINE n    == m.to
             news == {Inv(n, p, m.tx) : p \in peers[n] \ {m.from}}
             kept == /\ pool' = [pool EXCEPT ![n] = Pooled(n, m.tx)]
                     /\ received' = [received EXCEPT ![n] = @ \cup {m.tx}]
                     /\ UNCHANGED <<up, chain, sends, starts, disturbed>>
  <2>1. m.type = "tx" /\ m \in Message /\ n \in Node /\ m.tx \in Ids
    BY <1>6, MessageFields DEF HandleTx, TypeOK
  <2>2. ASSUME kept
        PROVE  /\ pool' \in [Node -> SUBSET Ids] /\ received' \in [Node -> SUBSET Ids]
               /\ \A k \in Node : pool'[k] \subseteq received'[k]
               /\ UNCHANGED <<up, chain, sends, starts, disturbed>>
    BY <2>1, <2>2 DEF TypeOK, Pooled, Ids
  <2>3. CASE n = Seed /\ kept /\ net' = Sent(Received(m), news)
             /\ peers' = [peers EXCEPT ![n] = Reached(peers[n], news)] /\ UNCHANGED job
    <3>1. news \subseteq Message
      BY <2>1, <2>3, MessagesMade DEF TypeOK
    <3> HIDE DEF news, kept
    <3>2. up' = up
      BY <2>2, <2>3
    <3>3. /\ IsABag(net') /\ BagToSet(net') \subseteq Message
          /\ \A r \in BagToSet(net') : r.to \in up'
      BY <2>3, <3>1, <3>2, MailStep
    <3>4. /\ peers' \in [Node -> SUBSET Node]
          /\ peers'[Seed] \subseteq Miner /\ \A k \in Miner : peers'[k] \subseteq {Seed}
      BY <2>1, <2>3, PeersStep
    <3>5. UNCHANGED <<up, chain, sends, starts, disturbed, job>>
      BY <2>2, <2>3
    <3> QED
      BY <2>2, <2>3, <3>3, <3>4, <3>5, TypeParts DEF TypeOK, JobType, Ids
  <2>4. CASE /\ kept /\ net' = Received(m) /\ UNCHANGED peers
             /\ UNCHANGED job \/ \E j \in Job : job' = [job EXCEPT ![n][j] = Selecting]
    <3> HIDE DEF kept
    <3>1. IsABag(net') /\ BagToSet(net') \subseteq BagToSet(net)
      BY <2>4, ReceivedMail
    <3>2. /\ job' \in [Node -> [Job -> JobType]]
          /\ \A k \in Node, i \in Job : job'[k][i].txs = {} <=> job'[k][i].pc \in {"idle", "select"}
      <4>1. CASE UNCHANGED job
        BY <4>1, TypeParts
      <4>2. CASE \E j \in Job : job' = [job EXCEPT ![n][j] = Selecting]
        BY <2>1, <4>2, IdleOK, JobStep
      <4> QED
        BY <2>4, <4>1, <4>2
    <3> QED
      BY <2>2, <2>4, <3>1, <3>2 DEF TypeOK, JobType, Ids
  <2>5. CASE Stops(n, Received(m))
    BY <2>1, <2>5, ReceivedMail, TypeStops
  <2> QED
    BY <1>6, <2>3, <2>4, <2>5 DEF HandleTx
<1>7. ASSUME NEW m \in BagToSet(net), HandleInv(m) PROVE TypeOK'
  <2> DEFINE request == IF m.tx \in pool[m.to] \ {Empty} THEN {} ELSE {GetData(m.to, m.from, m.tx)}
  <2>1. /\ m \in Message /\ m.type = "inv" /\ m.to \in Miner /\ m.from = Seed /\ m.tx \in Ids
        /\ m.to \in Node
    BY <1>7, MessageFields DEF HandleInv, TypeOK, Node
  <2>2. request \subseteq Message
    BY <2>1, MessagesMade
  <2>3. /\ net' = Sent(Received(m), request)
        /\ peers' = [peers EXCEPT ![m.to] = Reached(peers[m.to], request)]
        /\ UNCHANGED <<up, pool, chain, job, sends, starts, received, disturbed>>
    BY <1>7 DEF HandleInv
  <2> HIDE DEF request
  <2>4. /\ IsABag(net') /\ BagToSet(net') \subseteq Message
        /\ \A r \in BagToSet(net') : r.to \in up'
    BY <2>2, <2>3, MailStep
  <2>5. /\ peers' \in [Node -> SUBSET Node]
        /\ peers'[Seed] \subseteq Miner /\ \A k \in Miner : peers'[k] \subseteq {Seed}
    BY <2>1, <2>3, PeersStep
  <2> QED
    BY <2>3, <2>4, <2>5 DEF TypeOK
<1>8. ASSUME NEW m \in BagToSet(net), HandleGetData(m) PROVE TypeOK'
  <2> DEFINE reply == {TxMsg(m.to, m.from, IF m.tx \in pool[m.to] THEN m.tx ELSE Empty)}
  <2>1. /\ m \in Message /\ m.type = "getdata" /\ m.to = Seed /\ m.from \in Miner /\ m.tx \in Ids
        /\ m.to \in Node
    BY <1>8, MessageFields DEF HandleGetData, TypeOK, Node
  <2>2. reply \subseteq Message
    BY <2>1, MessagesMade DEF Ids
  <2>3. /\ net' = Sent(Received(m), reply)
        /\ peers' = [peers EXCEPT ![m.to] = Reached(peers[m.to], reply)]
        /\ UNCHANGED <<up, pool, chain, job, sends, starts, received, disturbed>>
    BY <1>8 DEF HandleGetData
  <2> HIDE DEF reply
  <2>4. /\ IsABag(net') /\ BagToSet(net') \subseteq Message
        /\ \A r \in BagToSet(net') : r.to \in up'
    BY <2>2, <2>3, MailStep
  <2>5. /\ peers' \in [Node -> SUBSET Node]
        /\ peers'[Seed] \subseteq Miner /\ \A k \in Miner : peers'[k] \subseteq {Seed}
    BY <2>1, <2>3, PeersStep
  <2> QED
    BY <2>3, <2>4, <2>5 DEF TypeOK
<1>9. ASSUME NEW n \in Miner, NEW j \in Job,
             Select(n, j) \/ BeginBlock(n, j) \/ Seal(n, j) \/ Clear(n, j) \/ Announce(n, j)
      PROVE  TypeOK'
  <2>0. /\ n \in Node /\ job[n][j] \in JobType /\ JobOK(job[n][j])
        /\ chain[n] \in Chain /\ pool[n] \subseteq Ids
        /\ job[n][j].txs \subseteq Id /\ job[n][j].parent \in Chain
    BY TypeParts DEF Node, JobOK, JobType, Ids, Id
  <2>1. ASSUME Stops(n, net) PROVE TypeOK'
    BY <2>0, <2>1, TypeStops DEF TypeOK
  <2>2. ASSUME NEW local, JobOK(local), job' = [job EXCEPT ![n][j] = local]
        PROVE  /\ job' \in [Node -> [Job -> JobType]]
               /\ \A k \in Node, i \in Job :
                     job'[k][i].txs = {} <=> job'[k][i].pc \in {"idle", "select"}
    BY <2>0, <2>2, JobStep
  <2>3. ASSUME NEW p, p \in {"mine", "sealed", "announce"},
               job[n][j].pc \notin {"idle", "select"}
        PROVE  JobOK([job[n][j] EXCEPT !.pc = p])
    BY <2>0, <2>3 DEF JobOK, JobType
  <2>4. CASE Select(n, j) /\ ~Stops(n, net)
    <3> DEFINE local == IF Valid(n) = {} THEN Idle
                        ELSE [job[n][j] EXCEPT !.pc = "selected", !.txs = Valid(n)]
    <3>1. job' = [job EXCEPT ![n][j] = local]
      BY <2>4 DEF Select
    <3>2. JobOK(local)
      <4>1. Valid(n) \subseteq Ids \ Bad
        BY <2>0 DEF Valid
      <4>2. CASE Valid(n) # {}
        BY <2>0, <4>1, <4>2 DEF JobOK, JobType
      <4> QED
        BY <4>2, IdleOK
    <3> HIDE DEF local
    <3>3. /\ UNCHANGED <<up, peers, pool, chain, net, sends, starts, received>>
          /\ disturbed' \subseteq Node
      BY <2>0, <2>4 DEF Select, TypeOK
    <3> QED
      BY <2>2, <3>1, <3>2, <3>3 DEF TypeOK, JobType, Ids
  <2>5. CASE BeginBlock(n, j) /\ ~Stops(n, net)
    <3> DEFINE local == [job[n][j] EXCEPT !.pc = "mine", !.parent = chain[n]]
    <3>1. job' = [job EXCEPT ![n][j] = local]
      BY <2>0, <2>5 DEF BeginBlock, TypeOK
    <3>2. JobOK(local)
      BY <2>0, <2>5 DEF JobOK, JobType, BeginBlock
    <3> HIDE DEF local
    <3>3. UNCHANGED <<up, peers, pool, chain, net, sends, starts, received, disturbed>>
      BY <2>5 DEF BeginBlock
    <3> QED
      BY <2>2, <3>1, <3>2, <3>3 DEF TypeOK, JobType, Ids
  <2>6. CASE Seal(n, j)
    <3>1. job' = [job EXCEPT ![n][j] = [job[n][j] EXCEPT !.pc = "sealed"]]
      BY <2>0, <2>6 DEF Seal, TypeOK
    <3>2. JobOK([job[n][j] EXCEPT !.pc = "sealed"])
      BY <2>3, <2>6 DEF Seal
    <3>3. Append(job[n][j].parent, job[n][j].txs) \in Chain
      BY <2>0, AppendElements DEF Chain
    <3>4. /\ UNCHANGED <<up, peers, pool, net, sends, starts, received, disturbed>>
          /\ chain' \in [Node -> Chain]
      BY <2>6, <3>3 DEF Seal, TypeOK
    <3> QED
      BY <2>2, <3>1, <3>2, <3>4 DEF TypeOK, JobType, Ids
  <2>7. CASE Clear(n, j)
    <3>1. job' = [job EXCEPT ![n][j] = [job[n][j] EXCEPT !.pc = "announce"]]
      BY <2>0, <2>7 DEF Clear, TypeOK
    <3>2. JobOK([job[n][j] EXCEPT !.pc = "announce"])
      BY <2>3, <2>7 DEF Clear
    <3>3. /\ UNCHANGED <<up, peers, chain, net, sends, starts, received, disturbed>>
          /\ pool' \in [Node -> SUBSET Ids]
          /\ \A k \in Node : pool'[k] \subseteq pool[k]
      BY <2>7 DEF Clear, Left, TypeOK, Ids
    <3> QED
      BY <2>2, <3>1, <3>2, <3>3 DEF TypeOK, JobType, Ids
  <2>8. CASE Announce(n, j)
    <3> DEFINE block == Append(job[n][j].parent, job[n][j].txs)
               news == {Blocks(n, p, block) : p \in peers[n]}
               local == IF pool[n] = {} THEN Idle ELSE Selecting
    <3>1. /\ net' = Sent(net, news) /\ job' = [job EXCEPT ![n][j] = local]
          /\ peers' = [peers EXCEPT ![n] = Reached(peers[n], news)]
          /\ UNCHANGED <<up, pool, chain, sends, starts, received, disturbed>>
      BY <2>8 DEF Announce
    <3>2. JobOK(local)
      BY IdleOK
    <3>3. block \in Chain
      BY <2>0, AppendElements DEF Chain
    <3>4. news \subseteq Message
      BY <2>0, <3>3, MessagesMade DEF TypeOK
    <3> HIDE DEF news, local
    <3>5. IsABag(net') /\ BagToSet(net') = BagToSet(net) \cup {r \in news : r.to \in up}
      BY <3>1, SentMail DEF TypeOK
    <3>6. /\ peers' \in [Node -> SUBSET Node]
          /\ peers'[Seed] \subseteq Miner /\ \A k \in Miner : peers'[k] \subseteq {Seed}
      BY <2>0, <3>1, PeersStep
    <3> QED
      BY <2>2, <3>1, <3>2, <3>4, <3>5, <3>6 DEF TypeOK, JobType, Ids
  <2> QED
    BY <1>9, <2>1, <2>4, <2>5, <2>6, <2>7, <2>8
<1> QED
  BY <1>1, <1>2, <1>3, <1>4, <1>5, <1>6, <1>7, <1>8, <1>9 DEF Next, Deliver, Mine

LEMMA TypeInit == Init => TypeOK
<1> SUFFICES ASSUME Init PROVE TypeOK
  OBVIOUS
<1>1. /\ up \subseteq Node /\ disturbed \subseteq Node
      /\ peers \in [Node -> SUBSET Node]
      /\ peers[Seed] \subseteq Miner /\ \A n \in Miner : peers[n] \subseteq {Seed}
  BY DEF Init, Node
<1>2. /\ pool \in [Node -> SUBSET Ids] /\ received \in [Node -> SUBSET Ids]
      /\ \A n \in Node : pool[n] \subseteq received[n]
  BY DEF Init
<1>3. chain \in [Node -> Chain]
  <2>1. Seq(SUBSET Old) \subseteq Chain
    BY DEF Chain, Id
  <2> QED
    BY <2>1, TxAssumption DEF Init
<1>4. /\ job \in [Node -> [Job -> JobType]]
      /\ \A n \in Node, j \in Job : job[n][j].txs = {} <=> job[n][j].pc \in {"idle", "select"}
  BY IdleOK DEF Init, JobOK
<1>5. IsABag(net) /\ BagToSet(net) = {}
  BY BagEmpty DEF Init
<1>6. sends \in [Tx -> Nat] /\ starts \in [Node -> 0 .. MaxStarts]
  BY BoundAssumption DEF Init
<1> QED
  BY <1>1, <1>2, <1>3, <1>4, <1>5, <1>6, TypeParts

(* The variables keep their types: every message in flight is one that the *)
(* handlers send, to a node that runs; miners know only the seed, and what *)
(* MineTx has selected passes Verify.                                      *)
THEOREM TypeCorrect == Spec => []TypeOK
  BY TypeInit, TypeStep, PTL DEF Spec

-----------------------------------------------------------------------------
(* The invariants. *)
Down == \A n \in Node :
    /\ n \in up => starts[n] > 0
    /\ n \notin up => received[n] = {} /\ \A j \in Job : job[n][j] = Idle

(* What the seed has announced it still has, in its first run. *)
AnswerInv ==
    ~Ended(Seed) =>
        /\ \A n \in Node : Empty \notin received[n]
        /\ \A m \in BagToSet(net) :
            /\ m.type \in {"inv", "getdata"} => m.tx \in pool[Seed]
            /\ m.type = "tx" => m.tx # Empty

(* A call of MineTx has selected transactions and not yet removed them.    *)
Holds(n, j) == job[n][j].pc \in {"selected", "mine", "sealed"}

OneHolds(n) == \A i, j \in Job : Holds(n, i) /\ Holds(n, j) => i = j

(* What is pooled stays, until the chain has it: also the chain that a     *)
(* block being mined extends, which will replace the node's.               *)
LossInv ==
    \A n \in Miner \ disturbed :
        /\ OneHolds(n)
        /\ received[n] \ Bad \subseteq pool[n] \cup Packed(chain[n])
        /\ \A j \in Job :
            /\ job[n][j].pc = "mine" =>
                received[n] \ Bad \subseteq pool[n] \cup Packed(job[n][j].parent)
            /\ job[n][j].pc = "sealed" => job[n][j].txs \subseteq Packed(chain[n])
            /\ Holds(n, j) => job[n][j].txs \subseteq pool[n]

(* A message that leads to n's pooling t, and there is at most one for a   *)
(* transaction submitted once.                                             *)
Leads(m, n, t) ==
    /\ m.type \in {"tx", "inv", "getdata"}
    /\ n \in {m.from, m.to} \/ m.from = Client
    /\ m.tx = t

Lone(mail, n, t) ==
    \A m \in BagToSet(mail) : Leads(m, n, t) =>
        /\ mail[m] = 1
        /\ \A r \in BagToSet(mail) : Leads(r, n, t) => r = m

OneLeads == \A n \in Miner, t \in Tx : sends[t] <= 1 => Lone(net, n, t)

(* A node has to do with a transaction, or had since its start.            *)
Sees(n, t) ==
    \/ t \in received[n] \cup Packed(chain[n])
    \/ \E j \in Job : t \in job[n][j].txs \cup Packed(job[n][j].parent)

(* What was not submitted is nowhere. *)
Unsent ==
    \A t \in Tx : sends[t] = 0 =>
        /\ \A n \in Node : ~Sees(n, t)
        /\ \A m \in BagToSet(net) :
            IF m.type \in {"tx", "inv", "getdata"} THEN m.tx # t ELSE t \notin Packed(m.chain)

Led(n, t) == \E m \in BagToSet(net) : Leads(m, n, t)

(* What is to come to n has not been there. *)
FreshInv ==
    \A n \in Miner \ disturbed, t \in Tx :
        sends[t] <= 1 /\ Led(n, t) => ~Sees(n, t)

(* What is pooled is not on the chain, except by the block whose           *)
(* transactions are about to be removed from the pool.                     *)
OnceInv ==
    \A n \in Miner \ disturbed, t \in Tx : sends[t] <= 1 /\ t \in pool[n] =>
        /\ t \in Packed(chain[n]) => \E j \in Job : job[n][j].pc = "sealed" /\ t \in job[n][j].txs
        /\ \A j \in Job : job[n][j].pc = "mine" => t \notin Packed(job[n][j].parent)

-----------------------------------------------------------------------------
(* What the steps do. *)
LEMMA Stopped ==
  ASSUME TypeOK, NEW n \in Node, NEW mail, Stops(n, mail)
  PROVE  /\ up' = up \ {n} /\ UNCHANGED <<chain, sends, starts, disturbed>>
         /\ pool'[n] = {} /\ received'[n] = {} /\ \A j \in Job : job'[n][j] = Idle
         /\ \A k \in Node \ {n} :
               /\ pool'[k] = pool[k] /\ received'[k] = received[k]
               /\ \A j \in Job : job'[k][j] = job[k][j]
  BY DEF TypeOK, Stops

LEMMA StopsBy ==
  ASSUME TypeOK, NEW n \in Node, Kill(n) \/ MapRace(n)
  PROVE  Stops(n, net) /\ IsABag(net)
  BY DEF Kill, MapRace, TypeOK

OnlyJob(n, j) == \A k \in Node, i \in Job : k # n \/ i # j => job'[k][i] = job[k][i]

(* The handling of a transaction, by a seed or a miner that goes on.       *)
Pools(m) ==
    /\ m.type = "tx"
    /\ pool' = [pool EXCEPT ![m.to] = pool[m.to] \cup {m.tx}]
    /\ received' = [received EXCEPT ![m.to] = @ \cup {m.tx}]
    /\ UNCHANGED <<up, chain, sends, starts, disturbed>>

LEMMA HandleTxSteps ==
  ASSUME TypeOK, NEW m \in BagToSet(net), HandleTx(m)
  PROVE  \/ /\ Pools(m) /\ m.to = Seed /\ UNCHANGED job
            /\ net' = Sent(Received(m), {Inv(Seed, p, m.tx) : p \in peers[Seed] \ {m.from}})
         \/ /\ Pools(m) /\ m.to \in Miner /\ net' = Received(m)
            /\ \/ UNCHANGED job /\ ~Enough(Cardinality(pool'[m.to]))
               \/ \E j \in Job : /\ job[m.to][j] = Idle /\ job'[m.to][j] = Selecting
                                 /\ OnlyJob(m.to, j)
         \/ Stops(m.to, Received(m)) /\ m.to \in Miner
<1>1. /\ m \in Message /\ m.type = "tx" /\ m.to \in Node
      /\ m.to = Seed \/ (m.to \in Miner /\ m.to # Seed)
  <2>1. m \in Message /\ m.type = "tx"
    BY DEF HandleTx, TypeOK
  <2>2. m.to \in Node
    BY <2>1, MessageFields
  <2>3. m.to = Seed \/ (m.to \in Miner /\ m.to # Seed)
    BY <2>2 DEF Node
  <2> QED
    BY <2>1, <2>2, <2>3
<1> DEFINE kept == /\ pool' = [pool EXCEPT ![m.to] = Pooled(m.to, m.tx)]
                   /\ received' = [received EXCEPT ![m.to] = @ \cup {m.tx}]
                   /\ UNCHANGED <<up, chain, sends, starts, disturbed>>
<1>2. kept => Pools(m)
  BY <1>1 DEF Pools, Pooled
<1>3. ASSUME NEW j \in Job, job' = [job EXCEPT ![m.to][j] = Selecting]
      PROVE  job'[m.to][j] = Selecting /\ OnlyJob(m.to, j)
  <2>1. job'[m.to][j] = Selecting
    BY <1>1, <1>3 DEF TypeOK
  <2>2. OnlyJob(m.to, j)
    BY <1>1, <1>3 DEF OnlyJob, TypeOK
  <2> QED
    BY <2>1, <2>2
<1>4. CASE /\ m.to = Seed /\ kept /\ UNCHANGED job
           /\ net' = Sent(Received(m), {Inv(m.to, p, m.tx) : p \in peers[m.to] \ {m.from}})
  BY <1>2, <1>4
<1>5. CASE /\ m.to # Seed /\ kept /\ net' = Received(m)
           /\ \/ ~Enough(Cardinality(pool'[m.to])) /\ UNCHANGED job
              \/ \E j \in Job : job[m.to][j] = Idle /\ job' = [job EXCEPT ![m.to][j] = Selecting]
  <2> HIDE DEF kept
  <2> QED
    BY <1>1, <1>2, <1>3, <1>5
<1>6. CASE m.to # Seed /\ Stops(m.to, Received(m))
  BY <1>1, <1>6
<1> QED
  BY <1>4, <1>5, <1>6 DEF HandleTx

LEMMA HandleTxOthers ==
  ASSUME TypeOK, NEW m \in BagToSet(net), HandleTx(m), m.to \in Node,
         NEW k \in Node, k # m.to
  PROVE  \A j \in Job : job'[k][j] = job[k][j]
<1>1. \/ UNCHANGED job
      \/ \E j \in Job : job' = [job EXCEPT ![m.to][j] = Selecting]
      \/ Stops(m.to, Received(m))
  BY DEF HandleTx
<1>2. ASSUME NEW j \in Job, job' = [job EXCEPT ![m.to][j] = Selecting]
      PROVE  \A i \in Job : job'[k][i] = job[k][i]
  BY <1>2 DEF TypeOK
<1> QED
  BY <1>1, <1>2, Stopped, ZenonT(40)

(* The steps of MineTx. *)
LEMMA MineSteps ==
  ASSUME TypeOK, NEW n \in Miner, NEW j \in Job
  PROVE
    /\ Select(n, j) => Stops(n, net) \/
         /\ job[n][j].pc = "select" /\ OnlyJob(n, j)
         /\ Valid(n) = {} => job'[n][j] = Idle
         /\ Valid(n) # {} => job'[n][j] = [job[n][j] EXCEPT !.pc = "selected", !.txs = Valid(n)]
         /\ disturbed' = disturbed \cup {k \in {n} : \E i \in Job : Holds(n, i)}
         /\ UNCHANGED <<up, pool, chain, net, sends, starts, received>>
    /\ BeginBlock(n, j) => Stops(n, net) \/
         /\ job[n][j].pc = "selected" /\ OnlyJob(n, j)
         /\ job'[n][j] = [job[n][j] EXCEPT !.pc = "mine", !.parent = chain[n]]
         /\ UNCHANGED <<up, pool, chain, net, sends, starts, received, disturbed>>
    /\ Seal(n, j) =>
         /\ job[n][j].pc = "mine" /\ OnlyJob(n, j)
         /\ job'[n][j] = [job[n][j] EXCEPT !.pc = "sealed"]
         /\ chain' = [chain EXCEPT ![n] = Append(job[n][j].parent, job[n][j].txs)]
         /\ UNCHANGED <<up, pool, net, sends, starts, received, disturbed>>
    /\ Clear(n, j) =>
         /\ job[n][j].pc = "sealed" /\ OnlyJob(n, j)
         /\ job'[n][j] = [job[n][j] EXCEPT !.pc = "announce"]
         /\ pool' = [pool EXCEPT ![n] = pool[n] \ job[n][j].txs]
         /\ UNCHANGED <<up, chain, net, sends, starts, received, disturbed>>
    /\ Announce(n, j) =>
         /\ job[n][j].pc = "announce" /\ OnlyJob(n, j)
         /\ job'[n][j] = IF pool[n] = {} THEN Idle ELSE Selecting
         /\ net' = Sent(net, {Blocks(n, p, Append(job[n][j].parent, job[n][j].txs)) :
                              p \in peers[n]})
         /\ UNCHANGED <<up, pool, chain, sends, starts, received, disturbed>>
<1>0. n \in Node
  BY DEF Node
<1>1. ASSUME NEW local, job' = [job EXCEPT ![n][j] = local]
      PROVE  job'[n][j] = local /\ OnlyJob(n, j)
  <2>1. job'[n][j] = local
    BY <1>0, <1>1 DEF TypeOK
  <2>2. OnlyJob(n, j)
    BY <1>0, <1>1 DEF TypeOK, OnlyJob
  <2> QED
    BY <2>1, <2>2
<1>2. ASSUME Select(n, j), ~Stops(n, net)
      PROVE  /\ job[n][j].pc = "select" /\ OnlyJob(n, j)
             /\ Valid(n) = {} => job'[n][j] = Idle
             /\ Valid(n) # {} => job'[n][j] = [job[n][j] EXCEPT !.pc = "selected", !.txs = Valid(n)]
             /\ disturbed' = disturbed \cup {k \in {n} : \E i \in Job : Holds(n, i)}
             /\ UNCHANGED <<up, pool, chain, net, sends, starts, received>>
  <2> DEFINE local == IF Valid(n) = {} THEN Idle
                      ELSE [job[n][j] EXCEPT !.pc = "selected", !.txs = Valid(n)]
  <2>1. job' = [job EXCEPT ![n][j] = local] /\ job[n][j].pc = "select"
    BY <1>0, <1>2 DEF Select, TypeOK
  <2>2. job'[n][j] = local /\ OnlyJob(n, j)
    <3> HIDE DEF local
    <3> QED
      BY <1>1, <2>1
  <2>3. /\ disturbed' = disturbed \cup {k \in {n} : \E i \in Job : Holds(n, i)}
        /\ UNCHANGED <<up, pool, chain, net, sends, starts, received>>
    BY <1>2 DEF Select, Holds
  <2> QED
    BY <2>1, <2>2, <2>3
<1>3. ASSUME BeginBlock(n, j), ~Stops(n, net)
      PROVE  /\ job[n][j].pc = "selected" /\ OnlyJob(n, j)
             /\ job'[n][j] = [job[n][j] EXCEPT !.pc = "mine", !.parent = chain[n]]
             /\ UNCHANGED <<up, pool, chain, net, sends, starts, received, disturbed>>
  <2>1. /\ job' = [job EXCEPT ![n][j] = [job[n][j] EXCEPT !.pc = "mine", !.parent = chain[n]]]
        /\ job[n][j].pc = "selected"
        /\ UNCHANGED <<up, pool, chain, net, sends, starts, received, disturbed>>
    BY <1>0, <1>3 DEF BeginBlock, TypeOK
  <2> QED
    BY <1>1, <2>1
<1>4. ASSUME Seal(n, j)
      PROVE  /\ job[n][j].pc = "mine" /\ OnlyJob(n, j)
             /\ job'[n][j] = [job[n][j] EXCEPT !.pc = "sealed"]
             /\ chain' = [chain EXCEPT ![n] = Append(job[n][j].parent, job[n][j].txs)]
             /\ UNCHANGED <<up, pool, net, sends, starts, received, disturbed>>
  <2>1. /\ job' = [job EXCEPT ![n][j] = [job[n][j] EXCEPT !.pc = "sealed"]]
        /\ job[n][j].pc = "mine"
    BY <1>0, <1>4 DEF Seal, TypeOK
  <2> QED
    BY <1>1, <1>4, <2>1 DEF Seal
<1>5. ASSUME Clear(n, j)
      PROVE  /\ job[n][j].pc = "sealed" /\ OnlyJob(n, j)
             /\ job'[n][j] = [job[n][j] EXCEPT !.pc = "announce"]
             /\ pool' = [pool EXCEPT ![n] = pool[n] \ job[n][j].txs]
             /\ UNCHANGED <<up, chain, net, sends, starts, received, disturbed>>
  <2>1. /\ job' = [job EXCEPT ![n][j] = [job[n][j] EXCEPT !.pc = "announce"]]
        /\ job[n][j].pc = "sealed"
    BY <1>0, <1>5 DEF Clear, TypeOK
  <2> QED
    BY <1>1, <1>5, <2>1 DEF Clear, Left
<1>6. ASSUME Announce(n, j)
      PROVE  /\ job[n][j].pc = "announce" /\ OnlyJob(n, j)
             /\ job'[n][j] = IF pool[n] = {} THEN Idle ELSE Selecting
             /\ net' = Sent(net, {Blocks(n, p, Append(job[n][j].parent, job[n][j].txs)) :
                                  p \in peers[n]})
             /\ UNCHANGED <<up, pool, chain, sends, starts, received, disturbed>>
  BY <1>1, <1>6 DEF Announce
<1> QED
  BY <1>2, <1>3, <1>4, <1>5, <1>6

-----------------------------------------------------------------------------
(* Nothing is stuck. *)
LEMMA StuckStep == TypeOK /\ NothingStuck /\ [Next]_vars => NothingStuck'
<1> SUFFICES ASSUME TypeOK, NothingStuck, [Next]_vars,
                    NEW n \in Miner, \A j \in Job : job'[n][j] = Idle,
                    Cardinality(pool'[n]) >= 2
             PROVE  pool'[n] \subseteq Bad
  BY DEF NothingStuck
<1>0. Cardinality({}) = 0
  BY FS_EmptySet
<1>1. pool'[n] # {}
  BY <1>0
<1>2. n \in Node /\ n # Seed /\ Idle.pc = "idle" /\ Idle # Selecting
  BY NodesAssumption DEF Node, Idle, Selecting
<1>3. ASSUME pool'[n] = pool[n], \A j \in Job : job'[n][j] = job[n][j] PROVE pool'[n] \subseteq Bad
  BY <1>3 DEF NothingStuck
<1>4. ASSUME NEW k \in Node, NEW mail, Stops(k, mail) PROVE pool'[n] \subseteq Bad
  BY <1>1, <1>2, <1>3, <1>4, Stopped
<1>5. ASSUME \/ \E k \in Node : Start(k)
             \/ \E t \in Tx : Submit(t)
             \/ \E m \in BagToSet(net) : HandleVersion(m) \/ HandleBlocks(m) \/ HandleInv(m)
                                         \/ HandleGetData(m)
             \/ UNCHANGED vars
      PROVE  pool'[n] \subseteq Bad
  <2>1. UNCHANGED <<pool, job>>
    BY <1>5 DEF Start, Submit, HandleVersion, HandleBlocks, HandleInv, HandleGetData, vars
  <2> QED
    BY <1>3, <2>1
<1>6. ASSUME NEW m \in BagToSet(net), HandleTx(m) PROVE pool'[n] \subseteq Bad
  <2>0. m.to \in Node
    BY MessageFields DEF TypeOK
  <2>1. CASE m.to # n /\ Pools(m)
    <3>1. pool'[n] = pool[n]
      BY <2>0, <2>1, <1>2 DEF Pools, TypeOK
    <3>2. \A j \in Job : job'[n][j] = job[n][j]
      BY <1>2, <1>6, <2>0, <2>1, HandleTxOthers
    <3> QED
      BY <1>3, <3>1, <3>2
  <2>2. CASE m.to = n /\ Pools(m)
    <3>1. (UNCHANGED job /\ ~Enough(Cardinality(pool'[n]))) \/ pool'[n] \subseteq Bad
      BY <1>2, <1>4, <1>6, <2>0, <2>2, HandleTxSteps
    <3> QED
      BY <3>1 DEF Enough
  <2> QED
    BY <1>4, <1>6, <2>0, <2>1, <2>2, HandleTxSteps
<1>7. ASSUME NEW k \in Miner, NEW j \in Job,
             Select(k, j) \/ BeginBlock(k, j) \/ Seal(k, j) \/ Clear(k, j) \/ Announce(k, j)
      PROVE  pool'[n] \subseteq Bad
  <2>0. k \in Node
    BY DEF Node
  <2>1. CASE Stops(k, net)
    BY <1>4, <2>0, <2>1
  <2>2. CASE ~Stops(k, net) /\ k # n
    <3>1. OnlyJob(k, j)
      BY <1>7, <2>2, MineSteps
    <3>2. pool'[n] = pool[n]
      <4>1. ASSUME Clear(k, j) PROVE pool'[n] = pool[n]
        BY <1>2, <2>0, <2>2, <4>1 DEF Clear, TypeOK
      <4>2. ~Clear(k, j) => UNCHANGED pool
        BY <1>7, <2>2, MineSteps
      <4> QED
        BY <4>1, <4>2
    <3> QED
      BY <1>2, <1>3, <2>2, <3>1, <3>2 DEF OnlyJob
  <2>3. CASE ~Stops(k, net) /\ k = n
    <3>1. job'[n][j].pc = "idle"
      BY <1>2
    <3>2. job[n][j] \in JobType
      BY <1>2, TypeParts
    <3>3. ~BeginBlock(n, j) /\ ~Seal(n, j) /\ ~Clear(n, j)
      BY <2>3, <3>1, <3>2, MineSteps DEF JobType
    <3>4. ASSUME Announce(n, j) PROVE FALSE
      BY <1>1, <1>2, <3>4, MineSteps
    <3>5. ASSUME Select(n, j) PROVE pool'[n] \subseteq Bad
      <4>1. Valid(n) = {} /\ pool' = pool
        BY <2>3, <3>1, <3>2, <3>5, MineSteps DEF JobType
      <4> QED
        BY <4>1 DEF Valid
    <3> QED
      BY <1>7, <2>3, <3>3, <3>4, <3>5
  <2> QED
    BY <2>1, <2>2, <2>3
<1> QED
  BY <1>4, <1>5, <1>6, <1>7, StopsBy DEF Next, Deliver, Mine

(* A miner does not sit on transactions it could mine: when no call of      *)
(* MineTx runs and two are pooled, all were rejected, whatever came in      *)
(* while a pool was verified, mined and cleared.                            *)
THEOREM NothingStuckAlways == Spec => []NothingStuck
<1>1. Init => NothingStuck
  <2>1. Cardinality({}) = 0
    BY FS_EmptySet
  <2> QED
    BY <2>1 DEF Init, NothingStuck, Node
<1> QED
  BY <1>1, TypeInit, TypeStep, StuckStep, PTL DEF Spec

-----------------------------------------------------------------------------
(* The answers of the seed. *)
LEMMA DownStep == TypeOK /\ Down /\ [Next]_vars => Down'
<1> SUFFICES ASSUME TypeOK, Down, [Next]_vars, NEW k \in Node
             PROVE  /\ k \in up' => starts'[k] > 0
                    /\ k \notin up' => received'[k] = {} /\ \A j \in Job : job'[k][j] = Idle
  BY DEF Down
<1> DEFINE Good == /\ k \in up' => starts'[k] > 0
                   /\ k \notin up' => received'[k] = {} /\ \A j \in Job : job'[k][j] = Idle
<1>0. /\ k \in up => starts[k] > 0
      /\ k \notin up => received[k] = {} /\ \A j \in Job : job[k][j] = Idle
      /\ Idle.pc = "idle"
  BY DEF Down, Idle
<1>1. ASSUME NEW n \in Node, NEW mail, Stops(n, mail) PROVE Good
  BY <1>0, <1>1, Stopped
<1>2. ASSUME NEW n \in Node, Start(n) PROVE Good
  <2>1. up' = up \cup {n} /\ starts' = [starts EXCEPT ![n] = @ + 1] /\ UNCHANGED <<received, job>>
    BY <1>2 DEF Start
  <2>2. starts'[n] > 0 /\ (k # n => starts'[k] = starts[k])
    BY <2>1, BoundAssumption DEF TypeOK
  <2> QED
    BY <1>0, <2>1, <2>2
<1>3. ASSUME \/ \E t \in Tx : Submit(t)
             \/ \E m \in BagToSet(net) : HandleVersion(m) \/ HandleBlocks(m) \/ HandleInv(m)
                                         \/ HandleGetData(m)
             \/ UNCHANGED vars
      PROVE  Good
  <2>1. UNCHANGED <<up, starts, received, job>>
    BY <1>3 DEF Submit, HandleVersion, HandleBlocks, HandleInv, HandleGetData, vars
  <2> QED
    BY <1>0, <2>1
<1>4. ASSUME NEW m \in BagToSet(net), HandleTx(m) PROVE Good
  <2>0. m.to \in Node /\ m.to \in up
    BY MessageFields DEF TypeOK
  <2>1. CASE Pools(m)
    <3>1. UNCHANGED <<up, starts>>
      BY <2>1 DEF Pools
    <3>2. k # m.to => received'[k] = received[k]
      BY <2>0, <2>1 DEF Pools, TypeOK
    <3>3. k # m.to => \A j \in Job : job'[k][j] = job[k][j]
      BY <1>4, <2>0, HandleTxOthers
    <3> QED
      BY <1>0, <2>0, <3>1, <3>2, <3>3
  <2> QED
    BY <1>1, <1>4, <2>0, <2>1, HandleTxSteps
<1>5. ASSUME NEW n \in Miner, NEW j \in Job,
             Select(n, j) \/ BeginBlock(n, j) \/ Seal(n, j) \/ Clear(n, j) \/ Announce(n, j)
      PROVE  Good
  <2>0. n \in Node
    BY DEF Node
  <2>1. CASE Stops(n, net)
    BY <1>1, <2>0, <2>1
  <2>2. CASE ~Stops(n, net)
    <3>1. UNCHANGED <<up, starts, received>>
      BY <1>5, <2>2, MineSteps
    <3>2. OnlyJob(n, j) /\ job[n][j].pc # "idle"
      BY <1>5, <2>2, MineSteps
    <3>3. n \in up
      BY <1>0, <2>0, <3>2 DEF Down
    <3> QED
      BY <1>0, <3>1, <3>2, <3>3 DEF OnlyJob
  <2> QED
    BY <2>1, <2>2
<1> QED
  BY <1>1, <1>2, <1>3, <1>4, <1>5, StopsBy DEF Next, Deliver, Mine

LEMMA AnswerStep == TypeOK /\ Down /\ AnswerInv /\ [Next]_vars => AnswerInv'
<1> DEFINE Kept == /\ \A n \in Node : Empty \notin received[n]
                   /\ \A m \in BagToSet(net) :
                       /\ m.type \in {"inv", "getdata"} => m.tx \in pool[Seed]
                       /\ m.type = "tx" => m.tx # Empty
<1> SUFFICES ASSUME TypeOK, Down, AnswerInv, [Next]_vars, ~Ended(Seed)' PROVE Kept'
  BY DEF AnswerInv
<1>0. Seed \in Node /\ Seed \notin Miner
  BY NodesAssumption DEF Node
<1>1. ~Ended(Seed) => Kept
  BY DEF AnswerInv
<1>2. ASSUME NEW n \in Node, NEW mail, IsABag(mail), BagToSet(mail) \subseteq BagToSet(net),
             Stops(n, mail)
      PROVE  Kept'
  <2>1. BagToSet(net') \subseteq BagToSet(net)
    BY <1>2, StopsMail
  <2>2. pool'[Seed] = pool[Seed] /\ ~Ended(Seed)
    <3>1. CASE n # Seed
      BY <1>0, <1>2, <3>1, Stopped DEF Ended
    <3>2. CASE n = Seed /\ Seed \in up
      <4>1. starts[Seed] \in Nat /\ starts[Seed] > 0 /\ starts' = starts /\ Seed \notin up'
        BY <1>0, <1>2, <3>2, Stopped DEF Down, TypeOK
      <4> QED
        BY <4>1 DEF Ended
    <3>3. CASE n = Seed /\ Seed \notin up
      <4>1. pool[Seed] = {} /\ pool'[Seed] = {}
        BY <1>0, <1>2, <3>3, Stopped DEF Down, TypeOK
      <4>2. starts' = starts /\ up' = up \ {n}
        BY <1>2, Stopped
      <4> QED
        BY <3>3, <4>1, <4>2 DEF Ended
    <3> QED
      BY <3>1, <3>2, <3>3
  <2>3. \A k \in Node : received'[k] \subseteq received[k]
    BY <1>2, Stopped
  <2> QED
    BY <1>1, <2>1, <2>2, <2>3
<1>3. ASSUME NEW n \in Node, Start(n) PROVE Kept'
  <2> DEFINE hello == IF n = Seed THEN {} ELSE {Version(n, Seed)}
  <2>1. /\ up' = up \cup {n} /\ net' = Sent(net, hello)
        /\ starts' = [starts EXCEPT ![n] = @ + 1] /\ UNCHANGED <<pool, received>>
        /\ n \notin up
    BY <1>3 DEF Start
  <2>2. \A r \in hello : r.type = "version"
    BY DEF Version
  <2> HIDE DEF hello
  <2>3. BagToSet(net') \subseteq BagToSet(net) \cup hello
    BY <2>1, SentMail DEF TypeOK
  <2>4. ~Ended(Seed)
    BY <1>0, <2>1, BoundAssumption DEF Ended, TypeOK
  <2> QED
    BY <1>1, <2>1, <2>2, <2>3, <2>4
<1>4. ASSUME NEW t \in Tx, Submit(t) PROVE Kept'
  <2>1. BagToSet(net') \subseteq BagToSet(net) \cup {TxMsg(Client, Seed, t)}
    BY <1>4, SentMail DEF Submit, TypeOK
  <2>2. UNCHANGED <<up, starts, pool, received>>
    BY <1>4 DEF Submit
  <2>3. TxMsg(Client, Seed, t).type = "tx" /\ TxMsg(Client, Seed, t).tx # Empty
    BY TxAssumption DEF TxMsg
  <2> QED
    BY <1>1, <2>1, <2>2, <2>3 DEF Ended
<1>5. ASSUME NEW m \in BagToSet(net), NEW msgs, net' = Sent(Received(m), msgs),
             UNCHANGED <<up, starts, pool, received>>,
             Kept => \A r \in msgs :
                       /\ r.type \in {"inv", "getdata"} => r.tx \in pool[Seed]
                       /\ r.type = "tx" => r.tx # Empty
      PROVE  Kept'
  <2>1. BagToSet(net') \subseteq BagToSet(net) \cup msgs
    BY <1>5, SentMail, ReceivedMail
  <2>2. ~Ended(Seed)
    BY <1>5 DEF Ended
  <2> QED
    BY <1>1, <1>5, <2>1, <2>2
<1>6. ASSUME NEW m \in BagToSet(net), HandleVersion(m) PROVE Kept'
  <2> DEFINE n == m.to
             reply == IF Len(chain[n]) > Len(m.chain) THEN {Blocks(n, m.from, chain[n])}
                      ELSE IF Len(chain[n]) < Len(m.chain) THEN {Blocks(m.from, n, m.chain)}
                      ELSE {}
  <2>1. net' = Sent(Received(m), reply) /\ UNCHANGED <<up, starts, pool, received>>
    BY <1>6 DEF HandleVersion
  <2>2. \A r \in reply : r.type = "blocks"
    BY DEF Blocks
  <2> HIDE DEF reply
  <2> QED
    BY <1>5, <2>1, <2>2
<1>7. ASSUME NEW m \in BagToSet(net), HandleBlocks(m) PROVE Kept'
  <2>1. BagToSet(net') \subseteq BagToSet(net) /\ UNCHANGED <<up, starts, pool, received>>
    BY <1>7, ReceivedMail DEF HandleBlocks
  <2> QED
    BY <1>1, <2>1 DEF Ended
<1>8. ASSUME NEW m \in BagToSet(net), HandleInv(m) PROVE Kept'
  <2> DEFINE request == IF m.tx \in pool[m.to] \ {Empty} THEN {} ELSE {GetData(m.to, m.from, m.tx)}
  <2>1. /\ net' = Sent(Received(m), request) /\ UNCHANGED <<up, starts, pool, received>>
        /\ m.type = "inv"
    BY <1>8 DEF HandleInv
  <2>2. \A r \in request : r.type = "getdata" /\ r.tx = m.tx
    BY DEF GetData
  <2> HIDE DEF request
  <2> QED
    BY <1>5, <2>1, <2>2
<1>9. ASSUME NEW m \in BagToSet(net), HandleGetData(m) PROVE Kept'
  <2> DEFINE reply == {TxMsg(m.to, m.from, IF m.tx \in pool[m.to] THEN m.tx ELSE Empty)}
  <2>1. /\ net' = Sent(Received(m), reply) /\ UNCHANGED <<up, starts, pool, received>>
        /\ m.type = "getdata" /\ m.to = Seed
    BY <1>9, MessageFields DEF HandleGetData, TypeOK
  <2>2. \A r \in reply : r.type = "tx" /\ (m.tx \in pool[Seed] => r.tx = m.tx)
    BY <2>1 DEF TxMsg
  <2>3. Kept => \A r \in reply : r.tx # Empty
    BY <1>0, <2>1, <2>2 DEF TypeOK
  <2> HIDE DEF reply
  <2> QED
    BY <1>5, <2>1, <2>2, <2>3
<1>10. ASSUME NEW m \in BagToSet(net), HandleTx(m) PROVE Kept'
  <2>0. m.type = "tx" /\ m.to \in Node
    BY <1>10, MessageFields DEF HandleTx, TypeOK
  <2>1. CASE Pools(m)
    <3> DEFINE news == {Inv(Seed, p, m.tx) : p \in peers[Seed] \ {m.from}}
    <3>1. UNCHANGED <<up, starts>> /\ ~Ended(Seed)
      BY <2>1 DEF Pools, Ended
    <3>2. Kept /\ m.tx # Empty
      BY <1>1, <2>0, <3>1
    <3>3. \A k \in Node : Empty \notin received'[k]
      BY <2>0, <2>1, <3>2 DEF Pools, TypeOK
    <3>4. pool[Seed] \subseteq pool'[Seed] /\ (m.to = Seed => m.tx \in pool'[Seed])
      BY <1>0, <2>0, <2>1 DEF Pools, TypeOK
    <3>5. \A r \in news : r.type = "inv" /\ r.tx = m.tx
      BY DEF Inv
    <3> HIDE DEF news
    <3>6. CASE m.to = Seed /\ net' = Sent(Received(m), news)
      <4>1. BagToSet(net') \subseteq BagToSet(net) \cup news
        BY <3>6, SentMail, ReceivedMail
      <4> QED
        BY <3>2, <3>3, <3>4, <3>5, <3>6, <4>1
    <3>7. CASE net' = Received(m)
      <4>1. BagToSet(net') \subseteq BagToSet(net)
        BY <3>7, ReceivedMail
      <4> QED
        BY <3>2, <3>3, <3>4, <4>1
    <3>8. CASE Stops(m.to, Received(m))
      BY <1>2, <2>0, <3>8, ReceivedMail
    <3> QED
      BY <1>10, <3>6, <3>7, <3>8, HandleTxSteps DEF news
  <2> QED
    BY <1>2, <1>10, <2>0, <2>1, ReceivedMail, HandleTxSteps
<1>11. ASSUME NEW n \in Miner, NEW j \in Job,
              Select(n, j) \/ BeginBlock(n, j) \/ Seal(n, j) \/ Clear(n, j) \/ Announce(n, j)
       PROVE  Kept'
  <2>0. n \in Node /\ n # Seed
    BY <1>0 DEF Node
  <2>1. CASE Stops(n, net)
    BY <1>2, <2>0, <2>1 DEF TypeOK
  <2>2. CASE ~Stops(n, net)
    <3> DEFINE news == {Blocks(n, p, Append(job[n][j].parent, job[n][j].txs)) : p \in peers[n]}
    <3>1. UNCHANGED <<up, starts, received>>
      BY <1>11, <2>2, MineSteps
    <3>2. pool'[Seed] = pool[Seed]
      <4>1. ASSUME Clear(n, j) PROVE pool'[Seed] = pool[Seed]
        BY <1>0, <2>0, <2>2, <4>1 DEF Clear, TypeOK
      <4>2. ~Clear(n, j) => UNCHANGED pool
        BY <1>11, <2>2, MineSteps
      <4> QED
        BY <4>1, <4>2
    <3>3. BagToSet(net') \subseteq BagToSet(net) \cup news
      <4>1. ASSUME Announce(n, j) PROVE BagToSet(net') \subseteq BagToSet(net) \cup news
        <5>1. net' = Sent(net, news)
          BY <4>1, MineSteps
        <5> HIDE DEF news
        <5> QED
          BY <5>1, SentMail DEF TypeOK
      <4>2. ~Announce(n, j) => UNCHANGED net
        BY <1>11, <2>2, MineSteps
      <4> QED
        BY <4>1, <4>2
    <3>4. \A r \in news : r.type = "blocks"
      BY DEF Blocks
    <3> HIDE DEF news
    <3> QED
      BY <1>1, <3>1, <3>2, <3>3, <3>4 DEF Ended
  <2> QED
    BY <2>1, <2>2
<1>12. ASSUME UNCHANGED vars PROVE Kept'
  BY <1>1, <1>12 DEF vars, Ended
<1>13. IsABag(net)
  BY DEF TypeOK
<1> QED
  BY <1>2, <1>3, <1>4, <1>6, <1>7, <1>8, <1>9, <1>10, <1>11, <1>12, <1>13, StopsBy
  DEF Next, Deliver, Mine

(* Nobody is sent, and so nobody pools, the empty transaction in the first  *)
(* run of the seed: what it has announced it still has.                     *)
THEOREM AnsweredInFullAlways == Spec => []AnsweredInFull
<1>1. Init => Down /\ AnswerInv
  <2>1. BagToSet(EmptyBag) = {}
    BY BagEmpty
  <2> QED
    BY <2>1 DEF Init, Down, AnswerInv
<1>2. AnswerInv => AnsweredInFull
  BY DEF AnswerInv, AnsweredInFull
<1> QED
  BY <1>1, <1>2, TypeInit, TypeStep, DownStep, AnswerStep, PTL DEF Spec
-----------------------------------------------------------------------------
(* Chains and what they pack. *)
LEMMA PackedAppend ==
  ASSUME NEW c \in Chain, NEW txs \in SUBSET Id
  PROVE  Append(c, txs) \in Chain /\ Packed(Append(c, txs)) = Packed(c) \cup txs
<1>1. Append(c, txs) \in Seq(SUBSET Id) /\ ToSet(Append(c, txs)) = ToSet(c) \cup {txs}
  BY AppendElements DEF Chain
<1> QED
  BY <1>1 DEF Packed, Chain

LEMMA PackedPrefix ==
  ASSUME NEW c \in Chain, NEW d \in Chain, IsPrefix(c, d)
  PROVE  Packed(c) \subseteq Packed(d)
<1>1. /\ Len(c) <= Len(d) /\ SubSeq(c, 1, Len(c)) = SubSeq(d, 1, Len(c))
      /\ Len(c) \in Nat /\ Len(d) \in Nat
  BY DEF IsPrefix, Chain
<1>2. \A i \in 1 .. Len(c) : c[i] = d[i]
  <2>1. \A i \in 1 .. Len(c) : SubSeq(c, 1, Len(c))[i] = c[i]
    BY <1>1 DEF Chain
  <2>2. \A i \in 1 .. Len(c) : SubSeq(d, 1, Len(c))[i] = d[i]
    BY <1>1 DEF Chain
  <2> QED
    BY <1>1, <2>1, <2>2
<1>3. DOMAIN c = 1 .. Len(c) /\ DOMAIN d = 1 .. Len(d)
  BY DEF Chain
<1>4. ToSet(c) \subseteq ToSet(d)
  BY <1>1, <1>2, <1>3 DEF ToSet
<1> QED
  BY <1>4 DEF Packed

-----------------------------------------------------------------------------
(* What is pooled is not lost. *)
LEMMA DisturbedStays == TypeOK /\ [Next]_vars => disturbed \subseteq disturbed'
<1> SUFFICES ASSUME TypeOK, [Next]_vars PROVE disturbed \subseteq disturbed'
  OBVIOUS
<1>1. ASSUME NEW n \in Node, Start(n) \/ Kill(n) \/ MapRace(n) PROVE disturbed \subseteq disturbed'
  BY <1>1 DEF Start, Kill, MapRace, Stops
<1>2. ASSUME NEW m \in BagToSet(net), HandleVersion(m) \/ HandleBlocks(m) \/ HandleInv(m)
                                       \/ HandleGetData(m)
      PROVE  disturbed \subseteq disturbed'
  BY <1>2 DEF HandleVersion, HandleBlocks, HandleInv, HandleGetData
<1>3. ASSUME NEW m \in BagToSet(net), HandleTx(m) PROVE disturbed \subseteq disturbed'
  BY <1>3, HandleTxSteps DEF Pools, Stops
<1>4. ASSUME NEW n \in Miner, NEW j \in Job,
             Select(n, j) \/ BeginBlock(n, j) \/ Seal(n, j) \/ Clear(n, j) \/ Announce(n, j)
      PROVE  disturbed \subseteq disturbed'
  BY <1>4, MineSteps DEF Stops
<1> QED
  BY <1>1, <1>2, <1>3, <1>4 DEF Next, Deliver, Mine, Submit, vars

LEMMA LossStep == TypeOK /\ LossInv /\ [Next]_vars => LossInv'
<1> DEFINE Kept(n) ==
        /\ OneHolds(n)
        /\ received[n] \ Bad \subseteq pool[n] \cup Packed(chain[n])
        /\ \A j \in Job :
            /\ job[n][j].pc = "mine" =>
                received[n] \ Bad \subseteq pool[n] \cup Packed(job[n][j].parent)
            /\ job[n][j].pc = "sealed" => job[n][j].txs \subseteq Packed(chain[n])
            /\ Holds(n, j) => job[n][j].txs \subseteq pool[n]
<1> SUFFICES ASSUME TypeOK, LossInv, [Next]_vars, NEW n \in Miner, n \notin disturbed'
             PROVE  Kept(n)'
  BY Zenon DEF LossInv
<1>0. /\ n \in Node /\ n # Seed /\ n \notin disturbed
      /\ Idle.pc = "idle" /\ Selecting.pc = "select"
      /\ chain[n] \in Chain
      /\ \A j \in Job : job[n][j] \in JobType
  <2>1. n \in Node /\ n # Seed /\ n \notin disturbed
    BY DisturbedStays, NodesAssumption DEF Node
  <2> QED
    BY <2>1, TypeParts DEF Idle, Selecting
<1>1. /\ OneHolds(n)
      /\ received[n] \ Bad \subseteq pool[n] \cup Packed(chain[n])
      /\ \A j \in Job :
          /\ job[n][j].pc = "mine" =>
              received[n] \ Bad \subseteq pool[n] \cup Packed(job[n][j].parent)
          /\ job[n][j].pc = "sealed" => job[n][j].txs \subseteq Packed(chain[n])
          /\ Holds(n, j) => job[n][j].txs \subseteq pool[n]
  BY <1>0 DEF LossInv
(* A step that leaves the jobs alone, and takes nothing away. *)
<1>2. ASSUME \A j \in Job : job'[n][j] = job[n][j], pool[n] \subseteq pool'[n],
             received'[n] \ received[n] \subseteq pool'[n],
             Packed(chain[n]) \subseteq Packed(chain'[n])
      PROVE  Kept(n)'
  BY <1>1, <1>2 DEF OneHolds, Holds
<1>3. ASSUME NEW k \in Node, NEW mail, Stops(k, mail) PROVE Kept(n)'
  <2>1. CASE k = n
    BY <1>0, <1>3, <2>1, Stopped DEF OneHolds, Holds
  <2>2. CASE k # n
    BY <1>0, <1>2, <1>3, <2>2, Stopped
  <2> QED
    BY <2>1, <2>2
<1>4. ASSUME UNCHANGED <<pool, chain, job, received>> PROVE Kept(n)'
  BY <1>2, <1>4
<1>5. ASSUME NEW m \in BagToSet(net), HandleBlocks(m) PROVE Kept(n)'
  <2>1. /\ m \in Message /\ m.type = "blocks" /\ UNCHANGED <<pool, job, received>>
        /\ \/ UNCHANGED chain
           \/ /\ chain' = [chain EXCEPT ![m.to] = m.chain]
              /\ m.to = n => IsPrefix(chain[n], m.chain)
    BY <1>5 DEF HandleBlocks, TypeOK
  <2>2. m.chain \in Chain
    BY <2>1, MessageFields
  <2>3. Packed(chain[n]) \subseteq Packed(chain'[n])
    BY <1>0, <2>1, <2>2, PackedPrefix DEF TypeOK
  <2> QED
    BY <1>2, <2>1, <2>3
<1>6. ASSUME NEW m \in BagToSet(net), HandleTx(m) PROVE Kept(n)'
  <2>0. m.to \in Node
    BY MessageFields DEF TypeOK
  <2>1. CASE Pools(m)
    <3>1. /\ pool[n] \subseteq pool'[n] /\ received'[n] \ received[n] \subseteq pool'[n]
          /\ chain' = chain
      BY <1>0, <2>0, <2>1 DEF Pools, TypeOK
    <3>2. \/ \A j \in Job : job'[n][j] = job[n][j]
          \/ /\ m.to = n
             /\ \E j \in Job : job'[n][j] = Selecting /\ OnlyJob(n, j)
          \/ Stops(m.to, Received(m))
      BY <1>0, <1>6, <2>0, HandleTxSteps, HandleTxOthers
    <3>3. ASSUME NEW j \in Job, job'[n][j] = Selecting, OnlyJob(n, j) PROVE Kept(n)'
      BY <1>0, <1>1, <3>1, <3>3 DEF OneHolds, Holds, OnlyJob
    <3> QED
      BY <1>2, <1>3, <2>0, <3>1, <3>2, <3>3
  <2> QED
    BY <1>3, <1>6, <2>0, <2>1, HandleTxSteps
<1>7. ASSUME NEW k \in Miner, NEW j \in Job,
             Select(k, j) \/ BeginBlock(k, j) \/ Seal(k, j) \/ Clear(k, j) \/ Announce(k, j)
      PROVE  Kept(n)'
  <2>0. k \in Node
    BY DEF Node
  <2>1. CASE Stops(k, net)
    BY <1>3, <2>0, <2>1
  <2>2. CASE ~Stops(k, net) /\ k # n
    <3>1. OnlyJob(k, j) /\ UNCHANGED received
      BY <1>7, <2>2, MineSteps
    <3>2. pool'[n] = pool[n]
      <4>1. ASSUME Clear(k, j) PROVE pool'[n] = pool[n]
        BY <1>0, <2>0, <2>2, <4>1 DEF Clear, TypeOK
      <4>2. ~Clear(k, j) => UNCHANGED pool
        BY <1>7, <2>2, MineSteps
      <4> QED
        BY <4>1, <4>2
    <3>3. chain'[n] = chain[n]
      <4>1. ASSUME Seal(k, j) PROVE chain'[n] = chain[n]
        BY <1>0, <2>0, <2>2, <4>1 DEF Seal, TypeOK
      <4>2. ~Seal(k, j) => UNCHANGED chain
        BY <1>7, <2>2, MineSteps
      <4> QED
        BY <4>1, <4>2
    <3>4. \A i \in Job : job'[n][i] = job[n][i]
      BY <1>0, <2>2, <3>1 DEF OnlyJob
    <3> QED
      BY <1>2, <3>1, <3>2, <3>3, <3>4
  <2>3. CASE ~Stops(k, net) /\ k = n
    <3>0. OnlyJob(n, j) => \A i \in Job \ {j} : job'[n][i] = job[n][i]
      BY <1>0 DEF OnlyJob
    <3>1. CASE Select(n, j)
      <4>1. /\ \A i \in Job \ {j} : job'[n][i] = job[n][i]
            /\ job'[n][j] \in {Idle, [job[n][j] EXCEPT !.pc = "selected", !.txs = Valid(n)]}
            /\ \A i \in Job : ~Holds(n, i)
            /\ UNCHANGED <<pool, chain, received>>
        BY <2>3, <3>0, <3>1, MineSteps
      <4>2. \/ job'[n][j].pc = "idle"
            \/ job'[n][j].pc = "selected" /\ job'[n][j].txs = Valid(n)
        BY <1>0, <4>1 DEF JobType
      <4> QED
        BY <1>1, <4>1, <4>2 DEF OneHolds, Holds, Valid
    <3>2. CASE BeginBlock(n, j)
      <4>1. /\ \A i \in Job \ {j} : job'[n][i] = job[n][i]
            /\ job'[n][j] = [job[n][j] EXCEPT !.pc = "mine", !.parent = chain[n]]
            /\ job[n][j].pc = "selected"
            /\ UNCHANGED <<pool, chain, received>>
        BY <2>3, <3>0, <3>2, MineSteps
      <4>2. job'[n][j].pc = "mine" /\ job'[n][j].parent = chain[n] /\ job'[n][j].txs = job[n][j].txs
        BY <1>0, <4>1 DEF JobType
      <4>3. OneHolds(n)'
        BY <1>1, <4>1, <4>2 DEF OneHolds, Holds
      <4>4. ASSUME NEW i \in Job
            PROVE  /\ job'[n][i].pc = "mine" =>
                       received'[n] \ Bad \subseteq pool'[n] \cup Packed(job'[n][i].parent)
                   /\ job'[n][i].pc = "sealed" => job'[n][i].txs \subseteq Packed(chain'[n])
                   /\ Holds(n, i)' => job'[n][i].txs \subseteq pool'[n]
        <5>1. CASE i = j
          BY <1>1, <4>1, <4>2, <5>1 DEF Holds
        <5>2. CASE i # j
          BY <1>1, <4>1, <5>2 DEF Holds
        <5> QED
          BY <5>1, <5>2
      <4> QED
        BY <1>1, <4>1, <4>3, <4>4
    <3>3. CASE Seal(n, j)
      <4>1. /\ \A i \in Job \ {j} : job'[n][i] = job[n][i]
            /\ job'[n][j] = [job[n][j] EXCEPT !.pc = "sealed"]
            /\ job[n][j].pc = "mine"
            /\ chain'[n] = Append(job[n][j].parent, job[n][j].txs)
            /\ UNCHANGED <<pool, received>>
        BY <1>0, <2>3, <3>0, <3>3, MineSteps, ZenonT(40) DEF TypeOK
      <4>2. job'[n][j].pc = "sealed" /\ job'[n][j].txs = job[n][j].txs
        BY <1>0, <4>1 DEF JobType
      <4>3. Packed(chain'[n]) = Packed(job[n][j].parent) \cup job[n][j].txs
        <5>1. job[n][j].parent \in Chain /\ job[n][j].txs \in SUBSET Id
          BY <1>0 DEF JobType, Ids, Id
        <5> QED
          BY <4>1, <5>1, PackedAppend
      <4>4. \A i \in Job \ {j} : ~Holds(n, i)
        BY <1>1, <4>1 DEF OneHolds, Holds
      <4> QED
        BY <1>1, <4>1, <4>2, <4>3, <4>4, ZenonT(40) DEF OneHolds, Holds
    <3>4. CASE Clear(n, j)
      <4>1. /\ \A i \in Job \ {j} : job'[n][i] = job[n][i]
            /\ job'[n][j] = [job[n][j] EXCEPT !.pc = "announce"]
            /\ job[n][j].pc = "sealed"
            /\ pool'[n] = pool[n] \ job[n][j].txs
            /\ UNCHANGED <<chain, received>>
        <5>1. /\ OnlyJob(n, j) /\ job'[n][j] = [job[n][j] EXCEPT !.pc = "announce"]
              /\ job[n][j].pc = "sealed"
              /\ pool' = [pool EXCEPT ![n] = pool[n] \ job[n][j].txs]
              /\ UNCHANGED <<chain, received>>
          BY <2>3, <3>4, MineSteps
        <5>2. pool'[n] = pool[n] \ job[n][j].txs
          BY <1>0, <5>1 DEF TypeOK
        <5> QED
          BY <3>0, <5>1, <5>2
      <4>2. job'[n][j].pc = "announce"
        BY <1>0, <4>1 DEF JobType
      <4>3. job[n][j].txs \subseteq Packed(chain[n])
        BY <1>1, <4>1
      <4>4. \A i \in Job \ {j} : ~Holds(n, i)
        BY <1>1, <4>1 DEF OneHolds, Holds
      <4> QED
        BY <1>1, <4>1, <4>2, <4>3, <4>4 DEF OneHolds, Holds
    <3>5. CASE Announce(n, j)
      <4>1. /\ \A i \in Job \ {j} : job'[n][i] = job[n][i]
            /\ job'[n][j] \in {Idle, Selecting}
            /\ UNCHANGED <<pool, chain, received>>
        BY <2>3, <3>0, <3>5, MineSteps
      <4> QED
        BY <1>0, <1>1, <4>1 DEF OneHolds, Holds
    <3> QED
      BY <1>7, <2>3, <3>1, <3>2, <3>3, <3>4, <3>5
  <2> QED
    BY <2>1, <2>2, <2>3
<1>8. ASSUME \/ \E k \in Node : Start(k)
             \/ \E t \in Tx : Submit(t)
             \/ \E m \in BagToSet(net) : HandleVersion(m) \/ HandleInv(m) \/ HandleGetData(m)
             \/ UNCHANGED vars
      PROVE  Kept(n)'
  <2>1. UNCHANGED <<pool, chain, job, received>>
    BY <1>8 DEF Start, Submit, HandleVersion, HandleInv, HandleGetData, vars
  <2> HIDE DEF Kept
  <2> QED
    BY <1>4, <2>1
<1> HIDE DEF Kept
<1> QED
  BY <1>3, <1>5, <1>6, <1>7, <1>8, StopsBy DEF Next, Deliver, Mine

(* What a miner has pooled stays pooled until it is on the miner's chain,   *)
(* as long as no two calls of MineTx held selections at once and no chain   *)
(* that lacks blocks of the miner's replaced it.                            *)
THEOREM NothingLostAlways == Spec => []NothingLost
<1>1. Init => LossInv
  BY DEF Init, LossInv, OneHolds, Holds, Idle, Node
<1>2. LossInv => NothingLost
  BY DEF LossInv, NothingLost
<1> QED
  BY <1>1, <1>2, TypeInit, TypeStep, LossStep, PTL DEF Spec
-----------------------------------------------------------------------------
(* The messages that lead to the pooling of a transaction. *)
LEMMA LoneReceived ==
  ASSUME TypeOK, NEW m \in BagToSet(net), NEW n, NEW t, Lone(net, n, t)
  PROVE  /\ Lone(Received(m), n, t)
         /\ Leads(m, n, t) => \A r \in BagToSet(Received(m)) : ~Leads(r, n, t)
<1>1. /\ BagToSet(Received(m)) \subseteq BagToSet(net)
      /\ \A r \in BagToSet(Received(m)) : r # m => Received(m)[r] = net[r]
      /\ net[m] = 1 => m \notin BagToSet(Received(m))
  BY BagRemove, BagRemoveCount DEF TypeOK, Received
<1> QED
  BY <1>1 DEF Lone

LEMMA LoneSent ==
  ASSUME NEW mail, IsABag(mail), NEW msgs, NEW n, NEW t, Lone(mail, n, t),
         \/ \A r \in msgs : ~Leads(r, n, t)
         \/ /\ \A r \in BagToSet(mail) : ~Leads(r, n, t)
            /\ \A r, s \in msgs : Leads(r, n, t) /\ Leads(s, n, t) => r = s
  PROVE  Lone(Sent(mail, msgs), n, t)
<1> DEFINE heard == {r \in msgs : r.to \in up}
<1>1. /\ BagToSet(Sent(mail, msgs)) = BagToSet(mail) \cup heard
      /\ \A r \in BagToSet(mail) \cup heard :
            /\ r \notin heard => Sent(mail, msgs)[r] = mail[r]
            /\ r \notin BagToSet(mail) => Sent(mail, msgs)[r] = 1
  <2> HIDE DEF heard
  <2>1. Sent(mail, msgs) = mail (+) SetToBag(heard)
    BY DEF Sent, heard
  <2> QED
    BY <2>1, BagAdd, BagAddCount
<1> QED
  BY <1>1 DEF Lone

(* An answer leads to a pooling to which the message that is answered led. *)
LEMMA LoneAnswer ==
  ASSUME TypeOK, NEW m \in BagToSet(net), NEW msgs, NEW n, NEW t, Lone(net, n, t),
         \A r \in msgs : Leads(r, n, t) => Leads(m, n, t),
         \A r, s \in msgs : Leads(r, n, t) /\ Leads(s, n, t) => r = s,
         net' = Sent(Received(m), msgs)
  PROVE  Lone(net', n, t) /\ (Led(n, t)' => Led(n, t))
<1>1. /\ IsABag(Received(m)) /\ BagToSet(Received(m)) \subseteq BagToSet(net)
      /\ Lone(Received(m), n, t)
      /\ Leads(m, n, t) => \A r \in BagToSet(Received(m)) : ~Leads(r, n, t)
  BY ReceivedMail, LoneReceived
<1>2. Lone(net', n, t)
  BY <1>1, LoneSent
<1>3. BagToSet(net') \subseteq BagToSet(Received(m)) \cup msgs
  BY <1>1, SentMail
<1> QED
  BY <1>1, <1>2, <1>3 DEF Led

LEMMA LoneStops ==
  ASSUME TypeOK, NEW k \in Node, NEW mail, IsABag(mail), NEW n, NEW t, Stops(k, mail),
         Lone(mail, n, t), BagToSet(mail) \subseteq BagToSet(net)
  PROVE  Lone(net', n, t) /\ (Led(n, t)' => Led(n, t))
<1>1. /\ BagToSet(net') \subseteq BagToSet(mail)
      /\ \A r \in BagToSet(net') : net'[r] = mail[r]
  BY DEF Stops, BagToSet
<1> QED
  BY <1>1 DEF Lone, Led

LEMMA SendsStep ==
  ASSUME TypeOK, [Next]_vars
  PROVE  \A t \in Tx : \/ sends'[t] = sends[t]
                       \/ sends'[t] = sends[t] + 1 /\ Submit(t)
<1>1. ASSUME NEW n \in Node, Start(n) \/ Kill(n) \/ MapRace(n) PROVE UNCHANGED sends
  BY <1>1 DEF Start, Kill, MapRace, Stops
<1>2. ASSUME NEW m \in BagToSet(net), HandleVersion(m) \/ HandleBlocks(m) \/ HandleInv(m)
                                       \/ HandleGetData(m)
      PROVE  UNCHANGED sends
  BY <1>2 DEF HandleVersion, HandleBlocks, HandleInv, HandleGetData
<1>3. ASSUME NEW m \in BagToSet(net), HandleTx(m) PROVE UNCHANGED sends
  BY <1>3, HandleTxSteps DEF Pools, Stops
<1>4. ASSUME NEW n \in Miner, NEW j \in Job,
             Select(n, j) \/ BeginBlock(n, j) \/ Seal(n, j) \/ Clear(n, j) \/ Announce(n, j)
      PROVE  UNCHANGED sends
  BY <1>4, MineSteps DEF Stops
<1>5. ASSUME NEW s \in Tx, Submit(s)
      PROVE  \A t \in Tx : \/ sends'[t] = sends[t]
                           \/ sends'[t] = sends[t] + 1 /\ Submit(t)
  <2>1. sends' = [sends EXCEPT ![s] = @ + 1]
    BY <1>5 DEF Submit
  <2>2. \A t \in Tx : t # s => sends'[t] = sends[t]
    BY <2>1 DEF TypeOK
  <2>3. sends'[s] = sends[s] + 1
    BY <2>1 DEF TypeOK
  <2> QED
    BY <1>5, <2>2, <2>3
<1>6. ASSUME UNCHANGED vars PROVE UNCHANGED sends
  BY <1>6 DEF vars
<1> QED
  BY <1>1, <1>2, <1>3, <1>4, <1>5, <1>6 DEF Next, Deliver, Mine

(* A transaction submitted once is on one way to a miner at a time, and    *)
(* what is on its way now was on its way before.                           *)
LEMMA LeadsStep ==
  ASSUME TypeOK, OneLeads, Unsent, [Next]_vars, NEW n \in Miner, NEW t \in Tx, sends'[t] <= 1
  PROVE  Lone(net', n, t) /\ (Led(n, t)' => Led(n, t) \/ sends[t] = 0)
<1> DEFINE Good == Lone(net', n, t) /\ (Led(n, t)' => Led(n, t) \/ sends[t] = 0)
<1>0. /\ n \in Node /\ n # Seed /\ Client # Seed /\ n # Client /\ Seed \notin Miner /\ t # Empty
      /\ IsABag(net) /\ sends[t] \in Nat
  BY NodesAssumption, TxAssumption DEF Node, TypeOK
<1>1. sends[t] <= 1 /\ Lone(net, n, t)
  BY <1>0, SendsStep DEF OneLeads
<1>2. ASSUME NEW k \in Node, NEW mail, IsABag(mail), Stops(k, mail),
             mail = net \/ \E m \in BagToSet(net) : mail = Received(m)
      PROVE  Good
  BY <1>0, <1>1, <1>2, LoneReceived, ReceivedMail, LoneStops
<1>3. ASSUME NEW msgs, net' = Sent(net, msgs), \A r \in msgs : ~Leads(r, n, t) PROVE Good
  <2>1. Lone(net', n, t) /\ BagToSet(net') \subseteq BagToSet(net) \cup msgs
    BY <1>0, <1>1, <1>3, LoneSent, SentMail
  <2> QED
    BY <1>3, <2>1 DEF Led
<1>4. ASSUME NEW m \in BagToSet(net), net' = Received(m) PROVE Good
  BY <1>1, <1>4, LoneReceived, ReceivedMail DEF Led
<1>5. ASSUME NEW k \in Node, Start(k) PROVE Good
  <2> DEFINE hello == IF k = Seed THEN {} ELSE {Version(k, Seed)}
  <2>1. \A r \in hello : ~Leads(r, n, t)
    BY DEF Version, Leads
  <2>2. net' = Sent(net, hello)
    BY <1>5 DEF Start
  <2> HIDE DEF hello
  <2> QED
    BY <1>3, <2>1, <2>2
<1>6. ASSUME NEW s \in Tx, Submit(s) PROVE Good
  <2>1. net' = Sent(net, {TxMsg(Client, Seed, s)}) /\ sends' = [sends EXCEPT ![s] = @ + 1]
    BY <1>6 DEF Submit
  <2>2. CASE s # t
    <3>1. ~Leads(TxMsg(Client, Seed, s), n, t)
      BY <2>2 DEF Leads, TxMsg
    <3> QED
      BY <1>3, <2>1, <3>1
  <2>3. CASE s = t
    <3>1. sends[t] = 0
      BY <1>0, <2>1, <2>3 DEF TypeOK
    <3>2. \A r \in BagToSet(net) : ~Leads(r, n, t)
      BY <3>1 DEF Unsent, Leads
    <3>3. Lone(net', n, t)
      BY <1>0, <1>1, <2>1, <3>2, LoneSent
    <3> QED
      BY <3>1, <3>3
  <2> QED
    BY <2>2, <2>3
<1>7. ASSUME NEW m \in BagToSet(net), HandleVersion(m) PROVE Good
  <2> DEFINE reply == IF Len(chain[m.to]) > Len(m.chain) THEN {Blocks(m.to, m.from, chain[m.to])}
                      ELSE IF Len(chain[m.to]) < Len(m.chain) THEN {Blocks(m.from, m.to, m.chain)}
                      ELSE {}
  <2>1. net' = Sent(Received(m), reply)
    BY <1>7 DEF HandleVersion
  <2>2. \A r \in reply : ~Leads(r, n, t)
    BY DEF Blocks, Leads
  <2> HIDE DEF reply
  <2> QED
    BY <1>1, <2>1, <2>2, LoneAnswer
<1>8. ASSUME NEW m \in BagToSet(net), HandleBlocks(m) PROVE Good
  BY <1>4, <1>8 DEF HandleBlocks
<1>9. ASSUME NEW m \in BagToSet(net), HandleInv(m) PROVE Good
  <2> DEFINE request == IF m.tx \in pool[m.to] \ {Empty} THEN {} ELSE {GetData(m.to, m.from, m.tx)}
  <2>0. m.type = "inv" /\ m.from = Seed /\ m.to \in Miner
    BY <1>9, MessageFields DEF HandleInv, TypeOK
  <2>1. net' = Sent(Received(m), request)
    BY <1>9 DEF HandleInv
  <2>2. \A r \in request : r = GetData(m.to, m.from, m.tx)
    OBVIOUS
  <2>3. Leads(GetData(m.to, m.from, m.tx), n, t) => Leads(m, n, t)
    BY <1>0, <2>0, NodesAssumption DEF Leads, GetData, Node
  <2> HIDE DEF request
  <2> QED
    BY <1>1, <2>1, <2>2, <2>3, LoneAnswer
<1>10. ASSUME NEW m \in BagToSet(net), HandleGetData(m) PROVE Good
  <2> DEFINE answer == TxMsg(m.to, m.from, IF m.tx \in pool[m.to] THEN m.tx ELSE Empty)
  <2>0. m.type = "getdata" /\ m.to = Seed /\ m.from \in Miner
    BY <1>10, MessageFields DEF HandleGetData, TypeOK
  <2>1. net' = Sent(Received(m), {answer})
    BY <1>10 DEF HandleGetData
  <2>3. Leads(answer, n, t) => Leads(m, n, t)
    BY <1>0, <2>0 DEF Leads, TxMsg
  <2> HIDE DEF answer
  <2> QED
    BY <1>1, <2>1, <2>3, LoneAnswer
<1>11. ASSUME NEW m \in BagToSet(net), HandleTx(m) PROVE Good
  <2> DEFINE news == {Inv(Seed, p, m.tx) : p \in peers[Seed] \ {m.from}}
  <2>0. m \in Message /\ m.type = "tx" /\ m.to \in Node
    BY <1>11, MessageFields DEF HandleTx, TypeOK
  <2>1. CASE m.to = Seed /\ net' = Sent(Received(m), news)
    <3>1. m.from = Client
      BY <1>0, <2>0, <2>1, MessageFields
    <3>2. \A p \in Node : Leads(Inv(Seed, p, m.tx), n, t) => p = n /\ Leads(m, n, t)
      BY <1>0, <2>0, <3>1 DEF Leads, Inv
    <3>3. \A r \in news : \E p \in Node : r = Inv(Seed, p, m.tx)
      BY <1>0 DEF TypeOK, Node
    <3> HIDE DEF news
    <3>4. \A r \in news : Leads(r, n, t) => r = Inv(Seed, n, m.tx) /\ Leads(m, n, t)
      BY <3>2, <3>3
    <3> QED
      BY <1>1, <2>1, <3>4, LoneAnswer
  <2>2. CASE net' = Received(m)
    BY <1>4, <2>2
  <2>3. CASE Stops(m.to, Received(m))
    BY <1>2, <2>0, <2>3, ReceivedMail
  <2> QED
    BY <1>11, <2>1, <2>2, <2>3, HandleTxSteps
<1>12. ASSUME NEW k \in Miner, NEW j \in Job,
              Select(k, j) \/ BeginBlock(k, j) \/ Seal(k, j) \/ Clear(k, j) \/ Announce(k, j)
       PROVE  Good
  <2> DEFINE news == {Blocks(k, p, Append(job[k][j].parent, job[k][j].txs)) : p \in peers[k]}
  <2>0. k \in Node
    BY DEF Node
  <2>1. CASE Stops(k, net)
    BY <1>0, <1>2, <2>0, <2>1
  <2>2. CASE Announce(k, j)
    <3>1. net' = Sent(net, news)
      BY <2>2, MineSteps
    <3>2. \A r \in news : ~Leads(r, n, t)
      BY DEF Blocks, Leads
    <3> HIDE DEF news
    <3> QED
      BY <1>3, <3>1, <3>2
  <2>3. CASE UNCHANGED net
    BY <1>1, <2>3 DEF Led
  <2> QED
    BY <1>12, <2>1, <2>2, <2>3, MineSteps
<1>13. ASSUME UNCHANGED vars PROVE Good
  BY <1>1, <1>13 DEF vars, Led
<1> HIDE DEF Good
<1>14. Good
  BY <1>0, <1>2, <1>5, <1>6, <1>7, <1>8, <1>9, <1>10, <1>11, <1>12, <1>13, StopsBy
  DEF Next, Deliver, Mine
<1> QED
  BY <1>14 DEF Good
-----------------------------------------------------------------------------
(* What a node sees that it did not see before comes with a message. *)
LEMMA PackedNothing ==
  /\ Packed(<< >>) = {}
  /\ Idle.txs = {} /\ Idle.parent = << >>
  /\ Selecting.txs = {} /\ Selecting.parent = << >>
<1>1. ToSet(<< >>) = {}
  BY DEF ToSet
<1>2. Idle.txs = {} /\ Idle.parent = << >>
  BY DEF Idle
<1>3. Selecting.txs = Idle.txs /\ Selecting.parent = Idle.parent
  BY DEF Idle, Selecting
<1> QED
  BY <1>1, <1>2, <1>3 DEF Packed

LEMMA SeesStep ==
  ASSUME TypeOK, [Next]_vars, NEW n \in Node, NEW t, Sees(n, t)', ~Sees(n, t)
  PROVE  \E m \in BagToSet(net) :
            /\ m.to = n
            /\ \/ HandleTx(m) /\ Pools(m) /\ t = m.tx
               \/ HandleBlocks(m) /\ Len(m.chain) > Len(chain[n]) /\ t \in Packed(m.chain)
<1> DEFINE Comes == \E m \in BagToSet(net) :
               /\ m.to = n
               /\ \/ HandleTx(m) /\ Pools(m) /\ t = m.tx
                  \/ HandleBlocks(m) /\ Len(m.chain) > Len(chain[n]) /\ t \in Packed(m.chain)
<1>0. /\ t \notin received[n] /\ t \notin Packed(chain[n]) /\ t \notin pool[n]
      /\ \A j \in Job : t \notin job[n][j].txs /\ t \notin Packed(job[n][j].parent)
  BY DEF Sees, TypeOK
<1>1. \/ t \in received'[n] \/ t \in Packed(chain'[n])
      \/ \E j \in Job : t \in job'[n][j].txs \/ t \in Packed(job'[n][j].parent)
  BY Zenon DEF Sees, Packed
<1>2. ASSUME received'[n] = received[n], chain'[n] = chain[n], NEW i \in Job,
             \A j \in Job : j # i => job'[n][j] = job[n][j],
             job'[n][i].txs \subseteq job[n][i].txs \cup pool[n],
             job'[n][i].parent \in {<< >>, job[n][i].parent, chain[n]}
      PROVE  FALSE
  BY <1>0, <1>1, <1>2, PackedNothing
<1>3. ASSUME received'[n] = received[n], chain'[n] = chain[n],
             \A j \in Job : job'[n][j] = job[n][j]
      PROVE  FALSE
  BY <1>0, <1>1, <1>3
<1>4. ASSUME NEW k \in Node, NEW mail, Stops(k, mail) PROVE FALSE
  <2>1. CASE k = n
    <3>1. received'[n] = {} /\ chain' = chain /\ \A j \in Job : job'[n][j] = Idle
      BY <1>4, <2>1, Stopped
    <3> QED
      BY <1>0, <1>1, <3>1, PackedNothing
  <2>2. CASE k # n
    <3>1. received'[n] = received[n] /\ chain' = chain /\ \A j \in Job : job'[n][j] = job[n][j]
      BY <1>4, <2>2, Stopped
    <3> QED
      BY <1>3, <3>1
  <2> QED
    BY <2>1, <2>2
<1>5. ASSUME \/ \E k \in Node : Start(k)
             \/ \E s \in Tx : Submit(s)
             \/ \E m \in BagToSet(net) : HandleVersion(m) \/ HandleInv(m) \/ HandleGetData(m)
             \/ UNCHANGED vars
      PROVE  FALSE
  <2>1. UNCHANGED <<chain, job, received>>
    BY <1>5 DEF Start, Submit, HandleVersion, HandleInv, HandleGetData, vars
  <2> QED
    BY <1>3, <2>1
<1>6. ASSUME NEW m \in BagToSet(net), HandleBlocks(m) PROVE Comes
  <2>1. m.to \in Node
    BY MessageFields DEF TypeOK
  <2>2. /\ UNCHANGED <<job, received>>
        /\ \/ UNCHANGED chain
           \/ /\ Len(m.chain) > Len(chain[m.to])
              /\ chain' = [chain EXCEPT ![m.to] = m.chain]
    BY <1>6 DEF HandleBlocks
  <2>3. chain'[n] # chain[n]
    BY <1>3, <2>2
  <2>4. m.to = n /\ chain'[n] = m.chain /\ Len(m.chain) > Len(chain[n])
    BY <2>1, <2>2, <2>3 DEF TypeOK
  <2>5. t \in Packed(m.chain)
    BY <1>0, <1>1, <2>2, <2>4
  <2> QED
    BY <1>6, <2>4, <2>5
<1>7. ASSUME NEW m \in BagToSet(net), HandleTx(m) PROVE Comes
  <2>0. m.to \in Node
    BY MessageFields DEF TypeOK
  <2>1. CASE Pools(m)
    <3>1. chain' = chain /\ (m.to # n => received'[n] = received[n])
      BY <2>0, <2>1 DEF Pools, TypeOK
    <3>2. m.to = n
      BY <1>3, <1>7, <2>0, <3>1, HandleTxOthers
    <3>3. received'[n] = received[n] \cup {m.tx}
      BY <2>1, <3>2 DEF Pools, TypeOK
    <3>4. \A j \in Job : job'[n][j] = job[n][j] \/ job'[n][j] = Selecting
      BY <1>4, <1>7, <2>0, <3>2, HandleTxSteps DEF OnlyJob
    <3>5. t = m.tx
      BY <1>0, <1>1, <3>1, <3>3, <3>4, PackedNothing
    <3> QED
      BY <1>7, <2>1, <3>2, <3>5
  <2> QED
    BY <1>4, <1>7, <2>0, <2>1, HandleTxSteps
<1>8. ASSUME NEW k \in Miner, NEW j \in Job,
             Select(k, j) \/ BeginBlock(k, j) \/ Seal(k, j) \/ Clear(k, j) \/ Announce(k, j)
      PROVE  FALSE
  <2>0. k \in Node
    BY DEF Node
  <2>1. CASE Stops(k, net)
    BY <1>4, <2>0, <2>1
  <2>2. CASE ~Stops(k, net) /\ k # n
    <3>1. OnlyJob(k, j) /\ UNCHANGED received
      BY <1>8, <2>2, MineSteps
    <3>2. chain'[n] = chain[n]
      <4>1. ASSUME Seal(k, j) PROVE chain'[n] = chain[n]
        BY <2>0, <2>2, <4>1 DEF Seal, TypeOK
      <4>2. ~Seal(k, j) => UNCHANGED chain
        BY <1>8, <2>2, MineSteps
      <4> QED
        BY <4>1, <4>2
    <3> QED
      BY <1>3, <2>2, <3>1, <3>2 DEF OnlyJob
  <2>3. CASE ~Stops(k, net) /\ k = n
    <3>1. OnlyJob(n, j) /\ received' = received
      BY <1>8, <2>3, MineSteps
    <3>2. \A i \in Job : i # j => job'[n][i] = job[n][i]
      BY <3>1 DEF OnlyJob
    <3>3. job[n][j] \in JobType
      BY TypeParts
    <3>4. CASE ~Seal(n, j)
      <4>1. UNCHANGED chain
        BY <1>8, <2>3, <3>4, MineSteps
      <4>2. /\ job'[n][j].txs \subseteq job[n][j].txs \cup pool[n]
            /\ job'[n][j].parent \in {<< >>, job[n][j].parent, chain[n]}
        <5>1. CASE Select(n, j)
          <6>1. job'[n][j] \in {Idle, [job[n][j] EXCEPT !.pc = "selected", !.txs = Valid(n)]}
            BY <2>3, <5>1, MineSteps
          <6>2. CASE job'[n][j] = Idle
            BY <6>2, PackedNothing
          <6>3. CASE job'[n][j] = [job[n][j] EXCEPT !.pc = "selected", !.txs = Valid(n)]
            <7>1. job'[n][j].txs = Valid(n) /\ job'[n][j].parent = job[n][j].parent
              BY <3>3, <6>3 DEF JobType
            <7>2. Valid(n) \subseteq pool[n]
              BY DEF Valid
            <7> QED
              BY <7>1, <7>2
          <6> QED
            BY <6>1, <6>2, <6>3
        <5>2. CASE BeginBlock(n, j)
          <6>1. job'[n][j] = [job[n][j] EXCEPT !.pc = "mine", !.parent = chain[n]]
            BY <2>3, <5>2, MineSteps
          <6> QED
            BY <3>3, <6>1 DEF JobType
        <5>3. CASE Clear(n, j)
          <6>1. job'[n][j] = [job[n][j] EXCEPT !.pc = "announce"]
            BY <2>3, <5>3, MineSteps
          <6> QED
            BY <3>3, <6>1 DEF JobType
        <5>4. CASE Announce(n, j)
          <6>1. job'[n][j] \in {Idle, Selecting}
            BY <2>3, <5>4, MineSteps
          <6> QED
            BY <6>1, PackedNothing
        <5> QED
          BY <1>8, <2>3, <3>4, <5>1, <5>2, <5>3, <5>4
      <4> QED
        BY <1>2, <3>1, <3>2, <4>1, <4>2
    <3>5. CASE Seal(n, j)
      <4>1. /\ job'[n][j] = [job[n][j] EXCEPT !.pc = "sealed"]
            /\ chain'[n] = Append(job[n][j].parent, job[n][j].txs)
        BY <2>3, <3>5, MineSteps DEF TypeOK
      <4>2. Packed(chain'[n]) = Packed(job[n][j].parent) \cup job[n][j].txs
        <5>1. job[n][j].parent \in Chain /\ job[n][j].txs \in SUBSET Id
          BY <3>3 DEF JobType, Ids, Id
        <5> QED
          BY <4>1, <5>1, PackedAppend
      <4>3. job'[n][j].txs = job[n][j].txs /\ job'[n][j].parent = job[n][j].parent
        BY <3>3, <4>1 DEF JobType
      <4> QED
        BY <1>0, <1>1, <3>1, <3>2, <4>2, <4>3
    <3> QED
      BY <3>4, <3>5
  <2> QED
    BY <2>1, <2>2, <2>3
<1> HIDE DEF Comes
<1>9. Comes
  BY <1>4, <1>5, <1>6, <1>7, <1>8, StopsBy DEF Next, Deliver, Mine
<1> QED
  BY <1>9 DEF Comes
-----------------------------------------------------------------------------
(* What was not submitted is nowhere. *)
LEMMA UnsentStep == TypeOK /\ Unsent /\ [Next]_vars => Unsent'
<1> DEFINE Lacks(m, t) ==
               IF m.type \in {"tx", "inv", "getdata"} THEN m.tx # t ELSE t \notin Packed(m.chain)
<1> SUFFICES ASSUME TypeOK, Unsent, [Next]_vars, NEW t \in Tx, sends'[t] = 0
             PROVE  /\ \A n \in Node : ~Sees(n, t)'
                    /\ \A m \in BagToSet(net') : Lacks(m, t)
  BY Zenon DEF Unsent
<1>0. /\ \A n \in Node : ~Sees(n, t)
      /\ \A m \in BagToSet(net) : Lacks(m, t)
      /\ t # Empty /\ ~Submit(t) /\ IsABag(net)
  <2>1. sends[t] \in Nat /\ ~Submit(t) /\ sends[t] = 0
    <3>1. sends[t] \in Nat
      BY DEF TypeOK
    <3>2. Submit(t) => sends'[t] = sends[t] + 1
      BY DEF Submit, TypeOK
    <3> QED
      BY <3>1, <3>2, SendsStep
  <2> QED
    BY <2>1, TxAssumption DEF Unsent, TypeOK
<1>1. \A n \in Node : ~Sees(n, t)'
  <2> SUFFICES ASSUME NEW n \in Node, Sees(n, t)' PROVE FALSE
    OBVIOUS
  <2>1. PICK m \in BagToSet(net) :
            \/ HandleTx(m) /\ Pools(m) /\ t = m.tx
            \/ HandleBlocks(m) /\ t \in Packed(m.chain)
    BY <1>0, SeesStep
  <2> QED
    BY <1>0, <2>1 DEF Pools, HandleBlocks
<1>2. ASSUME NEW msgs, \A r \in msgs : Lacks(r, t),
             \/ net' = Sent(net, msgs)
             \/ \E m \in BagToSet(net) : net' = Sent(Received(m), msgs)
      PROVE  \A m \in BagToSet(net') : Lacks(m, t)
  <2>1. BagToSet(net') \subseteq BagToSet(net) \cup msgs
    BY <1>0, <1>2, SentMail, ReceivedMail
  <2> QED
    BY <1>0, <1>2, <2>1
<1>3. ASSUME BagToSet(net') \subseteq BagToSet(net)
      PROVE  \A m \in BagToSet(net') : Lacks(m, t)
  BY <1>0, <1>3
<1>4. ASSUME NEW k, NEW mail, IsABag(mail), BagToSet(mail) \subseteq BagToSet(net), Stops(k, mail)
      PROVE  \A m \in BagToSet(net') : Lacks(m, t)
  BY <1>3, <1>4, StopsMail
<1>5. ASSUME NEW p, NEW q, NEW n \in Node
      PROVE  Lacks(Blocks(p, q, chain[n]), t) /\ Lacks(Version(n, q), t)
  BY <1>0 DEF Blocks, Version, Sees
<1>6. ASSUME NEW k \in Node, Start(k) PROVE \A m \in BagToSet(net') : Lacks(m, t)
  <2> DEFINE hello == IF k = Seed THEN {} ELSE {Version(k, Seed)}
  <2>1. net' = Sent(net, hello)
    BY <1>6 DEF Start
  <2>2. \A r \in hello : Lacks(r, t)
    <3> HIDE DEF Lacks
    <3> QED
      BY <1>5
  <2> HIDE DEF hello, Lacks
  <2> QED
    BY <1>2, <2>1, <2>2
<1>7. ASSUME NEW s \in Tx, Submit(s) PROVE \A m \in BagToSet(net') : Lacks(m, t)
  <2>1. net' = Sent(net, {TxMsg(Client, Seed, s)})
    BY <1>7 DEF Submit
  <2>2. Lacks(TxMsg(Client, Seed, s), t)
    BY <1>0, <1>7 DEF TxMsg
  <2> HIDE DEF Lacks
  <2> QED
    BY <1>2, <2>1, <2>2
<1>8. ASSUME NEW m \in BagToSet(net), HandleVersion(m)
      PROVE  \A r \in BagToSet(net') : Lacks(r, t)
  <2> DEFINE reply == IF Len(chain[m.to]) > Len(m.chain) THEN {Blocks(m.to, m.from, chain[m.to])}
                      ELSE IF Len(chain[m.to]) < Len(m.chain) THEN {Blocks(m.from, m.to, m.chain)}
                      ELSE {}
  <2>0. m.type = "version" /\ m.to \in Node
    BY <1>8, MessageFields DEF HandleVersion, TypeOK
  <2>1. net' = Sent(Received(m), reply)
    BY <1>8 DEF HandleVersion
  <2>2. Lacks(Blocks(m.from, m.to, m.chain), t)
    BY <1>0, <2>0 DEF Blocks
  <2>3. Lacks(Blocks(m.to, m.from, chain[m.to]), t)
    <3> HIDE DEF Lacks
    <3> QED
      BY <1>5, <2>0
  <2>4. \A r \in reply : r \in {Blocks(m.from, m.to, m.chain), Blocks(m.to, m.from, chain[m.to])}
    OBVIOUS
  <2> HIDE DEF reply, Lacks
  <2> QED
    BY <1>2, <2>1, <2>2, <2>3, <2>4
<1>9. ASSUME NEW m \in BagToSet(net), HandleBlocks(m)
      PROVE  \A r \in BagToSet(net') : Lacks(r, t)
  <2> HIDE DEF Lacks
  <2> QED
    BY <1>3, <1>9, ReceivedMail DEF HandleBlocks
<1>10. ASSUME NEW m \in BagToSet(net), HandleInv(m)
       PROVE  \A r \in BagToSet(net') : Lacks(r, t)
  <2> DEFINE request == IF m.tx \in pool[m.to] \ {Empty} THEN {} ELSE {GetData(m.to, m.from, m.tx)}
  <2>1. net' = Sent(Received(m), request) /\ m.type = "inv"
    BY <1>10 DEF HandleInv
  <2>2. Lacks(GetData(m.to, m.from, m.tx), t)
    BY <1>0, <2>1 DEF GetData
  <2>3. \A r \in request : r = GetData(m.to, m.from, m.tx)
    OBVIOUS
  <2> HIDE DEF request, Lacks
  <2> QED
    BY <1>2, <2>1, <2>2, <2>3
<1>11. ASSUME NEW m \in BagToSet(net), HandleGetData(m)
       PROVE  \A r \in BagToSet(net') : Lacks(r, t)
  <2> DEFINE answer == TxMsg(m.to, m.from, IF m.tx \in pool[m.to] THEN m.tx ELSE Empty)
  <2>1. net' = Sent(Received(m), {answer}) /\ m.type = "getdata"
    BY <1>11 DEF HandleGetData
  <2>2. Lacks(answer, t)
    BY <1>0, <2>1 DEF TxMsg
  <2> HIDE DEF answer, Lacks
  <2>3. \A r \in {answer} : Lacks(r, t)
    BY <2>2
  <2>4. \E r \in BagToSet(net) : net' = Sent(Received(r), {answer})
    BY <2>1
  <2> QED
    BY <1>2, <2>3, <2>4
<1>12. ASSUME NEW m \in BagToSet(net), HandleTx(m)
       PROVE  \A r \in BagToSet(net') : Lacks(r, t)
  <2> DEFINE news == {Inv(Seed, p, m.tx) : p \in peers[Seed] \ {m.from}}
  <2>0. m.type = "tx"
    BY <1>12 DEF HandleTx
  <2>1. \A r \in news : Lacks(r, t)
    BY <1>0, <2>0 DEF Inv
  <2>2. \/ net' = Sent(Received(m), news)
        \/ net' = Received(m)
        \/ Stops(m.to, Received(m))
    BY <1>12, HandleTxSteps
  <2> HIDE DEF news, Lacks
  <2> QED
    BY <1>2, <1>3, <1>4, <2>1, <2>2, ReceivedMail
<1>13. ASSUME NEW k \in Miner, NEW j \in Job,
              Select(k, j) \/ BeginBlock(k, j) \/ Seal(k, j) \/ Clear(k, j) \/ Announce(k, j)
       PROVE  \A r \in BagToSet(net') : Lacks(r, t)
  <2> DEFINE block == Append(job[k][j].parent, job[k][j].txs)
             news == {Blocks(k, p, block) : p \in peers[k]}
  <2>0. k \in Node /\ job[k][j] \in JobType
    BY TypeParts DEF Node
  <2>1. t \notin Packed(block)
    <3>1. job[k][j].parent \in Chain /\ job[k][j].txs \in SUBSET Id
      BY <2>0 DEF JobType, Ids, Id
    <3>2. Packed(block) = Packed(job[k][j].parent) \cup job[k][j].txs
      BY <3>1, PackedAppend
    <3> QED
      BY <1>0, <2>0, <3>2 DEF Sees
  <2> HIDE DEF block
  <2>2. \A r \in news : Lacks(r, t)
    BY <2>1 DEF Blocks
  <2>3. Stops(k, net) \/ UNCHANGED net \/ net' = Sent(net, news)
    BY <1>13, MineSteps DEF block
  <2> HIDE DEF news, Lacks
  <2> QED
    BY <1>0, <1>2, <1>3, <1>4, <2>2, <2>3
<1>14. ASSUME UNCHANGED vars PROVE \A m \in BagToSet(net') : Lacks(m, t)
  BY <1>3, <1>14 DEF vars
<1>15. ASSUME NEW n \in Node, Kill(n) \/ MapRace(n) PROVE \A m \in BagToSet(net') : Lacks(m, t)
  <2>1. Stops(n, net)
    BY <1>15, StopsBy
  <2> HIDE DEF Lacks
  <2> QED
    BY <1>0, <1>4, <2>1
<1> HIDE DEF Lacks
<1> QED
  BY <1>1, <1>6, <1>7, <1>8, <1>9, <1>10, <1>11, <1>12, <1>13, <1>14, <1>15
  DEF Next, Deliver, Mine

-----------------------------------------------------------------------------
(* What is on the way to a miner is new to it. *)
LEMMA FreshStep == TypeOK /\ Unsent /\ OneLeads /\ FreshInv /\ [Next]_vars => FreshInv'
<1> SUFFICES ASSUME TypeOK, Unsent, OneLeads, FreshInv, [Next]_vars,
                    NEW n \in Miner, n \notin disturbed', NEW t \in Tx, sends'[t] <= 1,
                    Led(n, t)', Sees(n, t)'
             PROVE  FALSE
  BY Zenon DEF FreshInv
<1>0. n \in Node /\ n \notin disturbed /\ sends[t] \in Nat /\ sends[t] <= 1
  <2>1. n \in Node /\ n \notin disturbed /\ sends[t] \in Nat
    BY DisturbedStays DEF Node, TypeOK
  <2> QED
    BY <2>1, SendsStep
<1>1. Led(n, t) \/ sends[t] = 0
  BY LeadsStep
<1>2. ~Sees(n, t)
  BY <1>0, <1>1 DEF FreshInv, Unsent
<1>3. PICK m \in BagToSet(net) :
          /\ m.to = n
          /\ \/ HandleTx(m) /\ Pools(m) /\ t = m.tx
             \/ HandleBlocks(m) /\ Len(m.chain) > Len(chain[n]) /\ t \in Packed(m.chain)
  BY <1>0, <1>2, SeesStep
<1>4. CASE HandleTx(m) /\ Pools(m) /\ t = m.tx
  <2>1. Lone(net, n, t) /\ Leads(m, n, t)
    BY <1>0, <1>3, <1>4 DEF OneLeads, Leads, Pools
  <2>2. net' = Received(m) \/ Stops(n, Received(m))
    BY <1>3, <1>4, NodesAssumption, HandleTxSteps
  <2>3. BagToSet(net') \subseteq BagToSet(Received(m))
    BY <2>2, ReceivedMail, StopsMail
  <2> QED
    BY <2>1, <2>3, LoneReceived DEF Led
<1>5. CASE HandleBlocks(m) /\ Len(m.chain) > Len(chain[n]) /\ t \in Packed(m.chain)
  <2>1. /\ m.type = "blocks"
        /\ \A r \in OnTheWay(n) : r.tx \notin Packed(m.chain)
    BY <1>3, <1>5 DEF HandleBlocks
  <2>2. sends[t] # 0
    BY <1>5, <2>1 DEF Unsent
  <2>3. PICK r \in BagToSet(net) : Leads(r, n, t)
    BY <1>1, <2>2 DEF Led
  <2>4. r \in OnTheWay(n) /\ r.tx = t
    BY <2>3 DEF OnTheWay, Leads
  <2> QED
    BY <1>5, <2>1, <2>4
<1> QED
  BY <1>3, <1>4, <1>5

LEMMA OneLeadsStep == TypeOK /\ Unsent /\ OneLeads /\ [Next]_vars => OneLeads'
  BY LeadsStep DEF OneLeads
-----------------------------------------------------------------------------
(* What is pooled is not packed again. *)
LEMMA OnceStep == TypeOK /\ LossInv /\ FreshInv /\ OneLeads /\ OnceInv /\ [Next]_vars => OnceInv'
<1> DEFINE Fine(n, t) ==
        /\ t \in Packed(chain[n]) => \E j \in Job : job[n][j].pc = "sealed" /\ t \in job[n][j].txs
        /\ \A j \in Job : job[n][j].pc = "mine" => t \notin Packed(job[n][j].parent)
<1> SUFFICES ASSUME TypeOK, LossInv, FreshInv, OneLeads, OnceInv, [Next]_vars,
                    NEW n \in Miner, n \notin disturbed', NEW t \in Tx, sends'[t] <= 1,
                    t \in pool'[n]
             PROVE  Fine(n, t)'
  BY Zenon DEF OnceInv
<1>0. /\ n \in Node /\ n # Seed /\ n \notin disturbed /\ sends[t] <= 1
      /\ Idle.pc = "idle" /\ Selecting.pc = "select"
      /\ \A j \in Job : job[n][j] \in JobType
      /\ OneHolds(n) /\ \A j \in Job : Holds(n, j) => job[n][j].txs \subseteq pool[n]
  <2>1. n \in Node /\ n # Seed /\ n \notin disturbed /\ sends[t] \in Nat
    BY DisturbedStays, NodesAssumption DEF Node, TypeOK
  <2>2. sends[t] <= 1
    BY <2>1, SendsStep
  <2>3. OneHolds(n) /\ \A j \in Job : Holds(n, j) => job[n][j].txs \subseteq pool[n]
    BY <2>1 DEF LossInv
  <2> QED
    BY <2>1, <2>2, <2>3, TypeParts DEF Idle, Selecting
<1>1. t \in pool[n] => Fine(n, t)
  BY <1>0 DEF OnceInv
<1>2. ASSUME pool'[n] = pool[n], chain'[n] = chain[n],
             \A j \in Job : job'[n][j] = job[n][j]
      PROVE  Fine(n, t)'
  BY <1>1, <1>2
<1>3. ASSUME NEW k \in Node, NEW mail, Stops(k, mail) PROVE Fine(n, t)'
  <2>1. k # n
    BY <1>3, Stopped
  <2> QED
    BY <1>0, <1>2, <1>3, <2>1, Stopped
<1>4. ASSUME \/ \E k \in Node : Start(k)
             \/ \E s \in Tx : Submit(s)
             \/ \E m \in BagToSet(net) : HandleVersion(m) \/ HandleInv(m) \/ HandleGetData(m)
             \/ UNCHANGED vars
      PROVE  Fine(n, t)'
  <2>1. UNCHANGED <<pool, chain, job>>
    BY <1>4 DEF Start, Submit, HandleVersion, HandleInv, HandleGetData, vars
  <2> HIDE DEF Fine
  <2> QED
    BY <1>2, <2>1
<1>5. ASSUME NEW m \in BagToSet(net), HandleBlocks(m) PROVE Fine(n, t)'
  <2>0. m.to \in Node
    BY MessageFields DEF TypeOK
  <2>1. /\ UNCHANGED <<pool, job, received>>
        /\ \/ UNCHANGED chain
           \/ /\ chain' = [chain EXCEPT ![m.to] = m.chain]
              /\ m.to = n => Packed(m.chain) \cap received[n] = {}
    BY <1>5 DEF HandleBlocks
  <2>2. t \in pool[n] /\ t \in received[n]
    BY <1>0, <2>1 DEF TypeOK
  <2>3. CASE /\ m.to = n /\ chain' = [chain EXCEPT ![m.to] = m.chain]
             /\ Packed(m.chain) \cap received[n] = {}
    <3>1. t \notin Packed(chain'[n])
      <4>1. chain'[n] = m.chain
        BY <1>0, <2>3 DEF TypeOK
      <4>2. t \notin Packed(m.chain)
        BY <2>2, <2>3
      <4> QED
        BY <4>1, <4>2, Zenon DEF Packed
    <3> QED
      BY <1>1, <2>1, <2>2, <3>1
  <2>4. CASE chain'[n] = chain[n]
    BY <1>2, <2>1, <2>4
  <2> QED
    BY <1>0, <2>0, <2>1, <2>3, <2>4 DEF TypeOK
<1>6. ASSUME NEW m \in BagToSet(net), HandleTx(m) PROVE Fine(n, t)'
  <2>0. m.to \in Node /\ m.type = "tx"
    BY <1>6, MessageFields DEF HandleTx, TypeOK
  <2>1. CASE m.to # n /\ Pools(m)
    <3>1. pool'[n] = pool[n] /\ chain' = chain
      BY <1>0, <2>0, <2>1 DEF Pools, TypeOK
    <3> QED
      BY <1>0, <1>2, <1>6, <2>0, <2>1, <3>1, HandleTxOthers
  <2>2. CASE m.to = n /\ Pools(m) /\ ~Stops(n, Received(m))
    <3>1. pool'[n] = pool[n] \cup {m.tx} /\ chain' = chain
      BY <1>0, <2>2 DEF Pools, TypeOK
    <3>2. \/ \A j \in Job : job'[n][j] = job[n][j]
          \/ \E i \in Job : /\ job[n][i] = Idle /\ job'[n][i] = Selecting
                           /\ \A j \in Job \ {i} : job'[n][j] = job[n][j]
      BY <1>0, <1>6, <2>2, HandleTxSteps DEF OnlyJob
    <3>3. Fine(n, t)
      <4>1. CASE t \in pool[n]
        BY <1>1, <4>1
      <4>2. CASE t \notin pool[n]
        <5>1. Led(n, t)
          BY <2>0, <2>2, <3>1, <4>2 DEF Led, Leads
        <5> QED
          BY <1>0, <5>1 DEF FreshInv, Sees
      <4> QED
        BY <4>1, <4>2
    <3> QED
      BY <1>0, <3>1, <3>2, <3>3
  <2> QED
    BY <1>0, <1>3, <1>6, <2>0, <2>1, <2>2, HandleTxSteps
<1>7. ASSUME NEW k \in Miner, NEW j \in Job,
             Select(k, j) \/ BeginBlock(k, j) \/ Seal(k, j) \/ Clear(k, j) \/ Announce(k, j)
      PROVE  Fine(n, t)'
  <2>0. k \in Node
    BY DEF Node
  <2>1. CASE Stops(k, net)
    BY <1>3, <2>0, <2>1
  <2>2. CASE ~Stops(k, net) /\ k # n
    <3>1. OnlyJob(k, j)
      BY <1>7, <2>2, MineSteps
    <3>2. pool'[n] = pool[n]
      <4>1. ASSUME Clear(k, j) PROVE pool'[n] = pool[n]
        BY <1>0, <2>0, <2>2, <4>1 DEF Clear, TypeOK
      <4>2. ~Clear(k, j) => UNCHANGED pool
        BY <1>7, <2>2, MineSteps
      <4> QED
        BY <4>1, <4>2
    <3>3. chain'[n] = chain[n]
      <4>1. ASSUME Seal(k, j) PROVE chain'[n] = chain[n]
        BY <1>0, <2>0, <2>2, <4>1 DEF Seal, TypeOK
      <4>2. ~Seal(k, j) => UNCHANGED chain
        BY <1>7, <2>2, MineSteps
      <4> QED
        BY <4>1, <4>2
    <3>4. \A i \in Job : job'[n][i] = job[n][i]
      BY <1>0, <2>2, <3>1 DEF OnlyJob
    <3> QED
      BY <1>2, <3>2, <3>3, <3>4
  <2>3. CASE ~Stops(k, net) /\ k = n
    <3>0. /\ OnlyJob(n, j) => \A i \in Job \ {j} : job'[n][i] = job[n][i]
          /\ job[n][j] \in JobType
      BY <1>0 DEF OnlyJob
    <3>1. CASE Select(n, j)
      <4>1. /\ \A i \in Job \ {j} : job'[n][i] = job[n][i]
            /\ job'[n][j] \in {Idle, [job[n][j] EXCEPT !.pc = "selected", !.txs = Valid(n)]}
            /\ \A i \in Job : ~Holds(n, i)
            /\ UNCHANGED <<pool, chain>>
        BY <2>3, <3>0, <3>1, MineSteps
      <4>2. job'[n][j].pc # "mine"
        BY <1>0, <4>1 DEF JobType
      <4> QED
        BY <1>1, <4>1, <4>2 DEF Holds
    <3>2. CASE BeginBlock(n, j)
      <4>1. /\ \A i \in Job \ {j} : job'[n][i] = job[n][i]
            /\ job'[n][j] = [job[n][j] EXCEPT !.pc = "mine", !.parent = chain[n]]
            /\ job[n][j].pc = "selected"
            /\ UNCHANGED <<pool, chain>>
        BY <2>3, <3>0, <3>2, MineSteps
      <4>2. job'[n][j].pc = "mine" /\ job'[n][j].parent = chain[n]
        BY <3>0, <4>1 DEF JobType
      <4>3. \A i \in Job : job[n][i].pc # "sealed"
        BY <1>0, <4>1 DEF OneHolds, Holds
      <4>4. t \notin Packed(chain[n])
        BY <1>1, <4>1, <4>3
      <4> QED
        BY <1>1, <4>1, <4>2, <4>4
    <3>3. CASE Seal(n, j)
      <4>1. /\ \A i \in Job \ {j} : job'[n][i] = job[n][i]
            /\ job'[n][j] = [job[n][j] EXCEPT !.pc = "sealed"]
            /\ job[n][j].pc = "mine"
            /\ chain'[n] = Append(job[n][j].parent, job[n][j].txs)
            /\ UNCHANGED pool
        BY <1>0, <2>3, <3>0, <3>3, MineSteps, ZenonT(40) DEF TypeOK
      <4>2. job'[n][j].pc = "sealed" /\ job'[n][j].txs = job[n][j].txs
        BY <3>0, <4>1 DEF JobType
      <4>3. Packed(chain'[n]) = Packed(job[n][j].parent) \cup job[n][j].txs
        <5>1. job[n][j].parent \in Chain /\ job[n][j].txs \in SUBSET Id
          BY <3>0 DEF JobType, Ids, Id
        <5> QED
          BY <4>1, <5>1, PackedAppend
      <4> QED
        BY <1>1, <4>1, <4>2, <4>3
    <3>4. CASE Clear(n, j)
      <4>1. /\ \A i \in Job \ {j} : job'[n][i] = job[n][i]
            /\ job'[n][j] = [job[n][j] EXCEPT !.pc = "announce"]
            /\ job[n][j].pc = "sealed" /\ chain' = chain
            /\ pool' = [pool EXCEPT ![n] = pool[n] \ job[n][j].txs]
        BY <2>3, <3>0, <3>4, MineSteps
      <4>2. t \in pool[n] /\ t \notin job[n][j].txs
        BY <1>0, <4>1 DEF TypeOK
      <4>3. job'[n][j].pc = "announce"
        BY <3>0, <4>1 DEF JobType
      <4>4. t \notin Packed(chain[n])
        BY <1>0, <1>1, <4>1, <4>2 DEF OneHolds, Holds
      <4> QED
        BY <1>1, <4>1, <4>2, <4>3, <4>4
    <3>5. CASE Announce(n, j)
      <4>1. /\ \A i \in Job \ {j} : job'[n][i] = job[n][i]
            /\ job'[n][j] \in {Idle, Selecting} /\ job[n][j].pc = "announce"
            /\ UNCHANGED <<pool, chain>>
        BY <2>3, <3>0, <3>5, MineSteps
      <4> QED
        BY <1>0, <1>1, <4>1
    <3> QED
      BY <1>7, <2>3, <3>1, <3>2, <3>3, <3>4, <3>5
  <2> QED
    BY <2>1, <2>2, <2>3
<1> HIDE DEF Fine
<1> QED
  BY <1>3, <1>4, <1>5, <1>6, <1>7, StopsBy DEF Next, Deliver, Mine

(* A miner does not mine a transaction that the chain it extends packs,     *)
(* unless that one was submitted again: a transaction submitted once comes  *)
(* to a miner once, and leaves its pool with the block that packs it.  No   *)
(* claim is made about a miner that took over a chain with what it had      *)
(* pooled or was to receive, or that held two selections at once.           *)
THEOREM PackedOnceAlways == Spec => []PackedOnce
<1>1. Init => LossInv /\ Unsent /\ OneLeads /\ FreshInv /\ OnceInv
  <2> SUFFICES ASSUME Init PROVE LossInv /\ Unsent /\ OneLeads /\ FreshInv /\ OnceInv
    OBVIOUS
  <2>1. BagToSet(net) = {} /\ \A n \in Node, j \in Job : job[n][j] = Idle
    BY BagEmpty DEF Init
  <2>2. LossInv
    BY DEF Init, LossInv, OneHolds, Holds, Idle, Node
  <2>3. OneLeads /\ FreshInv
    BY <2>1 DEF OneLeads, Lone, FreshInv, Led
  <2>4. OnceInv
    BY DEF Init, OnceInv, Node
  <2>5. \A n \in Node : Packed(chain[n]) \subseteq Old
    BY TxAssumption DEF Init, Packed, ToSet
  <2>6. \A n \in Node, t \in Tx : ~Sees(n, t)
    BY <2>1, <2>5, PackedNothing, TxAssumption DEF Sees, Init
  <2> QED
    BY <2>1, <2>2, <2>3, <2>4, <2>6 DEF Unsent
<1>2. TypeOK /\ LossInv /\ OnceInv => PackedOnce
  <2> SUFFICES ASSUME TypeOK, LossInv, OnceInv, NEW n \in Miner \ disturbed, NEW j \in Job,
                      job[n][j].pc = "mine", NEW t \in job[n][j].txs \cap Packed(job[n][j].parent),
                      t # Empty, ~(sends[t] > 1)
               PROVE  FALSE
    BY DEF PackedOnce
  <2>1. job[n][j] \in JobType
    BY TypeParts DEF Node
  <2>2. t \in Tx
    BY <2>1 DEF JobType, Ids
  <2>3. sends[t] <= 1
    BY <2>2 DEF TypeOK
  <2>4. t \in pool[n]
    BY DEF LossInv, Holds
  <2> QED
    BY <2>2, <2>3, <2>4 DEF OnceInv
<1> QED
  BY <1>1, <1>2, TypeInit, TypeStep, LossStep, UnsentStep, OneLeadsStep, FreshStep, OnceStep, PTL
  DEF Spec
=============================================================================
