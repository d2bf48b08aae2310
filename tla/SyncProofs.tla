----------------------------- MODULE SyncProofs -----------------------------
(***************************************************************************)
(* Proofs about the synchronisation of chains, for any number of nodes,    *)
(* chains of any height, kills and restarts.                               *)
(***************************************************************************)
EXTENDS Sync, Lemmas

Initial == UNION {Chain(InitialTip[n]) : n \in Node}

(* Nodes talk to the seed, and the seed to the others.                     *)
Star ==
    /\ \A n \in Node \ {Seed} : ToSet(peers[n]) \subseteq {Seed}
    /\ \A m \in BagToSet(net) : m.from # m.to /\ Seed \in {m.from, m.to}

(* Every block was there at first or is mined; a name is not used twice.   *)
Known ==
    /\ \A n \in Node : stored[n] \subseteq Initial \cup Mined
    /\ \A n \in Node : /\ Height(InitialTip[n]) <= Height(tip[n])
                       /\ mining[n] # NotMining => Height(InitialTip[n]) <= Height(mining[n])
    /\ \A b \in stored[Seed] : Height(b) <= Height(tip[Seed])

(* Who names a block has it.                                               *)
Held ==
    /\ \A m \in BagToSet(net) :
          /\ m.type = "inv" => ToSet(m.items) \subseteq stored[m.from]
          /\ m.type = "block" => m.hash \in stored[m.from]
          /\ m.type = "getdata" /\ m.to = Seed => m.hash \in stored[Seed]
    /\ \A n \in Node \ {Seed} : ToSet(transit[n]) \subseteq stored[Seed]

(* The nodes that have mined.                                              *)
Workers == {Last(b) : b \in Mined}

(* The seed fetches blocks only from the one node that has mined, and the  *)
(* others are not higher than the seed.                                    *)
SeedSide ==
    /\ \A n \in Node \ Workers : Height(tip[n]) <= Height(tip[Seed])
    /\ \A m \in BagToSet(net) : m.to = Seed =>
          /\ m.type \in {"inv", "block"} => m.from \in Workers
          /\ m.type = "version" => m.from \in Workers \/ m.height <= Height(tip[Seed])
    /\ \A m \in BagToSet(net) : m.from = Seed =>
          /\ m.type \in {"getblocks", "getdata"} => m.to \in Workers
          /\ m.type = "getdata" => m.hash \in stored[m.to]
    /\ \A n \in Workers : ToSet(transit[Seed]) \subseteq stored[n]
    /\ Workers = {} => transit[Seed] = << >>

SeedInv == SeedHighest /\ OneMiner => SeedSide

(* Until a block is mined, the seed's chain stays as it is.                *)
SeedStill ==
    SeedHighest /\ Mined = {} =>
        tip[Seed] = InitialTip[Seed] /\ stored[Seed] = Chain(InitialTip[Seed])

Theirs(n) == {m \in BagToSet(net) : n \in {m.from, m.to}}

Began ==
    /\ \A n \in up : starts[n] > 0
    /\ \A m \in BagToSet(net) : starts[m.from] > 0
    /\ \A n \in Node : starts[n] = 0 => stored[n] = Chain(InitialTip[n]) /\ tip[n] = InitialTip[n]

Lone(n) == \A m \in Theirs(n) : net[m] = 1 /\ Theirs(n) = {m}

(* A node in its first run: one message is under way between it and the    *)
(* seed, and what it lacks of the seed's chain is that or in transit.      *)
FirstRun(n) ==
    /\ Lone(n)
    /\ Chain(InitialTip[n]) \subseteq stored[n]
    /\ Chain(tip[n]) \subseteq Chain(InitialTip[Seed]) \cup Chain(InitialTip[n])
    /\ \A m \in Theirs(n) :
          /\ m.type = "inv" => ToSet(m.items) = Chain(InitialTip[Seed])
          /\ m.type \in {"getdata", "block"} =>
                Chain(InitialTip[Seed]) \subseteq stored[n] \cup ToSet(transit[n]) \cup {m.hash}

WalkInv ==
    SeedHighest /\ Mined = {} =>
        /\ \A n \in up \ {Seed} : starts[n] <= 1 => FirstRun(n)
        /\ (\A n \in Node \ {Seed} : starts[n] <= 1) => panicked \subseteq {"MineTx"}

-----------------------------------------------------------------------------
(* Blocks and chains. *)
LEMMA ChainFacts ==
  ASSUME NEW b \in Block
  PROVE  /\ b \in Chain(b) /\ << >> \in Chain(b)
         /\ \A c \in Chain(b) : c \in Block /\ Height(c) <= Height(b) /\ Chain(c) \subseteq Chain(b)
<1>0. Len(b) \in Nat /\ \A i \in 1 .. Len(b) : b[i] \in Node
  BY DEF Block
<1>1. ASSUME NEW k \in 0 .. Len(b)
      PROVE  /\ SubSeq(b, 1, k) \in Seq(Node) /\ Len(SubSeq(b, 1, k)) = k
             /\ \A i \in 1 .. k : SubSeq(b, 1, k)[i] = b[i]
  BY <1>0 DEF Block
<1>2. SubSeq(b, 1, Len(b)) = b
  BY <1>0, <1>1 DEF Block
<1>3. SubSeq(b, 1, 0) = << >>
  BY <1>0, <1>1 DEF Block
<1>4. ASSUME NEW k \in 0 .. Len(b), NEW l \in 0 .. k
      PROVE  SubSeq(SubSeq(b, 1, k), 1, l) = SubSeq(b, 1, l)
  BY <1>0, <1>1 DEF Block
<1>5. Chain(b) = {SubSeq(b, 1, k) : k \in 0 .. Len(b)}
  BY DEF Chain, Prefixes
<1>6. ASSUME NEW c \in Chain(b)
      PROVE  c \in Block /\ Height(c) <= Height(b) /\ Chain(c) \subseteq Chain(b)
  <2>1. PICK k \in 0 .. Len(b) : c = SubSeq(b, 1, k)
    BY <1>5
  <2>2. Chain(c) = {SubSeq(c, 1, l) : l \in 0 .. k}
    BY <1>1, <2>1 DEF Chain, Prefixes
  <2>3. Chain(c) \subseteq {SubSeq(b, 1, l) : l \in 0 .. Len(b)}
    BY <1>0, <1>4, <2>1, <2>2
  <2> QED
    BY <1>0, <1>1, <1>5, <2>1, <2>3 DEF Height, Block
<1>7. Len(b) \in 0 .. Len(b) /\ 0 \in 0 .. Len(b)
  BY <1>0
<1>8. b \in Chain(b) /\ << >> \in Chain(b)
  BY <1>2, <1>3, <1>5, <1>7
<1> QED
  BY <1>6, <1>8

LEMMA HashesFacts ==
  ASSUME NEW b \in Block
  PROVE  /\ GetBlockHashes(b) \in Seq(Block) \ {<< >>}
         /\ ToSet(GetBlockHashes(b)) = Chain(b)
<1>0. Len(b) \in Nat
  BY DEF Block
<1>1. Chain(b) = {SubSeq(b, 1, k) : k \in 0 .. Len(b)} /\ Chain(b) \subseteq Block
  BY ChainFacts DEF Chain, Prefixes
<1>2. \A k \in 1 .. Len(b) + 1 : Len(b) + 1 - k \in 0 .. Len(b)
  BY <1>0
<1>3. \A k \in 1 .. Len(b) + 1 : GetBlockHashes(b)[k] = SubSeq(b, 1, Len(b) + 1 - k)
  BY DEF GetBlockHashes
<1>4. \A k \in 1 .. Len(b) + 1 : GetBlockHashes(b)[k] \in Chain(b)
  BY <1>1, <1>2, <1>3
<1>5. GetBlockHashes(b) \in [1 .. Len(b) + 1 -> Block]
  BY <1>1, <1>2 DEF GetBlockHashes
<1>6. GetBlockHashes(b) \in Seq(Block) /\ DOMAIN GetBlockHashes(b) = 1 .. Len(b) + 1
  BY <1>0, <1>5
<1>7. GetBlockHashes(b) # << >>
  BY <1>0, <1>6
<1>8. ASSUME NEW c \in Chain(b) PROVE c \in ToSet(GetBlockHashes(b))
  <2>1. PICK k \in 0 .. Len(b) : c = SubSeq(b, 1, k)
    BY <1>1
  <2>2. Len(b) + 1 - k \in 1 .. Len(b) + 1 /\ Len(b) + 1 - (Len(b) + 1 - k) = k
    BY <1>0
  <2>3. GetBlockHashes(b)[Len(b) + 1 - k] = c
    BY <1>3, <2>1, <2>2
  <2> QED
    BY <1>6, <2>2, <2>3 DEF ToSet
<1> QED
  BY <1>4, <1>6, <1>7, <1>8 DEF ToSet

LEMMA MinedBlock ==
  ASSUME NEW b \in Block, NEW n \in Node
  PROVE  /\ Append(b, n) \in Block /\ Height(Append(b, n)) = Height(b) + 1
         /\ Last(Append(b, n)) = n /\ Append(b, n) # << >> /\ Height(b) \in Nat
  BY DEF Block, Height, Last

LEMMA InitialBlocks ==
  /\ \A n \in Node : InitialTip[n] \in Block /\ Chain(InitialTip[n]) \subseteq Block
  /\ Initial \subseteq Block /\ << >> \in Initial
<1>1. \A n \in Node : InitialTip[n] \in Block
  BY NodesAssumption
<1>2. \A n \in Node : Chain(InitialTip[n]) \subseteq Block /\ << >> \in Chain(InitialTip[n])
  BY <1>1, ChainFacts
<1> QED
  BY <1>1, <1>2, NodesAssumption DEF Initial

LEMMA MinedOf ==
  ASSUME NEW st, NEW b
  PROVE  b \in (UNION {st[n] \ Chain(InitialTip[n]) : n \in Miner})
                  \ (UNION {Chain(InitialTip[n]) : n \in Node})
         <=> b \notin Initial /\ \E n \in Miner : b \in st[n]
<1>1. \A n \in Miner : Chain(InitialTip[n]) \subseteq Initial
  BY NodesAssumption DEF Initial
<1>2. b \notin Initial => (b \in UNION {st[n] \ Chain(InitialTip[n]) : n \in Miner}
                             <=> \E n \in Miner : b \in st[n])
  BY <1>1
<1> QED
  BY <1>2 DEF Initial

LEMMA MinedIs == \A b : b \in Mined <=> b \notin Initial /\ \E n \in Miner : b \in stored[n]
  BY MinedOf DEF Mined

LEMMA MinedNext == \A b : b \in Mined' <=> b \notin Initial /\ \E n \in Miner : b \in stored'[n]
  BY MinedOf DEF Mined

-----------------------------------------------------------------------------
(* Messages, and who is known. *)
LEMMA MessageFields ==
  ASSUME NEW m \in Message
  PROVE  /\ m.from \in Node /\ m.to \in Node
         /\ m.type \in {"version", "getblocks", "inv", "getdata", "block"}
         /\ m.type = "version" => m.height \in Nat
         /\ m.type = "inv" => m.items \in Seq(Block) /\ m.items # << >>
         /\ m.type \in {"getdata", "block"} => m.hash \in Block
  BY DEF Message

LEMMA MessagesMade ==
  ASSUME TypeOK, NEW n \in Node, NEW p \in Node
  PROVE  /\ Version(n, p) \in Message
         /\ GetBlocks(n, p) \in Message
         /\ \A items \in Seq(Block) : items # << >> => Inv(n, p, items) \in Message
         /\ \A b \in Block : GetData(n, p, b) \in Message /\ BlockMsg(n, p, b) \in Message
<1>1. Height(tip[n]) \in Nat
  BY DEF TypeOK, Height, Block
<1>2. Version(n, p) \in Message
  BY <1>1 DEF Version, Message
<1>3. GetBlocks(n, p) \in Message
  BY DEF GetBlocks, Message
<1>4. \A items \in Seq(Block) : items # << >> => Inv(n, p, items) \in Message
  BY DEF Inv, Message
<1>5. \A b \in Block : GetData(n, p, b) \in Message
  BY DEF GetData, Message
<1>6. \A b \in Block : BlockMsg(n, p, b) \in Message
  BY DEF BlockMsg, Message
<1> QED
  BY <1>2, <1>3, <1>4, <1>5, <1>6

LEMMA SentMail ==
  ASSUME NEW mail, IsABag(mail), NEW msgs
  PROVE  /\ IsABag(Sent(mail, msgs))
         /\ BagToSet(Sent(mail, msgs)) = BagToSet(mail) \cup {r \in msgs : r.to \in up}
  BY BagAdd DEF Sent

LEMMA ReceivedMail ==
  ASSUME TypeOK, NEW m \in BagToSet(net)
  PROVE  IsABag(Received(m)) /\ BagToSet(Received(m)) \subseteq BagToSet(net)
  BY BagRemove DEF TypeOK, Received

LEMMA StopsMail ==
  ASSUME NEW n, NEW mail, IsABag(mail), Stops(n, mail)
  PROVE  IsABag(net') /\ BagToSet(net') = {x \in BagToSet(mail) : x.to # n}
  BY DEF Stops, IsABag, BagToSet

LEMMA ReachedPeers ==
  ASSUME NEW known \in Seq(Node), NEW msgs
  PROVE  Reached(known, msgs) \in Seq(Node) /\ ToSet(Reached(known, msgs)) \subseteq ToSet(known)
  BY WithoutElements DEF Reached

(* What a handler sends, and that the message it handles is gone. *)
LEMMA MailStep ==
  ASSUME TypeOK, NEW mail, mail = net \/ \E m \in BagToSet(net) : mail = Received(m),
         NEW msgs, msgs \subseteq Message, net' = Sent(mail, msgs), up \subseteq up'
  PROVE  /\ IsABag(net') /\ BagToSet(net') \subseteq Message
         /\ \A r \in BagToSet(net') : r.to \in up'
<1>1. IsABag(mail) /\ BagToSet(mail) \subseteq BagToSet(net)
  BY ReceivedMail DEF TypeOK
<1>2. /\ IsABag(net')
      /\ BagToSet(net') = BagToSet(mail) \cup {r \in msgs : r.to \in up}
  BY <1>1, SentMail
<1> QED
  BY <1>1, <1>2 DEF TypeOK

-----------------------------------------------------------------------------
(* Type correctness. *)
DbOK == /\ stored \in [Node -> SUBSET Block] /\ tip \in [Node -> Block]
        /\ \A n \in Node : tip[n] \in stored[n]

MailOK == /\ IsABag(net) /\ BagToSet(net) \subseteq Message
          /\ \A m \in BagToSet(net) : m.to \in up

MemoryOK ==
    /\ peers \in [Node -> Seq(Node)] /\ transit \in [Node -> Seq(Block)]
    /\ mining \in [Node -> Block \cup {NotMining}]
    /\ \A n \in Node \ up :
           peers[n] = << >> /\ transit[n] = << >> /\ mining[n] = NotMining

Walkers == {"HandleGetBlocks", "HandleBlock", "MineTx"}

LEMMA TypeParts == TypeOK => /\ up \subseteq Node /\ DbOK /\ MemoryOK /\ MailOK
                             /\ starts \in [Node -> 0 .. MaxStarts] /\ panicked \subseteq Walkers
  BY DEF TypeOK, DbOK, MemoryOK, MailOK, Walkers

LEMMA TypeNext ==
  ASSUME up' \subseteq Node, DbOK', MemoryOK', MailOK',
         starts' \in [Node -> 0 .. MaxStarts], panicked' \subseteq Walkers
  PROVE  TypeOK'
  BY DEF TypeOK, DbOK, MemoryOK, MailOK, Walkers

LEMMA DbStep ==
  ASSUME TypeOK, NEW n \in Node, NEW b \in Block,
         stored' = [stored EXCEPT ![n] = @ \cup {b}],
         \/ tip' = [tip EXCEPT ![n] =
                       IF b \notin stored[n] /\ Height(b) > Height(@) THEN b ELSE @]
         \/ tip' = [tip EXCEPT ![n] = b]
  PROVE  DbOK'
<1>1. stored' \in [Node -> SUBSET Block] /\ tip' \in [Node -> Block]
  BY DEF TypeOK
<1>2. \A k \in Node : tip'[k] \in stored'[k]
  BY DEF TypeOK
<1> QED
  BY <1>1, <1>2 DEF DbOK

LEMMA StopsTypes ==
  ASSUME TypeOK, NEW n \in Node, NEW mail, mail = net \/ \E m \in BagToSet(net) : mail = Received(m),
         Stops(n, mail)
  PROVE  up' \subseteq Node /\ MemoryOK' /\ MailOK' /\ starts' \in [Node -> 0 .. MaxStarts]
<1>1. IsABag(mail) /\ BagToSet(mail) \subseteq BagToSet(net)
  BY ReceivedMail DEF TypeOK
<1>2. IsABag(net') /\ BagToSet(net') = {x \in BagToSet(mail) : x.to # n}
  BY <1>1, StopsMail
<1>3. up' = up \ {n} /\ starts' = starts
  BY DEF Stops
<1>4. MailOK'
  BY <1>1, <1>2, <1>3 DEF MailOK, TypeOK
<1>5. /\ peers' = [peers EXCEPT ![n] = << >>]
      /\ transit' = [transit EXCEPT ![n] = << >>]
      /\ mining' = [mining EXCEPT ![n] = NotMining]
  BY DEF Stops
<1>6. /\ peers' \in [Node -> Seq(Node)] /\ transit' \in [Node -> Seq(Block)]
      /\ mining' \in [Node -> Block \cup {NotMining}]
  BY <1>5 DEF TypeOK
<1>7. \A k \in Node \ up' :
          peers'[k] = << >> /\ transit'[k] = << >> /\ mining'[k] = NotMining
  BY <1>3, <1>5 DEF TypeOK
<1> QED
  BY <1>3, <1>4, <1>6, <1>7 DEF MemoryOK, TypeOK

(* A handler of n that goes on changes only what n has in memory. *)
LEMMA MemoryStep ==
  ASSUME TypeOK, NEW n \in Node, NEW known \in Seq(Node), NEW list \in Seq(Block),
         NEW work \in Block \cup {NotMining}, n \in up', up \subseteq up',
         peers' = [peers EXCEPT ![n] = known],
         transit' = [transit EXCEPT ![n] = list],
         mining' = [mining EXCEPT ![n] = work]
  PROVE  MemoryOK'
<1>1. /\ peers' \in [Node -> Seq(Node)] /\ transit' \in [Node -> Seq(Block)]
      /\ mining' \in [Node -> Block \cup {NotMining}]
  BY DEF TypeOK
<1>2. \A k \in Node \ up' :
          peers'[k] = << >> /\ transit'[k] = << >> /\ mining'[k] = NotMining
  BY DEF TypeOK
<1> QED
  BY <1>1, <1>2 DEF MemoryOK

LEMMA Unchanged ==
  ASSUME TypeOK, NEW n \in Node
  PROVE  /\ transit = [transit EXCEPT ![n] = transit[n]]
         /\ mining = [mining EXCEPT ![n] = mining[n]]
         /\ peers = [peers EXCEPT ![n] = peers[n]]
         /\ transit[n] \in Seq(Block) /\ mining[n] \in Block \cup {NotMining} /\ peers[n] \in Seq(Node)
         /\ stored[n] \subseteq Block /\ tip[n] \in Block
  BY DEF TypeOK

LEMMA TypeStep == TypeOK /\ [Next]_vars => TypeOK'
<1> SUFFICES ASSUME TypeOK, Next PROVE TypeOK'
  BY DEF vars, TypeOK
<1>0. /\ up \subseteq Node /\ DbOK /\ MemoryOK /\ MailOK /\ Seed \in Node
      /\ starts \in [Node -> 0 .. MaxStarts] /\ panicked \subseteq Walkers
  BY TypeParts, NodesAssumption
<1>1. ASSUME NEW n \in Node, NEW mail,
             mail = net \/ \E m \in BagToSet(net) : mail = Received(m),
             Stops(n, mail), DbOK', panicked' \subseteq Walkers
      PROVE  TypeOK'
  BY <1>1, StopsTypes, TypeNext
<1>2. ASSUME NEW n \in Node, NEW known \in Seq(Node), NEW list \in Seq(Block),
             NEW work \in Block \cup {NotMining}, n \in up,
             peers' = [peers EXCEPT ![n] = known],
             transit' = [transit EXCEPT ![n] = list],
             mining' = [mining EXCEPT ![n] = work],
             NEW mail, mail = net \/ \E m \in BagToSet(net) : mail = Received(m),
             NEW msgs, msgs \subseteq Message, net' = Sent(mail, msgs),
             DbOK', UNCHANGED <<up, starts, panicked>>
      PROVE  TypeOK'
  <2>1. MemoryOK'
    BY <1>2, MemoryStep
  <2>2. MailOK'
    BY <1>2, MailStep DEF MailOK
  <2> QED
    BY <1>0, <1>2, <2>1, <2>2, TypeNext
<1>3. ASSUME UNCHANGED db PROVE DbOK'
  BY <1>0, <1>3 DEF DbOK, db
<1>4. ASSUME NEW n \in Node, Start(n) PROVE TypeOK'
  <2> DEFINE hello == IF n = Seed THEN {} ELSE {Version(n, Seed)}
  <2>1. hello \subseteq Message
    BY <1>0, MessagesMade
  <2>2. /\ up' = up \cup {n} /\ net' = Sent(net, hello)
        /\ peers' = [peers EXCEPT ![n] = Reached(<<Seed>>, hello)]
        /\ starts' = [starts EXCEPT ![n] = @ + 1] /\ starts[n] < MaxStarts
        /\ UNCHANGED <<stored, tip, transit, mining, panicked>>
    BY <1>4 DEF Start
  <2> HIDE DEF hello
  <2>3. MailOK'
    BY <2>1, <2>2, MailStep DEF MailOK
  <2>4. Reached(<<Seed>>, hello) \in Seq(Node)
    <3>1. <<Seed>> \in Seq(Node)
      BY <1>0
    <3> QED
      BY <3>1, ReachedPeers
  <2>8. n \in up' /\ up \subseteq up'
    BY <2>2
  <2>9. /\ transit' = [transit EXCEPT ![n] = transit[n]] /\ mining' = [mining EXCEPT ![n] = mining[n]]
        /\ transit[n] \in Seq(Block) /\ mining[n] \in Block \cup {NotMining}
    BY <2>2, Unchanged
  <2>5. MemoryOK'
    BY <2>2, <2>4, <2>8, <2>9, MemoryStep
  <2>6. starts' \in [Node -> 0 .. MaxStarts]
    BY <1>0, <2>2, BoundAssumption
  <2>7. DbOK'
    BY <1>3, <2>2 DEF db
  <2> QED
    BY <1>0, <2>2, <2>3, <2>5, <2>6, <2>7, TypeNext
<1>5. ASSUME NEW n \in Node, Kill(n) PROVE TypeOK'
  <2>1. Stops(n, net) /\ UNCHANGED <<stored, tip, panicked>>
    BY <1>5 DEF Kill
  <2> QED
    BY <1>0, <1>1, <1>3, <2>1 DEF db
<1>6. ASSUME NEW m \in BagToSet(net), HandleVersion(m) PROVE TypeOK'
  <2> DEFINE n == m.to
             reply == IF Height(tip[n]) < m.height THEN {GetBlocks(n, m.from)}
                      ELSE IF Height(tip[n]) > m.height THEN {Version(n, m.from)}
                      ELSE {}
             known == Reached(peers[n], reply)
             then == IF m.from \in ToSet(known) THEN known ELSE Append(known, m.from)
  <2>1. m \in Message /\ n \in up /\ n \in Node /\ m.from \in Node
    BY MessageFields DEF TypeOK
  <2>2. reply \subseteq Message
    BY <2>1, MessagesMade
  <2>3. /\ net' = Sent(Received(m), reply)
        /\ peers' = [peers EXCEPT ![n] = then]
        /\ UNCHANGED <<up, stored, tip, transit, mining, starts, panicked>>
    BY <1>6 DEF HandleVersion
  <2> HIDE DEF reply
  <2>4. then \in Seq(Node)
    BY <2>1, ReachedPeers, Unchanged
  <2>5. DbOK'
    BY <1>3, <2>3 DEF db
  <2> HIDE DEF then
  <2> QED
    BY <1>2, <2>1, <2>2, <2>3, <2>4, <2>5, Unchanged
<1>7. ASSUME NEW m \in BagToSet(net), HandleGetBlocks(m) PROVE TypeOK'
  <2> DEFINE reply == {Inv(m.to, m.from, GetBlockHashes(tip[m.to]))}
  <2>1. m \in Message /\ m.to \in up /\ m.to \in Node /\ m.from \in Node
    BY MessageFields DEF TypeOK
  <2>2. reply \subseteq Message
    BY <2>1, MessagesMade, HashesFacts, Unchanged
  <2>3. DbOK'
    BY <1>3, <1>7 DEF HandleGetBlocks
  <2>4. CASE /\ net' = Sent(Received(m), reply)
             /\ peers' = [peers EXCEPT ![m.to] = Reached(peers[m.to], reply)]
             /\ UNCHANGED <<up, transit, mining, starts, panicked>>
    <3> HIDE DEF reply
    <3>1. Reached(peers[m.to], reply) \in Seq(Node)
      BY <2>1, ReachedPeers, Unchanged
    <3> QED
      BY <1>2, <2>1, <2>2, <2>3, <2>4, <3>1, Unchanged
  <2>5. CASE Panics(m.to, Received(m), "HandleGetBlocks")
    <3>1. Stops(m.to, Received(m)) /\ panicked' \subseteq Walkers
      BY <1>0, <2>5 DEF Panics, Walkers
    <3> QED
      BY <1>1, <2>1, <2>3, <3>1
  <2> QED
    BY <1>7, <2>4, <2>5 DEF HandleGetBlocks
<1>8. ASSUME NEW m \in BagToSet(net), HandleInv(m) PROVE TypeOK'
  <2> DEFINE reply == {GetData(m.to, m.from, Head(m.items))}
             list == Without(m.items, {Head(m.items)})
  <2>1. /\ m \in Message /\ m.to \in up /\ m.to \in Node /\ m.from \in Node
        /\ m.items \in Seq(Block) /\ m.items # << >>
    BY <1>8, MessageFields DEF TypeOK, HandleInv
  <2>2. reply \subseteq Message
    BY <2>1, MessagesMade, HeadTailElements
  <2>3. /\ net' = Sent(Received(m), reply)
        /\ transit' = [transit EXCEPT ![m.to] = list]
        /\ peers' = [peers EXCEPT ![m.to] = Reached(peers[m.to], reply)]
        /\ UNCHANGED <<up, stored, tip, mining, starts, panicked>>
    BY <1>8 DEF HandleInv
  <2>4. list \in Seq(Block)
    BY <2>1, WithoutElements
  <2>5. DbOK'
    BY <1>3, <2>3 DEF db
  <2> HIDE DEF reply, list
  <2>6. Reached(peers[m.to], reply) \in Seq(Node)
    BY <2>1, ReachedPeers, Unchanged
  <2> QED
    BY <1>2, <2>1, <2>2, <2>3, <2>4, <2>5, <2>6, Unchanged
<1>9. ASSUME NEW m \in BagToSet(net), HandleGetData(m) PROVE TypeOK'
  <2> DEFINE reply == IF m.hash \in stored[m.to] THEN {BlockMsg(m.to, m.from, m.hash)} ELSE {}
  <2>1. m \in Message /\ m.to \in up /\ m.to \in Node /\ m.from \in Node /\ m.hash \in Block
    BY <1>9, MessageFields DEF TypeOK, HandleGetData
  <2>2. reply \subseteq Message
    BY <2>1, MessagesMade
  <2>3. /\ net' = Sent(Received(m), reply)
        /\ peers' = [peers EXCEPT ![m.to] = Reached(peers[m.to], reply)]
        /\ UNCHANGED <<up, stored, tip, transit, mining, starts, panicked>>
    BY <1>9 DEF HandleGetData
  <2>5. DbOK'
    BY <1>3, <2>3 DEF db
  <2> HIDE DEF reply
  <2>6. Reached(peers[m.to], reply) \in Seq(Node)
    BY <2>1, ReachedPeers, Unchanged
  <2> QED
    BY <1>2, <2>1, <2>2, <2>3, <2>5, <2>6, Unchanged
<1>10. ASSUME NEW m \in BagToSet(net), HandleBlock(m) PROVE TypeOK'
  <2> DEFINE next == {GetData(m.to, m.from, Head(transit[m.to]))}
  <2>1. m \in Message /\ m.to \in up /\ m.to \in Node /\ m.from \in Node /\ m.hash \in Block
    BY <1>10, MessageFields DEF TypeOK, HandleBlock
  <2>2. DbOK'
    BY <1>10, <2>1, DbStep DEF HandleBlock, AddBlock
  <2>3. CASE /\ transit[m.to] # << >>
             /\ transit' = [transit EXCEPT ![m.to] = Tail(transit[m.to])]
             /\ net' = Sent(Received(m), next)
             /\ peers' = [peers EXCEPT ![m.to] = Reached(peers[m.to], next)]
             /\ UNCHANGED <<up, mining, starts, panicked>>
    <3>1. Tail(transit[m.to]) \in Seq(Block) /\ Head(transit[m.to]) \in Block
      BY <2>1, <2>3, Unchanged, HeadTailElements
    <3>2. next \subseteq Message
      BY <2>1, <3>1, MessagesMade
    <3> HIDE DEF next
    <3>3. Reached(peers[m.to], next) \in Seq(Node)
      BY <2>1, ReachedPeers, Unchanged
    <3> QED
      BY <1>2, <2>1, <2>2, <2>3, <3>1, <3>2, <3>3, Unchanged
  <2>4. CASE net' = Received(m) /\ UNCHANGED <<up, peers, transit, mining, starts, panicked>>
    <3>1. MailOK'
      BY <1>0, <2>4, ReceivedMail DEF MailOK
    <3>2. MemoryOK'
      BY <1>0, <2>4 DEF MemoryOK
    <3> QED
      BY <1>0, <2>1, <2>2, <2>4, <3>1, <3>2, TypeNext
  <2>5. CASE Panics(m.to, Received(m), "HandleBlock")
    <3>1. Stops(m.to, Received(m)) /\ panicked' \subseteq Walkers
      BY <1>0, <2>5 DEF Panics, Walkers
    <3> QED
      BY <1>1, <2>1, <2>2, <3>1
  <2> QED
    BY <1>10, <2>3, <2>4, <2>5 DEF HandleBlock
<1>11. ASSUME NEW n \in Miner, StartMining(n) PROVE TypeOK'
  <2>1. n \in Node /\ n \in up /\ DbOK'
    BY <1>3, <1>11, NodesAssumption DEF StartMining
  <2>2. CASE /\ mining' = [mining EXCEPT ![n] = tip[n]]
             /\ UNCHANGED <<up, peers, transit, net, starts, panicked>>
    <3>1. MemoryOK'
      BY <2>1, <2>2, Unchanged, MemoryStep, ZenonT(40)
    <3>2. MailOK'
      BY <1>0, <2>2 DEF MailOK
    <3> QED
      BY <1>0, <2>1, <2>2, <3>1, <3>2, TypeNext
  <2>3. CASE Panics(n, net, "MineTx")
    <3>1. Stops(n, net) /\ panicked' \subseteq Walkers
      BY <1>0, <2>3 DEF Panics, Walkers
    <3> QED
      BY <1>1, <2>1, <3>1
  <2> QED
    BY <1>11, <2>2, <2>3 DEF StartMining
<1>12. ASSUME NEW n \in Miner, Seal(n) PROVE TypeOK'
  <2> DEFINE b    == Append(mining[n], n)
             news == {Inv(n, p, <<b>>) : p \in ToSet(peers[n]) \ {n}}
  <2>1. /\ n \in Node /\ mining[n] # NotMining /\ mining[n] \in Block
        /\ stored' = [stored EXCEPT ![n] = @ \cup {b}] /\ tip' = [tip EXCEPT ![n] = b]
    BY <1>12, NodesAssumption DEF Seal, TypeOK
  <2>2. b \in Block /\ n \in up
    BY <2>1, MinedBlock DEF TypeOK
  <2>3. DbOK'
    <3> HIDE DEF b
    <3> QED
      BY <2>1, <2>2, DbStep
  <2>4. CASE /\ mining' = [mining EXCEPT ![n] = NotMining]
             /\ net' = Sent(net, news)
             /\ peers' = [peers EXCEPT ![n] = Reached(peers[n], news)]
             /\ UNCHANGED <<up, transit, starts, panicked>>
    <3>1. ToSet(peers[n]) \subseteq Node
      BY <2>1, Unchanged DEF ToSet
    <3>2. news \subseteq Message
      <4>1. <<b>> \in Seq(Block) /\ <<b>> # << >>
        BY <2>2
      <4> HIDE DEF b
      <4> QED
        BY <2>1, <3>1, <4>1, MessagesMade
    <3> HIDE DEF news
    <3>3. Reached(peers[n], news) \in Seq(Node)
      BY <2>1, ReachedPeers, Unchanged
    <3> QED
      BY <1>2, <2>1, <2>2, <2>3, <2>4, <3>2, <3>3, Unchanged
  <2>5. CASE Panics(n, net, "MineTx")
    <3>1. Stops(n, net) /\ panicked' \subseteq Walkers
      BY <1>0, <2>5 DEF Panics, Walkers
    <3> QED
      BY <1>1, <2>1, <2>3, <3>1
  <2> QED
    BY <1>12, <2>4, <2>5 DEF Seal
<1> QED
  BY <1>4, <1>5, <1>6, <1>7, <1>8, <1>9, <1>10, <1>11, <1>12 DEF Next, Deliver

LEMMA TypeInit == Init => TypeOK
<1> SUFFICES ASSUME Init PROVE TypeOK
  OBVIOUS
<1>1. DbOK
  <2>1. \A n \in Node : /\ InitialTip[n] \in Block /\ InitialTip[n] \in Chain(InitialTip[n])
                        /\ Chain(InitialTip[n]) \subseteq Block
    BY NodesAssumption, ChainFacts
  <2> QED
    BY <2>1, NodesAssumption DEF Init, DbOK
<1>2. MemoryOK
  BY DEF Init, MemoryOK
<1>3. MailOK
  BY BagEmpty DEF Init, MailOK
<1> QED
  BY <1>1, <1>2, <1>3, BoundAssumption DEF Init, TypeOK, DbOK, MemoryOK, MailOK

(* The variables keep their types: what is in flight is one of the five    *)
(* messages of a synchronisation, with a list that is not empty, to a node *)
(* that runs; a tip is stored; a node that is down has nothing in memory.  *)
THEOREM TypeCorrect == Spec => []TypeOK
  BY TypeInit, TypeStep, PTL DEF Spec

-----------------------------------------------------------------------------
(* What a step can add to the mail, to the known nodes, to the lists and   *)
(* to the databases.                                                       *)
Handles(m) ==
    HandleVersion(m) \/ HandleGetBlocks(m) \/ HandleInv(m) \/ HandleGetData(m) \/ HandleBlock(m)

Answers(m, r) ==
    /\ Handles(m) /\ r.from = m.to /\ r.to = m.from
    /\ \/ m.type = "version" /\ r.type = "getblocks" /\ Height(tip[m.to]) < m.height
       \/ m.type = "version" /\ r.type = "version" /\ r.height = Height(tip[m.to])
       \/ /\ m.type = "getblocks" /\ r.type = "inv" /\ Rooted(m.to)
          /\ r.items = GetBlockHashes(tip[m.to])
       \/ m.type = "inv" /\ r.type = "getdata" /\ r.hash = Head(m.items)
       \/ m.type = "getdata" /\ r.type = "block" /\ r.hash = m.hash /\ m.hash \in stored[m.to]
       \/ /\ m.type = "block" /\ r.type = "getdata" /\ transit[m.to] # << >>
          /\ r.hash = Head(transit[m.to])

Announces(n, r) ==
    /\ mining[n] # NotMining /\ r.type = "inv" /\ r.from = n
    /\ r.to \in ToSet(peers[n]) \ {n} /\ r.items = <<Append(mining[n], n)>>
    /\ Seal(n)

LEMMA SentNew ==
  ASSUME TypeOK, NEW mail, mail = net \/ \E m \in BagToSet(net) : mail = Received(m),
         NEW msgs, net' = Sent(mail, msgs), NEW r \in BagToSet(net'), r \notin BagToSet(net)
  PROVE  r \in msgs /\ r.to \in up
<1>1. IsABag(mail) /\ BagToSet(mail) \subseteq BagToSet(net)
  BY ReceivedMail DEF TypeOK
<1> QED
  BY <1>1, SentMail

LEMMA StopsNew ==
  ASSUME TypeOK, NEW n, NEW mail, mail = net \/ \E m \in BagToSet(net) : mail = Received(m),
         Stops(n, mail)
  PROVE  BagToSet(net') \subseteq {x \in BagToSet(net) : x.to # n}
<1>1. IsABag(mail) /\ BagToSet(mail) \subseteq BagToSet(net)
  BY ReceivedMail DEF TypeOK
<1> QED
  BY <1>1, StopsMail

LEMMA NewMail ==
  ASSUME TypeOK, Next, NEW r \in BagToSet(net'), r \notin BagToSet(net)
  PROVE  \/ \E n \in Node \ {Seed} : Start(n) /\ r = Version(n, Seed)
         \/ \E m \in BagToSet(net) : Answers(m, r)
         \/ \E n \in Miner : Announces(n, r)
<1>1. ASSUME NEW n, NEW mail, mail = net \/ \E m \in BagToSet(net) : mail = Received(m),
             Stops(n, mail)
      PROVE  FALSE
  BY <1>1, StopsNew
<1>2. ASSUME NEW n \in Node, Start(n) PROVE n # Seed /\ r = Version(n, Seed)
  <2>1. net' = Sent(net, IF n = Seed THEN {} ELSE {Version(n, Seed)})
    BY <1>2 DEF Start
  <2>2. r \in (IF n = Seed THEN {} ELSE {Version(n, Seed)})
    BY <2>1, SentNew
  <2> QED
    BY <2>2
<1>3. ASSUME NEW n \in Node, Kill(n) PROVE FALSE
  BY <1>1, <1>3 DEF Kill
<1>4. ASSUME NEW m \in BagToSet(net), HandleVersion(m) PROVE Answers(m, r)
  <2>1. r \in (IF Height(tip[m.to]) < m.height THEN {GetBlocks(m.to, m.from)}
               ELSE IF Height(tip[m.to]) > m.height THEN {Version(m.to, m.from)} ELSE {})
    <3>1. net' = Sent(Received(m), IF Height(tip[m.to]) < m.height THEN {GetBlocks(m.to, m.from)}
                      ELSE IF Height(tip[m.to]) > m.height THEN {Version(m.to, m.from)} ELSE {})
      BY <1>4 DEF HandleVersion
    <3> QED
      BY <3>1, SentNew
  <2> QED
    BY <1>4, <2>1 DEF HandleVersion, Answers, Handles, GetBlocks, Version
<1>5. ASSUME NEW m \in BagToSet(net), HandleGetBlocks(m) PROVE Answers(m, r)
  <2>1. /\ net' = Sent(Received(m), {Inv(m.to, m.from, GetBlockHashes(tip[m.to]))})
        /\ Rooted(m.to) /\ m.type = "getblocks"
    BY <1>1, <1>5 DEF HandleGetBlocks, Panics
  <2>2. r \in {Inv(m.to, m.from, GetBlockHashes(tip[m.to]))}
    BY <2>1, SentNew
  <2> QED
    BY <1>5, <2>1, <2>2 DEF Answers, Handles, Inv
<1>6. ASSUME NEW m \in BagToSet(net), HandleInv(m) PROVE Answers(m, r)
  <2>1. net' = Sent(Received(m), {GetData(m.to, m.from, Head(m.items))}) /\ m.type = "inv"
    BY <1>6 DEF HandleInv
  <2>2. r \in {GetData(m.to, m.from, Head(m.items))}
    BY <2>1, SentNew
  <2> QED
    BY <1>6, <2>1, <2>2 DEF Answers, Handles, GetData
<1>7. ASSUME NEW m \in BagToSet(net), HandleGetData(m) PROVE Answers(m, r)
  <2>1. /\ net' = Sent(Received(m), IF m.hash \in stored[m.to]
                                    THEN {BlockMsg(m.to, m.from, m.hash)} ELSE {})
        /\ m.type = "getdata"
    BY <1>7 DEF HandleGetData
  <2>2. r \in (IF m.hash \in stored[m.to] THEN {BlockMsg(m.to, m.from, m.hash)} ELSE {})
    BY <2>1, SentNew
  <2> QED
    BY <1>7, <2>1, <2>2 DEF Answers, Handles, BlockMsg
<1>8. ASSUME NEW m \in BagToSet(net), HandleBlock(m) PROVE Answers(m, r)
  <2>1. CASE net' = Received(m)
    BY <2>1, ReceivedMail
  <2>2. CASE Panics(m.to, Received(m), "HandleBlock")
    BY <1>1, <2>2 DEF Panics
  <2>3. CASE /\ net' = Sent(Received(m), {GetData(m.to, m.from, Head(transit[m.to]))})
             /\ transit[m.to] # << >>
    <3>1. r \in {GetData(m.to, m.from, Head(transit[m.to]))}
      BY <2>3, SentNew
    <3> QED
      BY <1>8, <2>3, <3>1 DEF HandleBlock, Answers, Handles, GetData
  <2> QED
    BY <1>8, <2>1, <2>2, <2>3 DEF HandleBlock
<1>9. ASSUME NEW n \in Miner, StartMining(n) PROVE FALSE
  BY <1>1, <1>9 DEF StartMining, Panics
<1>10. ASSUME NEW n \in Miner, Seal(n) PROVE Announces(n, r)
  <2>1. net' = Sent(net, {Inv(n, p, <<Append(mining[n], n)>>) : p \in ToSet(peers[n]) \ {n}})
    BY <1>1, <1>10 DEF Seal, Panics
  <2>2. r \in {Inv(n, p, <<Append(mining[n], n)>>) : p \in ToSet(peers[n]) \ {n}}
    BY <2>1, SentNew
  <2> QED
    BY <1>10, <2>2 DEF Announces, Inv, Seal
<1> QED
  BY <1>2, <1>3, <1>4, <1>5, <1>6, <1>7, <1>8, <1>9, <1>10 DEF Next, Deliver

LEMMA PeersStep ==
  ASSUME TypeOK, Next, NEW n \in Node, NEW p \in ToSet(peers'[n])
  PROVE  \/ p \in ToSet(peers[n])
         \/ Start(n) /\ p = Seed
         \/ \E m \in BagToSet(net) : m.to = n /\ m.from = p
<1>0. peers[n] \in Seq(Node) /\ peers \in [Node -> Seq(Node)]
  BY DEF TypeOK
<1>1. ASSUME NEW k, peers' = [peers EXCEPT ![k] = << >>] PROVE p \in ToSet(peers[n])
  BY <1>0, <1>1 DEF ToSet
<1>2. ASSUME NEW k, NEW msgs, peers' = [peers EXCEPT ![k] = Reached(@, msgs)]
      PROVE  p \in ToSet(peers[n])
  <2>1. peers'[n] = peers[n] \/ peers'[n] = Reached(peers[n], msgs)
    BY <1>0, <1>2
  <2> QED
    BY <1>0, <2>1, ReachedPeers
<1>3. ASSUME NEW k \in Node, Start(k), k = n PROVE p \in ToSet(peers[n]) \/ p = Seed
  <2>1. PICK msgs : peers' = [peers EXCEPT ![k] = Reached(<<Seed>>, msgs)]
    BY <1>3 DEF Start
  <2>2. <<Seed>> \in Seq(Node) /\ ToSet(<<Seed>>) = {Seed}
    BY NodesAssumption DEF ToSet
  <2>3. peers'[n] = Reached(<<Seed>>, msgs)
    BY <1>0, <1>3, <2>1
  <2> QED
    BY <2>2, <2>3, ReachedPeers
<1>4. ASSUME NEW k \in Node, Start(k), k # n PROVE p \in ToSet(peers[n])
  <2>1. PICK msgs : peers' = [peers EXCEPT ![k] = Reached(<<Seed>>, msgs)]
    BY <1>4 DEF Start
  <2> QED
    BY <1>0, <1>4, <2>1
<1>5. ASSUME NEW k, NEW mail, Stops(k, mail) PROVE p \in ToSet(peers[n])
  BY <1>1, <1>5 DEF Stops
<1>6. ASSUME NEW m \in BagToSet(net), HandleVersion(m)
      PROVE  p \in ToSet(peers[n]) \/ (m.to = n /\ m.from = p)
  <2>1. m.from \in Node
    BY MessageFields DEF TypeOK
  <2>2. PICK msgs : LET known == Reached(peers[m.to], msgs)
                    IN  peers' = [peers EXCEPT ![m.to] = IF m.from \in ToSet(known) THEN known
                                                         ELSE Append(known, m.from)]
    BY <1>6 DEF HandleVersion
  <2>3. CASE m.to # n
    BY <1>0, <2>2, <2>3
  <2>4. CASE m.to = n
    <3> DEFINE known == Reached(peers[n], msgs)
    <3>1. known \in Seq(Node) /\ ToSet(known) \subseteq ToSet(peers[n])
      BY <1>0, ReachedPeers
    <3>2. peers'[n] = known \/ peers'[n] = Append(known, m.from)
      BY <1>0, <2>2, <2>4
    <3> HIDE DEF known
    <3>3. ToSet(Append(known, m.from)) = ToSet(known) \cup {m.from}
      BY <2>1, <3>1, AppendElements
    <3>4. ToSet(peers'[n]) \subseteq ToSet(peers[n]) \cup {m.from}
      BY <3>1, <3>2, <3>3
    <3> QED
      BY <2>4, <3>4
  <2> QED
    BY <2>3, <2>4
<1>7. ASSUME NEW m \in BagToSet(net),
             HandleGetBlocks(m) \/ HandleInv(m) \/ HandleGetData(m) \/ HandleBlock(m)
      PROVE  p \in ToSet(peers[n])
  <2>1. CASE HandleGetBlocks(m)
    BY <1>2, <1>5, <2>1 DEF HandleGetBlocks, Panics
  <2>2. CASE HandleInv(m)
    BY <1>2, <2>2 DEF HandleInv
  <2>3. CASE HandleGetData(m)
    BY <1>2, <2>3 DEF HandleGetData
  <2>4. CASE HandleBlock(m)
    BY <1>2, <1>5, <2>4 DEF HandleBlock, Panics
  <2> QED
    BY <1>7, <2>1, <2>2, <2>3, <2>4
<1>8. ASSUME NEW k \in Miner, StartMining(k) \/ Seal(k) PROVE p \in ToSet(peers[n])
  <2>1. CASE StartMining(k)
    BY <1>5, <2>1 DEF StartMining, Panics
  <2>2. CASE Seal(k)
    BY <1>2, <1>5, <2>2 DEF Seal, Panics
  <2> QED
    BY <1>8, <2>1, <2>2
<1> QED
  BY <1>3, <1>4, <1>5, <1>6, <1>7, <1>8 DEF Next, Deliver, Kill

LEMMA TransitStep ==
  ASSUME TypeOK, Next, NEW n \in Node
  PROVE  \/ transit'[n] = transit[n]
         \/ transit'[n] = << >> /\ n \notin up'
         \/ \E m \in BagToSet(net) :
               m.to = n /\ m.type = "block" /\ transit[n] # << >> /\ transit'[n] = Tail(transit[n])
         \/ \E m \in BagToSet(net) :
               m.to = n /\ m.type = "inv" /\ transit'[n] = Without(m.items, {Head(m.items)})
<1>0. transit \in [Node -> Seq(Block)]
  BY DEF TypeOK
<1>1. ASSUME NEW k, NEW mail, Stops(k, mail) PROVE transit'[n] = transit[n] \/ (transit'[n] = << >> /\ n \notin up')
  <2>1. transit' = [transit EXCEPT ![k] = << >>] /\ up' = up \ {k}
    BY <1>1 DEF Stops
  <2> QED
    BY <1>0, <2>1
<1>2. ASSUME NEW m \in BagToSet(net), HandleInv(m)
      PROVE  \/ transit'[n] = transit[n]
             \/ m.to = n /\ m.type = "inv" /\ transit'[n] = Without(m.items, {Head(m.items)})
  <2>1. m.type = "inv" /\ transit' = [transit EXCEPT ![m.to] = Without(m.items, {Head(m.items)})]
    BY <1>2 DEF HandleInv
  <2> QED
    BY <1>0, <2>1
<1>3. ASSUME NEW m \in BagToSet(net), HandleBlock(m)
      PROVE  \/ transit'[n] = transit[n] \/ (transit'[n] = << >> /\ n \notin up')
             \/ /\ m.to = n /\ m.type = "block"
                /\ transit[n] # << >> /\ transit'[n] = Tail(transit[n])
  <2>1. CASE transit[m.to] # << >> /\ transit' = [transit EXCEPT ![m.to] = Tail(@)]
    BY <1>0, <1>3, <2>1 DEF HandleBlock
  <2>2. CASE UNCHANGED transit
    BY <2>2
  <2>3. CASE Panics(m.to, Received(m), "HandleBlock")
    BY <1>1, <2>3 DEF Panics
  <2> QED
    BY <1>3, <2>1, <2>2, <2>3 DEF HandleBlock
<1>4. ASSUME NEW m \in BagToSet(net), HandleVersion(m) \/ HandleGetBlocks(m) \/ HandleGetData(m)
      PROVE  transit'[n] = transit[n] \/ (transit'[n] = << >> /\ n \notin up')
  BY <1>1, <1>4 DEF HandleVersion, HandleGetBlocks, HandleGetData, Panics
<1>5. ASSUME NEW k \in Node, Start(k) \/ Kill(k)
      PROVE  transit'[n] = transit[n] \/ (transit'[n] = << >> /\ n \notin up')
  BY <1>1, <1>5 DEF Start, Kill
<1>6. ASSUME NEW k \in Miner, StartMining(k) \/ Seal(k)
      PROVE  transit'[n] = transit[n] \/ (transit'[n] = << >> /\ n \notin up')
  BY <1>1, <1>6 DEF StartMining, Seal, Panics
<1> QED
  BY <1>2, <1>3, <1>4, <1>5, <1>6 DEF Next, Deliver

(* A database changes when a block comes, or is mined. *)
LEMMA DbChange ==
  ASSUME TypeOK, Next, NEW n \in Node
  PROVE  \/ stored'[n] = stored[n] /\ tip'[n] = tip[n]
         \/ \E m \in BagToSet(net) :
               /\ m.to = n /\ m.type = "block" /\ HandleBlock(m)
               /\ stored'[n] = stored[n] \cup {m.hash}
               /\ tip'[n] = IF m.hash \notin stored[n] /\ Height(m.hash) > Height(tip[n])
                            THEN m.hash ELSE tip[n]
         \/ /\ n \in Miner /\ Seal(n) /\ mining[n] \in Block /\ mining[n] # NotMining
            /\ stored'[n] = stored[n] \cup {Append(mining[n], n)}
            /\ tip'[n] = Append(mining[n], n)
<1>0. /\ stored \in [Node -> SUBSET Block] /\ tip \in [Node -> Block]
      /\ mining \in [Node -> Block \cup {NotMining}]
  BY DEF TypeOK
<1>1. ASSUME UNCHANGED <<stored, tip>> PROVE stored'[n] = stored[n] /\ tip'[n] = tip[n]
  BY <1>1
<1>2. ASSUME NEW m \in BagToSet(net), HandleBlock(m)
      PROVE  \/ stored'[n] = stored[n] /\ tip'[n] = tip[n]
             \/ /\ m.to = n /\ m.type = "block"
                /\ stored'[n] = stored[n] \cup {m.hash}
                /\ tip'[n] = IF m.hash \notin stored[n] /\ Height(m.hash) > Height(tip[n])
                             THEN m.hash ELSE tip[n]
  <2>1. /\ stored' = [stored EXCEPT ![m.to] = @ \cup {m.hash}]
        /\ tip' = [tip EXCEPT ![m.to] =
                     IF m.hash \notin stored[m.to] /\ Height(m.hash) > Height(@) THEN m.hash ELSE @]
        /\ m.type = "block"
    BY <1>2 DEF HandleBlock, AddBlock
  <2>2. CASE m.to = n
    BY <1>0, <2>1, <2>2
  <2>3. CASE m.to # n
    BY <1>0, <2>1, <2>3
  <2> QED
    BY <2>2, <2>3
<1>3. ASSUME NEW k \in Miner, Seal(k)
      PROVE  \/ stored'[n] = stored[n] /\ tip'[n] = tip[n]
             \/ /\ n = k /\ mining[n] \in Block /\ mining[n] # NotMining
                /\ stored'[n] = stored[n] \cup {Append(mining[n], n)}
                /\ tip'[n] = Append(mining[n], n)
  <2>1. /\ stored' = [stored EXCEPT ![k] = @ \cup {Append(mining[k], k)}]
        /\ tip' = [tip EXCEPT ![k] = Append(mining[k], k)]
        /\ mining[k] # NotMining
    BY <1>3 DEF Seal
  <2> QED
    BY <1>0, <2>1
<1>4. ASSUME NEW m \in BagToSet(net),
             HandleVersion(m) \/ HandleGetBlocks(m) \/ HandleInv(m) \/ HandleGetData(m)
      PROVE  stored'[n] = stored[n] /\ tip'[n] = tip[n]
  BY <1>1, <1>4 DEF HandleVersion, HandleGetBlocks, HandleInv, HandleGetData, db
<1>5. ASSUME NEW k \in Node, Start(k) \/ Kill(k) PROVE stored'[n] = stored[n] /\ tip'[n] = tip[n]
  BY <1>1, <1>5 DEF Start, Kill
<1>6. ASSUME NEW k \in Miner, StartMining(k) PROVE stored'[n] = stored[n] /\ tip'[n] = tip[n]
  BY <1>1, <1>6 DEF StartMining, db
<1> QED
  BY <1>2, <1>3, <1>4, <1>5, <1>6 DEF Next, Deliver


-----------------------------------------------------------------------------
(* What is mined stays mined, and a miner's new block has a new name. *)
LEMMA MinedStep ==
  ASSUME TypeOK, Known, Next
  PROVE  /\ Mined \subseteq Mined'
         /\ Workers \subseteq Workers'
         /\ OneMiner' => OneMiner
         /\ \A n \in Miner : Seal(n) => Append(mining[n], n) \in Mined' /\ n \in Workers'
<1>1. \A n \in Node : stored[n] \subseteq stored'[n]
  BY DbChange
<1>2. Mined \subseteq Mined'
  BY <1>1, MinedIs, MinedNext, NodesAssumption
<1>3. Workers \subseteq Workers'
  BY <1>2 DEF Workers
<1>4. OneMiner' => OneMiner
  BY <1>2 DEF OneMiner
<1>5. ASSUME NEW n \in Miner, Seal(n)
      PROVE  Append(mining[n], n) \in Mined' /\ n \in Workers'
  <2> DEFINE b == Append(mining[n], n)
  <2>1. n \in Node /\ mining[n] \in Block /\ mining[n] # NotMining
    BY <1>5, NodesAssumption DEF Seal, TypeOK
  <2>2. b \in stored'[n]
    BY <1>5, <2>1 DEF Seal, TypeOK
  <2>3. Last(b) = n /\ b # << >> /\ Height(b) = Height(mining[n]) + 1 /\ Height(mining[n]) \in Nat
    BY <2>1, MinedBlock
  <2>4. ASSUME b \in Initial PROVE FALSE
    <3>1. PICK k \in Node : b \in Chain(InitialTip[k])
      BY <2>4 DEF Initial
    <3>2. b \in Chain(InitialTip[n])
      BY <2>3, <3>1, NamesAssumption
    <3> HIDE DEF b
    <3>5. InitialTip[n] \in Block
      BY <2>1, InitialBlocks
    <3>3. Height(b) <= Height(InitialTip[n]) /\ Height(InitialTip[n]) \in Nat
      <4>1. Height(b) <= Height(InitialTip[n])
        BY <3>2, <3>5, ChainFacts
      <4>2. Height(InitialTip[n]) \in Nat
        BY <3>5 DEF Height, Block
      <4> QED
        BY <4>1, <4>2
    <3>4. Height(InitialTip[n]) <= Height(mining[n])
      BY <2>1 DEF Known
    <3> HIDE DEF b
    <3> QED
      BY <2>3, <3>3, <3>4
  <2>5. b \in Mined'
    BY <2>2, <2>4, MinedNext
  <2> HIDE DEF b
  <2>6. \E c \in Mined' : n = Last(c)
    BY <2>3, <2>5
  <2>7. n \in Workers'
    BY <2>6 DEF Workers
  <2> QED
    BY <2>5, <2>7 DEF b
<1> QED
  BY <1>2, <1>3, <1>4, <1>5

LEMMA StarStep == TypeOK /\ Star /\ [Next]_vars => Star'
<1> SUFFICES ASSUME TypeOK, Star, Next PROVE Star'
  BY DEF vars, Star
<1>1. ASSUME NEW n \in Node \ {Seed}, NEW p \in ToSet(peers'[n]) PROVE p = Seed
  BY <1>1, PeersStep DEF Star
<1>2. ASSUME NEW r \in BagToSet(net') PROVE r.from # r.to /\ Seed \in {r.from, r.to}
  <2>1. CASE r \in BagToSet(net)
    BY <2>1 DEF Star
  <2>2. ASSUME NEW n \in Node \ {Seed}, r = Version(n, Seed) PROVE r.from = n /\ r.to = Seed
    BY <2>2 DEF Version
  <2>3. ASSUME NEW m \in BagToSet(net), Answers(m, r)
        PROVE  r.from # r.to /\ Seed \in {r.from, r.to}
    BY <2>3 DEF Answers, Star
  <2>4. ASSUME NEW n \in Miner, Announces(n, r) PROVE r.from = n /\ r.to = Seed /\ n # Seed
    BY <2>4, NodesAssumption DEF Announces, Star
  <2> QED
    BY <2>1, <2>2, <2>3, <2>4, NewMail
<1> QED
  BY <1>1, <1>2 DEF Star

LEMMA KnownStep ==
  TypeOK /\ Star /\ Held /\ Known /\ [Next]_vars => Known'
<1>0. ASSUME TypeOK, Known, UNCHANGED vars PROVE Known'
  BY <1>0 DEF vars, Known, Mined
<1> SUFFICES ASSUME TypeOK, Star, Held, Known, Next PROVE Known'
  BY <1>0
<1>1. \A n \in Node : /\ stored[n] \subseteq Block /\ tip[n] \in Block /\ InitialTip[n] \in Block
                      /\ mining[n] \in Block \cup {NotMining}
  BY InitialBlocks DEF TypeOK
<1>2. \A m \in BagToSet(net) : m \in Message /\ m.to \in Node /\ m.from \in Node
  BY MessageFields DEF TypeOK
<1>3. \A b \in Block : Height(b) \in Nat
  BY DEF Height, Block
<1>4. ASSUME NEW m \in BagToSet(net), m.type = "block"
      PROVE  m.hash \in Block /\ m.hash \in stored[m.from]
  BY <1>2, <1>4, MessageFields DEF Held
<1>5. ASSUME NEW n \in Node PROVE stored'[n] \subseteq Initial \cup Mined'
  <2>1. \A k \in Node : stored[k] \subseteq Initial \cup Mined'
    BY MinedStep DEF Known
  <2>2. ASSUME NEW m \in BagToSet(net), m.type = "block", stored'[n] = stored[n] \cup {m.hash}
        PROVE  stored'[n] \subseteq Initial \cup Mined'
    BY <1>2, <1>4, <2>1, <2>2
  <2>3. ASSUME n \in Miner, Seal(n), stored'[n] = stored[n] \cup {Append(mining[n], n)}
        PROVE  stored'[n] \subseteq Initial \cup Mined'
    BY <2>1, <2>3, MinedStep
  <2> QED
    BY <2>1, <2>2, <2>3, DbChange
<1>6. ASSUME NEW n \in Node PROVE Height(InitialTip[n]) <= Height(tip'[n])
  <2>1. CASE tip'[n] = tip[n]
    BY <2>1 DEF Known
  <2>2. ASSUME NEW m \in BagToSet(net), m.type = "block", Height(m.hash) > Height(tip[n]),
               tip'[n] = m.hash
        PROVE  Height(InitialTip[n]) <= Height(tip'[n])
    <3>1. m.hash \in Block
      BY <1>4, <2>2
    <3> QED
      BY <1>1, <1>3, <2>2, <3>1 DEF Known
  <2>3. CASE mining[n] \in Block /\ mining[n] # NotMining /\ tip'[n] = Append(mining[n], n)
    <3>1. Height(tip'[n]) = Height(mining[n]) + 1
      BY <2>3, MinedBlock
    <3> QED
      BY <1>1, <1>3, <2>3, <3>1 DEF Known
  <2> QED
    BY <2>1, <2>2, <2>3, DbChange
<1>7. ASSUME NEW n \in Node, mining'[n] # NotMining
      PROVE  Height(InitialTip[n]) <= Height(mining'[n])
  <2>1. mining'[n] = mining[n] \/ mining'[n] = tip[n] \/ mining'[n] = NotMining
    <3>1. ASSUME NEW k, NEW mail, Stops(k, mail)
          PROVE  mining'[n] = mining[n] \/ mining'[n] = NotMining
      <4>1. mining' = [mining EXCEPT ![k] = NotMining]
        BY <3>1 DEF Stops
      <4> QED
        BY <4>1 DEF TypeOK
    <3>2. ASSUME NEW k \in Node, Start(k) \/ Kill(k)
          PROVE  mining'[n] = mining[n] \/ mining'[n] = NotMining
      BY <3>1, <3>2 DEF Start, Kill
    <3>3. ASSUME NEW m \in BagToSet(net),
                 \/ HandleVersion(m) \/ HandleGetBlocks(m) \/ HandleInv(m)
                 \/ HandleGetData(m) \/ HandleBlock(m)
          PROVE  mining'[n] = mining[n] \/ mining'[n] = NotMining
      BY <3>1, <3>3
      DEF HandleVersion, HandleGetBlocks, HandleInv, HandleGetData, HandleBlock, Panics
    <3>4. ASSUME NEW k \in Miner, mining' = [mining EXCEPT ![k] = tip[k]]
          PROVE  mining'[n] = mining[n] \/ mining'[n] = tip[n]
      BY <3>4 DEF TypeOK
    <3>5. ASSUME NEW k \in Miner, mining' = [mining EXCEPT ![k] = NotMining]
          PROVE  mining'[n] = mining[n] \/ mining'[n] = NotMining
      BY <3>5 DEF TypeOK
    <3>6. ASSUME NEW k \in Miner, StartMining(k) \/ Seal(k)
          PROVE  mining'[n] = mining[n] \/ mining'[n] = tip[n] \/ mining'[n] = NotMining
      BY <3>1, <3>4, <3>5, <3>6 DEF StartMining, Seal, Panics
    <3> QED
      BY <3>2, <3>3, <3>6 DEF Next, Deliver
  <2> QED
    BY <1>7, <2>1 DEF Known
<1>8. ASSUME NEW b \in stored'[Seed] PROVE Height(b) <= Height(tip'[Seed])
  <2>1. Seed \in Node /\ Seed \notin Miner
    BY NodesAssumption
  <2>2. CASE stored'[Seed] = stored[Seed] /\ tip'[Seed] = tip[Seed]
    BY <1>8, <2>2 DEF Known
  <2>3. ASSUME NEW m \in BagToSet(net), m.type = "block",
               stored'[Seed] = stored[Seed] \cup {m.hash},
               tip'[Seed] = IF m.hash \notin stored[Seed] /\ Height(m.hash) > Height(tip[Seed])
                            THEN m.hash ELSE tip[Seed]
        PROVE  Height(b) <= Height(tip'[Seed])
    <3>1. /\ m.hash \in Block /\ stored[Seed] \subseteq Block /\ tip[Seed] \in Block
          /\ \A c \in stored[Seed] : Height(c) <= Height(tip[Seed])
      BY <1>1, <1>4, <2>1, <2>3 DEF Known
    <3> QED
      BY <1>3, <1>8, <2>3, <3>1
  <2> QED
    BY <2>1, <2>2, <2>3, DbChange
<1> QED
  BY <1>5, <1>6, <1>7, <1>8 DEF Known

LEMMA HeldStep ==
  TypeOK /\ Star /\ Held /\ [Next]_vars => Held'
<1> SUFFICES ASSUME TypeOK, Star, Held, Next PROVE Held'
  BY DEF vars, Held
<1>1. \A n \in Node : stored[n] \subseteq stored'[n]
  BY DbChange
<1>2. ASSUME NEW m \in BagToSet(net)
      PROVE  /\ m \in Message /\ m.to \in Node /\ m.from \in Node
             /\ m.to # m.from /\ Seed \in {m.from, m.to}
  BY MessageFields DEF TypeOK, Star
<1>3. ASSUME NEW m \in BagToSet(net), m.type = "inv"
      PROVE  /\ m.items \in Seq(Block) /\ ToSet(m.items) \subseteq stored[m.from]
             /\ Head(m.items) \in stored[m.from]
             /\ ToSet(Without(m.items, {Head(m.items)})) \subseteq stored[m.from]
  <2>1. m.items \in Seq(Block) /\ m.items # << >> /\ ToSet(m.items) \subseteq stored[m.from]
    BY <1>2, <1>3, MessageFields DEF Held
  <2>2. ToSet(m.items) = {Head(m.items)} \cup ToSet(Tail(m.items))
    BY <2>1, HeadTailElements
  <2>3. ToSet(Without(m.items, {Head(m.items)})) = ToSet(m.items) \ {Head(m.items)}
    BY <2>1, WithoutElements
  <2> QED
    BY <2>1, <2>2, <2>3
<1>4. ASSUME NEW n \in Node \ {Seed}, transit[n] # << >>
      PROVE  Head(transit[n]) \in stored[Seed] /\ ToSet(Tail(transit[n])) \subseteq stored[Seed]
  <2>1. transit[n] \in Seq(Block)
    BY DEF TypeOK
  <2>2. ToSet(transit[n]) = {Head(transit[n])} \cup ToSet(Tail(transit[n]))
    BY <1>4, <2>1, HeadTailElements
  <2> QED
    BY <2>2 DEF Held
<1>5. ASSUME NEW r \in BagToSet(net')
      PROVE  /\ r.type = "inv" => ToSet(r.items) \subseteq stored'[r.from]
             /\ r.type = "block" => r.hash \in stored'[r.from]
             /\ r.type = "getdata" /\ r.to = Seed => r.hash \in stored'[Seed]
  <2>1. CASE r \in BagToSet(net)
    BY <1>1, <1>2, <2>1, NodesAssumption DEF Held
  <2>2. ASSUME NEW n \in Node, r = Version(n, Seed) PROVE r.type = "version"
    BY <2>2 DEF Version
  <2>3. ASSUME NEW m \in BagToSet(net), Answers(m, r)
        PROVE  /\ r.type = "inv" => ToSet(r.items) \subseteq stored'[r.from]
               /\ r.type = "block" => r.hash \in stored'[r.from]
               /\ r.type = "getdata" /\ r.to = Seed => r.hash \in stored'[Seed]
    <3>1. /\ r.from = m.to /\ r.to = m.from /\ m.to \in Node /\ m.from \in Node
          /\ m.to # m.from /\ stored[m.to] \subseteq stored'[m.to]
          /\ stored[m.from] \subseteq stored'[m.from]
      BY <1>1, <1>2, <2>3 DEF Answers
    <3>2. CASE r.type = "inv"
      <4>1. Rooted(m.to) /\ r.items = GetBlockHashes(tip[m.to])
        BY <2>3, <3>2 DEF Answers
      <4>2. ToSet(r.items) = Chain(tip[m.to])
        BY <3>1, <4>1, HashesFacts DEF TypeOK
      <4> QED
        BY <3>1, <3>2, <4>1, <4>2 DEF Rooted
    <3>3. CASE r.type = "block"
      BY <2>3, <3>1, <3>3 DEF Answers
    <3>4. CASE r.type = "getdata" /\ r.to = Seed
      <4>1. CASE m.type = "inv"
        <5>1. r.hash = Head(m.items)
          BY <2>3, <3>4, <4>1 DEF Answers
        <5> QED
          BY <1>3, <3>1, <3>4, <4>1, <5>1
      <4>2. CASE m.type = "block"
        <5>1. r.hash = Head(transit[m.to]) /\ transit[m.to] # << >>
          BY <2>3, <3>4, <4>2 DEF Answers
        <5> QED
          BY <1>4, <3>1, <3>4, <4>2, <5>1
      <4> QED
        BY <2>3, <3>4, <4>1, <4>2 DEF Answers
    <3> QED
      BY <3>2, <3>3, <3>4
  <2>4. ASSUME NEW n \in Miner, Announces(n, r)
        PROVE  r.type = "inv" /\ ToSet(r.items) \subseteq stored'[r.from]
    <3>1. r.type = "inv" /\ r.from = n /\ r.items = <<Append(mining[n], n)>> /\ Seal(n)
      BY <2>4 DEF Announces
    <3>2. stored' = [stored EXCEPT ![n] = @ \cup {Append(mining[n], n)}]
      BY <3>1 DEF Seal
    <3>3. Append(mining[n], n) \in stored'[n]
      BY <3>2, NodesAssumption DEF TypeOK
    <3>4. ToSet(r.items) = {Append(mining[n], n)}
      <4> DEFINE b == Append(mining[n], n)
      <4>1. r.items = <<b>>
        BY <3>1
      <4> HIDE DEF b
      <4>2. ToSet(r.items) = {b}
        BY <4>1 DEF ToSet
      <4> QED
        BY <4>2 DEF b
    <3> QED
      BY <3>1, <3>3, <3>4
  <2> QED
    BY <2>1, <2>2, <2>3, <2>4, NewMail
<1>6. ASSUME NEW n \in Node \ {Seed} PROVE ToSet(transit'[n]) \subseteq stored'[Seed]
  <2>1. stored[Seed] \subseteq stored'[Seed]
    BY <1>1, NodesAssumption
  <2>2. CASE transit'[n] = transit[n]
    BY <2>1, <2>2 DEF Held
  <2>3. CASE transit'[n] = << >>
    BY <2>3 DEF ToSet
  <2>4. CASE transit[n] # << >> /\ transit'[n] = Tail(transit[n])
    BY <1>4, <2>1, <2>4
  <2>5. ASSUME NEW m \in BagToSet(net), m.to = n, m.type = "inv",
               transit'[n] = Without(m.items, {Head(m.items)})
        PROVE  ToSet(transit'[n]) \subseteq stored'[Seed]
    BY <1>2, <1>3, <2>1, <2>5
  <2> QED
    BY <2>2, <2>3, <2>4, <2>5, TransitStep
<1> QED
  BY <1>5, <1>6 DEF Held


LEMMA WorkersNodes == TypeOK => Workers \subseteq Node
<1> SUFFICES ASSUME TypeOK, NEW b \in Mined PROVE Last(b) \in Node
  BY DEF Workers
<1>1. b \in Block /\ b # << >>
  BY MinedIs, InitialBlocks, NodesAssumption DEF TypeOK
<1> QED
  BY <1>1 DEF Block, Last

LEMMA SeedInvStep ==
  TypeOK /\ Star /\ Held /\ Known /\ SeedInv /\ [Next]_vars => SeedInv'
<1>0. ASSUME SeedInv, UNCHANGED vars PROVE SeedInv'
  BY <1>0 DEF vars, SeedInv, SeedSide, OneMiner, Workers, Mined
<1> SUFFICES ASSUME TypeOK, Star, Held, Known, SeedInv, Next PROVE SeedInv'
  BY <1>0
<1> SUFFICES ASSUME SeedHighest, OneMiner' PROVE SeedSide'
  BY Zenon DEF SeedInv, SeedHighest
<1>1. SeedSide /\ Workers \subseteq Workers' /\ Seed \in Node /\ Seed \notin Miner
  BY MinedStep, NodesAssumption DEF SeedInv
<1>2. \A v, w \in Workers' : v = w
  BY DEF OneMiner, Workers
<1>3. \A n \in Node : stored[n] \subseteq stored'[n]
  BY DbChange
<1>4. \A b \in Block : Height(b) \in Nat
  BY DEF Height, Block
<1>5. ASSUME NEW m \in BagToSet(net)
      PROVE  /\ m \in Message /\ m.to \in Node /\ m.from \in Node
             /\ m.to # m.from /\ Seed \in {m.from, m.to}
  BY MessageFields DEF TypeOK, Star
<1>6. \A n \in Node : tip[n] \in Block /\ tip'[n] \in Block /\ stored[n] \subseteq Block
  <2>1. TypeOK'
    BY TypeStep
  <2> QED
    BY <2>1 DEF TypeOK
<1>7. Height(tip[Seed]) <= Height(tip'[Seed])
  <2>1. CASE tip'[Seed] = tip[Seed]
    BY <1>1, <1>4, <1>6, <2>1
  <2>2. ASSUME NEW m \in BagToSet(net), Height(m.hash) > Height(tip[Seed]), tip'[Seed] = m.hash
        PROVE  Height(tip[Seed]) <= Height(tip'[Seed])
    BY <1>1, <1>4, <1>6, <2>2
  <2> QED
    BY <1>1, <2>1, <2>2, DbChange
<1>8. ASSUME NEW n \in Node \ Workers' PROVE Height(tip'[n]) <= Height(tip'[Seed])
  <2>1. n \in Node \ Workers /\ Height(tip[n]) <= Height(tip[Seed])
    BY <1>1 DEF SeedSide
  <2>2. CASE tip'[n] = tip[n]
    BY <1>1, <1>4, <1>6, <1>7, <2>1, <2>2
  <2>3. CASE n = Seed
    BY <1>1, <1>4, <1>6, <2>3
  <2>4. ASSUME NEW m \in BagToSet(net), m.to = n, n # Seed, m.type = "block", tip'[n] = m.hash
        PROVE  Height(tip'[n]) <= Height(tip'[Seed])
    <3>1. m.from = Seed /\ m.hash \in stored[Seed]
      BY <1>5, <2>4 DEF Held
    <3>2. Height(m.hash) <= Height(tip[Seed])
      BY <3>1 DEF Known
    <3> QED
      BY <1>1, <1>4, <1>6, <1>7, <2>4, <3>2
  <2>5. ASSUME n \in Miner, Seal(n) PROVE FALSE
    BY <2>5, MinedStep
  <2> QED
    BY <2>2, <2>3, <2>4, <2>5, DbChange
<1>9. ASSUME NEW r \in BagToSet(net'), r.to = Seed
      PROVE  /\ r.type \in {"inv", "block"} => r.from \in Workers'
             /\ r.type = "version" => r.from \in Workers' \/ r.height <= Height(tip'[Seed])
  <2>1. CASE r \in BagToSet(net)
    <3>1. r.type = "version" => r.height \in Nat
      BY <1>5, <2>1, MessageFields
    <3>2. /\ r.type \in {"inv", "block"} => r.from \in Workers
          /\ r.type = "version" => r.from \in Workers \/ r.height <= Height(tip[Seed])
      BY <1>1, <1>9, <2>1 DEF SeedSide
    <3> QED
      BY <1>1, <1>4, <1>6, <1>7, <3>1, <3>2
  <2>2. ASSUME NEW n \in Node, r.type = "version", r.from = n, r.height = Height(tip[n])
        PROVE  r.from \in Workers' \/ r.height <= Height(tip'[Seed])
    <3>1. n \in Workers \/ Height(tip[n]) <= Height(tip[Seed])
      BY <1>1 DEF SeedSide
    <3> QED
      BY <1>1, <1>4, <1>6, <1>7, <2>2, <3>1
  <2>3. ASSUME NEW n \in Node, r = Version(n, Seed)
        PROVE  r.type = "version" /\ r.from = n /\ r.height = Height(tip[n])
    BY <2>3 DEF Version
  <2>4. ASSUME NEW m \in BagToSet(net), Answers(m, r)
        PROVE  /\ r.type \in {"inv", "block"} => r.from \in Workers'
               /\ r.type = "version" => r.from \in Workers' \/ r.height <= Height(tip'[Seed])
    <3>1. r.from = m.to /\ m.from = Seed /\ m.to \in Node
      BY <1>5, <1>9, <2>4 DEF Answers
    <3>2. CASE r.type = "version"
      <4>1. r.height = Height(tip[m.to])
        BY <2>4, <3>2 DEF Answers
      <4> QED
        BY <2>2, <3>1, <3>2, <4>1
    <3>3. CASE r.type \in {"inv", "block"}
      <4>1. m.type \in {"getblocks", "getdata"}
        BY <2>4, <3>3 DEF Answers
      <4>2. m.to \in Workers
        BY <1>1, <3>1, <4>1 DEF SeedSide
      <4> QED
        BY <1>1, <3>1, <3>3, <4>2
    <3> QED
      BY <3>2, <3>3
  <2>5. ASSUME NEW n \in Miner, Announces(n, r)
        PROVE  r.type = "inv" /\ r.from \in Workers'
    BY <2>5, MinedStep DEF Announces
  <2> QED
    BY <2>1, <2>2, <2>3, <2>4, <2>5, NewMail
<1>10. ASSUME NEW n \in Workers, NEW v \in Workers PROVE n = v
  BY <1>1, <1>2, <1>10
<1>11. ASSUME NEW m \in BagToSet(net), m.to = Seed, m.type = "inv"
       PROVE  /\ m.from \in Workers /\ Head(m.items) \in stored[m.from]
              /\ ToSet(Without(m.items, {Head(m.items)})) \subseteq stored[m.from]
  <2>1. m.items \in Seq(Block) /\ m.items # << >> /\ ToSet(m.items) \subseteq stored[m.from]
    BY <1>5, <1>11, MessageFields DEF Held
  <2>2. ToSet(m.items) = {Head(m.items)} \cup ToSet(Tail(m.items))
    BY <2>1, HeadTailElements
  <2>3. ToSet(Without(m.items, {Head(m.items)})) = ToSet(m.items) \ {Head(m.items)}
    BY <2>1, WithoutElements
  <2> QED
    BY <1>1, <1>11, <2>1, <2>2, <2>3 DEF SeedSide
<1>12. transit[Seed] # << >> =>
          ToSet(transit[Seed]) = {Head(transit[Seed])} \cup ToSet(Tail(transit[Seed]))
  <2>1. transit[Seed] \in Seq(Block)
    BY <1>1 DEF TypeOK
  <2> QED
    BY <2>1, HeadTailElements
<1>13. ASSUME NEW r \in BagToSet(net'), r.from = Seed
       PROVE  /\ r.type \in {"getblocks", "getdata"} => r.to \in Workers'
              /\ r.type = "getdata" => r.hash \in stored'[r.to]
  <2>1. CASE r \in BagToSet(net)
    <3>1. /\ r.type \in {"getblocks", "getdata"} => r.to \in Workers
          /\ r.type = "getdata" => r.hash \in stored[r.to]
      BY <1>1, <1>13, <2>1 DEF SeedSide
    <3> QED
      BY <1>1, <1>3, <1>5, <2>1, <3>1
  <2>2. ASSUME NEW n \in Node, r = Version(n, Seed) PROVE r.type = "version"
    BY <2>2 DEF Version
  <2>3. ASSUME NEW m \in BagToSet(net), Answers(m, r)
        PROVE  /\ r.type \in {"getblocks", "getdata"} => r.to \in Workers'
               /\ r.type = "getdata" => r.hash \in stored'[r.to]
    <3>1. /\ r.to = m.from /\ m.to = Seed /\ m.from \in Node
          /\ stored[m.from] \subseteq stored'[m.from]
      BY <1>3, <1>5, <1>13, <2>3 DEF Answers
    <3>2. CASE r.type = "getblocks"
      <4>1. m.type = "version" /\ Height(tip[Seed]) < m.height
        BY <2>3, <3>1, <3>2 DEF Answers
      <4>2. m.height \in Nat
        BY <1>5, <4>1, MessageFields
      <4>3. m.from \in Workers
        BY <1>1, <1>4, <1>6, <3>1, <4>1, <4>2 DEF SeedSide
      <4> QED
        BY <1>1, <3>1, <3>2, <4>3
    <3>3. CASE r.type = "getdata" /\ m.type = "inv"
      <4>1. r.hash = Head(m.items)
        BY <2>3, <3>3 DEF Answers
      <4> QED
        BY <1>1, <1>11, <3>1, <3>3, <4>1
    <3>4. CASE r.type = "getdata" /\ m.type = "block"
      <4>1. r.hash = Head(transit[Seed]) /\ transit[Seed] # << >>
        BY <2>3, <3>1, <3>4 DEF Answers
      <4>2. m.from \in Workers /\ ToSet(transit[Seed]) \subseteq stored[m.from]
        BY <1>1, <3>1, <3>4 DEF SeedSide
      <4> QED
        BY <1>1, <1>12, <3>1, <3>4, <4>1, <4>2
    <3> QED
      BY <2>3, <3>2, <3>3, <3>4 DEF Answers
  <2>4. ASSUME NEW n \in Miner, Announces(n, r) PROVE r.type = "inv"
    BY <2>4 DEF Announces
  <2> QED
    BY <2>1, <2>2, <2>3, <2>4, NewMail
<1>14. /\ transit'[Seed] = << >> \/ Workers # {}
       /\ \A n \in Workers : ToSet(transit'[Seed]) \subseteq stored[n]
  <2>1. CASE transit'[Seed] = transit[Seed]
    BY <1>1, <2>1 DEF SeedSide
  <2>2. CASE transit'[Seed] = << >>
    BY <2>2 DEF ToSet
  <2>3. CASE transit[Seed] # << >> /\ transit'[Seed] = Tail(transit[Seed])
    BY <1>1, <1>12, <2>3 DEF SeedSide
  <2>4. ASSUME NEW m \in BagToSet(net), m.to = Seed, m.type = "inv",
               transit'[Seed] = Without(m.items, {Head(m.items)})
        PROVE  Workers # {} /\ \A n \in Workers : ToSet(transit'[Seed]) \subseteq stored[n]
    BY <1>10, <1>11, <2>4
  <2> QED
    BY <1>1, <2>1, <2>2, <2>3, <2>4, TransitStep
<1>15. ASSUME NEW n \in Workers' PROVE ToSet(transit'[Seed]) \subseteq stored'[n]
  <2>1. CASE Workers = {}
    BY <1>14, <2>1 DEF ToSet
  <2>2. CASE n \in Workers
    BY <1>3, <1>14, <2>2, WorkersNodes
  <2> QED
    BY <1>1, <1>2, <1>15, <2>1, <2>2
<1>16. Workers' = {} => transit'[Seed] = << >>
  BY <1>1, <1>14
<1> QED
  BY <1>8, <1>9, <1>13, <1>15, <1>16 DEF SeedSide


(* What follows from a step for each invariant, from the first state on. *)
SyncInv == TypeOK /\ Star /\ Held /\ Known /\ SeedInv

LEMMA SyncInit == Init => SyncInv
<1> SUFFICES ASSUME Init PROVE SyncInv
  OBVIOUS
<1>1. TypeOK
  BY TypeInit
<1>2. BagToSet(net) = {}
  BY BagEmpty DEF Init
<1>3. /\ \A n \in Node : peers[n] = << >> /\ transit[n] = << >> /\ mining[n] = NotMining
      /\ \A n \in Node : stored[n] = Chain(InitialTip[n]) /\ tip[n] = InitialTip[n]
  BY DEF Init
<1>4. ToSet(<< >>) = {} /\ Seed \in Node
  BY NodesAssumption DEF ToSet
<1>5. Star
  BY <1>2, <1>3, <1>4 DEF Star
<1>6. Held
  BY <1>2, <1>3, <1>4 DEF Held
<1>7. \A n \in Node : /\ InitialTip[n] \in Block /\ Height(InitialTip[n]) \in Nat
                      /\ \A b \in Chain(InitialTip[n]) : Height(b) <= Height(InitialTip[n])
  BY InitialBlocks, ChainFacts DEF Height, Block
<1>8. Known
  BY <1>3, <1>4, <1>7 DEF Known, Initial
<1>9. Workers = {}
  <2>1. Mined = {}
    BY <1>3, MinedIs, NodesAssumption DEF Initial
  <2> QED
    BY <2>1 DEF Workers
<1>10. SeedInv
  BY <1>2, <1>3, <1>4, <1>9 DEF SeedInv, SeedSide, SeedHighest
<1> QED
  BY <1>1, <1>5, <1>6, <1>8, <1>10 DEF SyncInv

LEMMA SyncStep == SyncInv /\ [Next]_vars => SyncInv'
  BY TypeStep, StarStep, HeldStep, KnownStep, SeedInvStep DEF SyncInv

(* A block is only requested from a node that has it, as long as one node  *)
(* at most has mined and the seed was the highest at first, whatever is    *)
(* killed and restarted, and in whatever order the messages arrive.        *)
THEOREM AskedIsHeldAlways == Spec => []AskedIsHeld
<1>1. SyncInv => AskedIsHeld
  <2> SUFFICES ASSUME SyncInv, SeedHighest, OneMiner,
                      NEW m \in BagToSet(net), m.type = "getdata"
               PROVE  m.hash \in stored[m.to]
    BY DEF AskedIsHeld
  <2>1. Held /\ SeedSide /\ Seed \in {m.from, m.to}
    BY DEF SyncInv, SeedInv, Star
  <2>2. CASE m.to = Seed
    BY <2>1, <2>2 DEF Held
  <2>3. CASE m.from = Seed
    BY <2>1, <2>3 DEF SeedSide
  <2> QED
    BY <2>1, <2>2, <2>3
<1> QED
  BY <1>1, SyncInit, SyncStep, PTL DEF Spec

-----------------------------------------------------------------------------
(* What a step leaves of the mail between a node and the seed. *)
LEMMA SentCount ==
  ASSUME NEW mail, IsABag(mail), NEW msgs, NEW r \in BagToSet(Sent(mail, msgs))
  PROVE  /\ r \notin msgs => r \in BagToSet(mail) /\ Sent(mail, msgs)[r] = mail[r]
         /\ r \notin BagToSet(mail) => r \in msgs /\ Sent(mail, msgs)[r] = 1
<1> DEFINE S == {x \in msgs : x.to \in up}
<1>1. BagToSet(mail (+) SetToBag(S)) = BagToSet(mail) \cup S
  BY BagAdd
<1>2. Sent(mail, msgs) = mail (+) SetToBag(S)
  BY DEF Sent
<1>3. S \subseteq msgs /\ r \in BagToSet(mail) \cup S
  BY <1>1, <1>2
<1> HIDE DEF S
<1> QED
  BY <1>2, <1>3, BagAddCount

LEMMA StopsCount ==
  ASSUME NEW n, NEW mail, IsABag(mail), Stops(n, mail), NEW r \in BagToSet(net')
  PROVE  r \in BagToSet(mail) /\ r.to # n /\ net'[r] = mail[r]
<1>1. BagToSet(net') = {x \in BagToSet(mail) : x.to # n}
  BY StopsMail
<1> QED
  BY <1>1 DEF Stops

LEMMA Replies ==
  ASSUME NEW m \in BagToSet(net), Handles(m)
  PROVE  \/ \E msgs : /\ net' = Sent(Received(m), msgs) /\ up' = up
                      /\ \A r \in msgs : r.from = m.to /\ r.to = m.from
                      /\ \A r, s \in msgs : r = s
         \/ net' = Received(m) /\ up' = up
         \/ Stops(m.to, Received(m))
<1>1. CASE HandleVersion(m)
  <2> DEFINE msgs == IF Height(tip[m.to]) < m.height THEN {GetBlocks(m.to, m.from)}
                     ELSE IF Height(tip[m.to]) > m.height THEN {Version(m.to, m.from)} ELSE {}
  <2>1. net' = Sent(Received(m), msgs) /\ up' = up
    BY <1>1 DEF HandleVersion
  <2>2. /\ \A r \in msgs : r.from = m.to /\ r.to = m.from
        /\ \A r, s \in msgs : r = s
    BY DEF GetBlocks, Version
  <2> QED
    BY <2>1, <2>2
<1>2. CASE HandleGetBlocks(m)
  <2> DEFINE msgs == {Inv(m.to, m.from, GetBlockHashes(tip[m.to]))}
  <2>1. (net' = Sent(Received(m), msgs) /\ up' = up) \/ Stops(m.to, Received(m))
    BY <1>2 DEF HandleGetBlocks, Panics
  <2>2. \A r \in msgs : r.from = m.to /\ r.to = m.from
    BY DEF Inv
  <2> QED
    BY <2>1, <2>2
<1>3. CASE HandleInv(m)
  <2> DEFINE msgs == {GetData(m.to, m.from, Head(m.items))}
  <2>1. net' = Sent(Received(m), msgs) /\ up' = up
    BY <1>3 DEF HandleInv
  <2>2. \A r \in msgs : r.from = m.to /\ r.to = m.from
    BY DEF GetData
  <2> QED
    BY <2>1, <2>2
<1>4. CASE HandleGetData(m)
  <2> DEFINE msgs == IF m.hash \in stored[m.to] THEN {BlockMsg(m.to, m.from, m.hash)} ELSE {}
  <2>1. net' = Sent(Received(m), msgs) /\ up' = up
    BY <1>4 DEF HandleGetData
  <2>2. /\ \A r \in msgs : r.from = m.to /\ r.to = m.from
        /\ \A r, s \in msgs : r = s
    BY DEF BlockMsg
  <2> QED
    BY <2>1, <2>2
<1>5. CASE HandleBlock(m)
  <2> DEFINE msgs == {GetData(m.to, m.from, Head(transit[m.to]))}
  <2>1. \/ net' = Sent(Received(m), msgs) /\ up' = up
        \/ net' = Received(m) /\ up' = up
        \/ Stops(m.to, Received(m))
    BY <1>5 DEF HandleBlock, Panics
  <2>2. \A r \in msgs : r.from = m.to /\ r.to = m.from
    BY DEF GetData
  <2> QED
    BY <2>1, <2>2
<1> QED
  BY <1>1, <1>2, <1>3, <1>4, <1>5 DEF Handles

(* A message is answered by one at most, and the others stay. *)
LEMMA ReplyMail ==
  ASSUME TypeOK, NEW m \in BagToSet(net), Handles(m), m.from # m.to, NEW r \in BagToSet(net')
  PROVE  /\ \/ r.from = m.to /\ r.to = m.from
            \/ r # m => r \in BagToSet(net) /\ net'[r] = net[r]
         /\ r \notin BagToSet(net) => net'[r] = 1
         /\ net[m] = 1 => r # m
         /\ \A s \in BagToSet(net') : r \notin BagToSet(net) /\ s \notin BagToSet(net) => r = s
<1>0. IsABag(net)
  BY DEF TypeOK
<1>1. /\ IsABag(Received(m)) /\ BagToSet(Received(m)) \subseteq BagToSet(net)
      /\ \A x \in BagToSet(Received(m)) : x # m => Received(m)[x] = net[x]
      /\ net[m] = 1 => m \notin BagToSet(Received(m))
  BY <1>0, BagRemove, BagRemoveCount DEF Received
<1>2. CASE net' = Received(m)
  BY <1>1, <1>2
<1>3. CASE Stops(m.to, Received(m))
  <2>1. \A x \in BagToSet(net') : x \in BagToSet(Received(m)) /\ net'[x] = Received(m)[x]
    BY <1>1, <1>3, StopsCount
  <2> QED
    BY <1>1, <2>1
<1>4. ASSUME NEW msgs, net' = Sent(Received(m), msgs),
             \A x \in msgs : x.from = m.to /\ x.to = m.from,
             \A x, y \in msgs : x = y
      PROVE  /\ \/ r.from = m.to /\ r.to = m.from
                \/ r # m => r \in BagToSet(net) /\ net'[r] = net[r]
             /\ r \notin BagToSet(net) => net'[r] = 1
             /\ net[m] = 1 => r # m
             /\ \A s \in BagToSet(net') : r \notin BagToSet(net) /\ s \notin BagToSet(net) => r = s
  <2>1. \A x \in BagToSet(net') :
           /\ x \notin msgs => x \in BagToSet(Received(m)) /\ net'[x] = Received(m)[x]
           /\ x \notin BagToSet(Received(m)) => x \in msgs /\ net'[x] = 1
    BY <1>1, <1>4, SentCount
  <2>2. m \notin msgs
    BY <1>4
  <2> QED
    BY <1>1, <1>4, <2>1, <2>2
<1> QED
  BY <1>2, <1>3, <1>4, Replies

LEMMA LoneAnswer ==
  ASSUME TypeOK, Star, NEW n \in Node, Lone(n), NEW m \in Theirs(n), Handles(m)
  PROVE  Lone(n)' /\ Theirs(n)' \cap BagToSet(net) = {}
<1>1. m \in BagToSet(net) /\ m.from # m.to /\ net[m] = 1 /\ Theirs(n) = {m}
  BY DEF Theirs, Star, Lone
<1>2. ASSUME NEW r \in Theirs(n)' PROVE r \notin BagToSet(net) /\ r \in BagToSet(net')
  <2>1. r \in BagToSet(net') /\ r # m
    BY <1>1, <1>2, ReplyMail DEF Theirs
  <2>2. r \in BagToSet(net) => r \in Theirs(n)
    BY <1>2 DEF Theirs
  <2> QED
    BY <1>1, <2>1, <2>2
<1>3. \A r \in Theirs(n)' : net'[r] = 1 /\ \A s \in Theirs(n)' : s = r
  BY <1>1, <1>2, ReplyMail
<1>4. Lone(n)'
  BY <1>3 DEF Lone
<1> QED
  BY <1>2, <1>4

(* A step that is not about a node. *)
Quiet(n) ==
    /\ \A r \in Theirs(n)' : r \in Theirs(n) /\ net'[r] = net[r]
    /\ stored'[n] = stored[n] /\ tip'[n] = tip[n] /\ transit'[n] = transit[n]

LEMMA QuietStep ==
  ASSUME TypeOK, Star, Known, Next, Mined' = {}, NEW n \in Node \ {Seed}, n \in up, n \in up'
  PROVE  Quiet(n) \/ \E m \in Theirs(n) : Handles(m)
<1>0. IsABag(net)
  BY DEF TypeOK
<1>1. ASSUME \A r \in Theirs(n)' : r \in BagToSet(net) /\ net'[r] = net[r]
      PROVE  \A r \in Theirs(n)' : r \in Theirs(n) /\ net'[r] = net[r]
  BY <1>1 DEF Theirs
<1>2. ASSUME NEW k \in Node, Start(k) PROVE Quiet(n)
  <2> DEFINE hello == IF k = Seed THEN {} ELSE {Version(k, Seed)}
  <2>1. k # n /\ net' = Sent(net, hello) /\ UNCHANGED <<stored, tip, transit>>
    BY <1>2 DEF Start
  <2>2. \A r \in Theirs(n)' : r \in BagToSet(net') /\ r \notin hello
    BY <2>1 DEF Theirs, Version
  <2> HIDE DEF hello
  <2>3. \A r \in Theirs(n)' : r \in BagToSet(net) /\ net'[r] = net[r]
    BY <1>0, <2>1, <2>2, SentCount
  <2> QED
    BY <1>1, <2>1, <2>3 DEF Quiet
<1>3. ASSUME NEW k \in Node, Stops(k, net) PROVE /\ \A r \in Theirs(n)' : r \in Theirs(n) /\ net'[r] = net[r]
                                                 /\ transit'[n] = transit[n]
  <2>1. \A r \in Theirs(n)' : r \in BagToSet(net) /\ net'[r] = net[r]
    BY <1>0, <1>3, StopsCount DEF Theirs
  <2>2. k # n /\ transit' = [transit EXCEPT ![k] = << >>]
    BY <1>3 DEF Stops
  <2> QED
    BY <1>1, <2>1, <2>2 DEF TypeOK
<1>4. ASSUME NEW k \in Node, Kill(k) PROVE Quiet(n)
  BY <1>3, <1>4 DEF Kill, Quiet
<1>5. ASSUME NEW k \in Miner, StartMining(k) PROVE Quiet(n)
  <2>1. CASE Panics(k, net, "MineTx")
    BY <1>3, <1>5, <2>1, NodesAssumption DEF StartMining, Panics, Quiet, db
  <2>2. CASE UNCHANGED <<net, transit>>
    BY <1>5, <2>2 DEF StartMining, Quiet, db, Theirs
  <2> QED
    BY <1>5, <2>1, <2>2 DEF StartMining
<1>6. ASSUME NEW k \in Miner, Seal(k) PROVE FALSE
  BY <1>6, MinedStep
<1>7. ASSUME NEW m \in BagToSet(net), Handles(m), m \notin Theirs(n) PROVE Quiet(n)
  <2>1. m.from # m.to /\ m.to # n /\ m.from # n
    BY <1>7 DEF Star, Theirs
  <2>2. ASSUME NEW r \in Theirs(n)' PROVE r \in BagToSet(net) /\ net'[r] = net[r]
    <3>1. r \in BagToSet(net') /\ n \in {r.from, r.to}
      BY <2>2 DEF Theirs
    <3>2. r # m /\ ~(r.from = m.to /\ r.to = m.from)
      BY <2>1, <3>1
    <3> QED
      BY <1>7, <2>1, <3>1, <3>2, ReplyMail
  <2>3. stored'[n] = stored[n] /\ tip'[n] = tip[n]
    <3>1. CASE HandleBlock(m)
      BY <2>1, <3>1 DEF HandleBlock, AddBlock, TypeOK
    <3>2. CASE UNCHANGED <<stored, tip>>
      BY <3>2
    <3> QED
      BY <1>7, <3>1, <3>2
      DEF Handles, HandleVersion, HandleGetBlocks, HandleInv, HandleGetData, db
  <2>4. transit'[n] = transit[n]
    <3>1. CASE Stops(m.to, Received(m))
      BY <2>1, <3>1 DEF Stops, TypeOK
    <3>2. CASE UNCHANGED transit
      BY <3>2
    <3>3. CASE HandleInv(m)
      BY <2>1, <3>3 DEF HandleInv, TypeOK
    <3>4. CASE transit' = [transit EXCEPT ![m.to] = Tail(@)]
      BY <2>1, <3>4 DEF TypeOK
    <3> QED
      BY <1>7, <3>1, <3>2, <3>3, <3>4
      DEF Handles, HandleVersion, HandleGetBlocks, HandleGetData, HandleBlock, Panics
  <2> QED
    BY <1>1, <2>2, <2>3, <2>4 DEF Quiet
<1> QED
  BY <1>2, <1>4, <1>5, <1>6, <1>7 DEF Next, Deliver, Handles, Theirs


-----------------------------------------------------------------------------
(* A node's runs are counted. *)
LEMMA StartsStep ==
  ASSUME TypeOK, Next, NEW n \in Node
  PROVE  /\ starts[n] \in Nat /\ starts'[n] \in Nat /\ starts[n] <= starts'[n]
         /\ Start(n) => starts'[n] = starts[n] + 1 /\ n \notin up
         /\ ~Start(n) => starts'[n] = starts[n] /\ (n \in up' => n \in up)
<1>0. starts \in [Node -> Nat]
  BY BoundAssumption DEF TypeOK
<1>1. ASSUME Start(n) PROVE starts'[n] = starts[n] + 1 /\ n \notin up
  BY <1>0, <1>1 DEF Start
<1>2. ASSUME NEW k \in Node, Start(k), k # n
      PROVE  starts'[n] = starts[n] /\ (n \in up' => n \in up)
  BY <1>0, <1>2 DEF Start
<1>3. ASSUME NEW k, NEW mail, Stops(k, mail)
      PROVE  starts'[n] = starts[n] /\ (n \in up' => n \in up)
  BY <1>3 DEF Stops
<1>4. ASSUME NEW k \in Node, Kill(k)
      PROVE  starts'[n] = starts[n] /\ (n \in up' => n \in up)
  BY <1>3, <1>4 DEF Kill
<1>5. ASSUME NEW m \in BagToSet(net), Handles(m)
      PROVE  starts'[n] = starts[n] /\ (n \in up' => n \in up)
  BY <1>3, <1>5
  DEF Handles, HandleVersion, HandleGetBlocks, HandleInv, HandleGetData, HandleBlock, Panics
<1>6. ASSUME NEW k \in Miner, StartMining(k) \/ Seal(k)
      PROVE  starts'[n] = starts[n] /\ (n \in up' => n \in up)
  BY <1>3, <1>6 DEF StartMining, Seal, Panics
<1>7. ~Start(n) => starts'[n] = starts[n] /\ (n \in up' => n \in up)
  BY <1>2, <1>4, <1>5, <1>6 DEF Next, Deliver, Handles
<1> QED
  BY <1>0, <1>1, <1>7

LEMMA BeganStep == TypeOK /\ Began /\ [Next]_vars => Began'
<1> SUFFICES ASSUME TypeOK, Began, Next PROVE Began'
  BY DEF vars, Began
<1>1. \A m \in BagToSet(net) : m.to \in up /\ m.to \in Node /\ m.from \in Node
  BY MessageFields DEF TypeOK
<1>2. ASSUME NEW n \in Node PROVE starts[n] > 0 => starts'[n] > 0
  BY StartsStep
<1>3. ASSUME NEW n \in up' PROVE starts'[n] > 0
  <2>1. n \in Node
    <3>1. TypeOK'
      BY TypeStep
    <3> QED
      BY <3>1 DEF TypeOK
  <2>2. CASE Start(n)
    BY <2>1, <2>2, StartsStep
  <2>3. CASE ~Start(n)
    BY <1>2, <1>3, <2>1, <2>3, StartsStep DEF Began
  <2> QED
    BY <2>2, <2>3
<1>4. ASSUME NEW r \in BagToSet(net') PROVE starts'[r.from] > 0
  <2>1. CASE r \in BagToSet(net)
    BY <1>1, <1>2, <2>1 DEF Began
  <2>2. ASSUME NEW n \in Node, Start(n), r = Version(n, Seed) PROVE starts'[r.from] > 0
    BY <2>2, StartsStep DEF Version
  <2>3. ASSUME NEW m \in BagToSet(net), Answers(m, r) PROVE starts'[r.from] > 0
    BY <1>1, <1>2, <2>3 DEF Answers, Began
  <2>4. ASSUME NEW n \in Miner, Announces(n, r) PROVE starts'[r.from] > 0
    <3>1. r.from = n /\ n \in Node /\ n \in up
      BY <2>4, NodesAssumption DEF Announces, TypeOK
    <3> QED
      BY <1>2, <3>1 DEF Began
  <2> QED
    BY <2>1, <2>2, <2>3, <2>4, NewMail
<1>5. ASSUME NEW n \in Node, starts'[n] = 0
      PROVE  stored'[n] = Chain(InitialTip[n]) /\ tip'[n] = InitialTip[n]
  <2>1. starts[n] = 0
    BY <1>5, StartsStep
  <2>2. n \notin up
    BY <2>1 DEF Began
  <2>3. stored'[n] = stored[n] /\ tip'[n] = tip[n]
    <3>1. ~\E m \in BagToSet(net) : m.to = n
      BY <1>1, <2>2
    <3>2. mining[n] = NotMining
      BY <2>2 DEF TypeOK
    <3> QED
      BY <3>1, <3>2, DbChange
  <2> QED
    BY <2>1, <2>3 DEF Began
<1> QED
  BY <1>3, <1>4, <1>5 DEF Began

(* As long as no block is mined, nobody sends the seed one. *)
LEMMA NothingMined ==
  ASSUME SyncInv, Next, SeedHighest, Mined' = {}
  PROVE  /\ Mined = {} /\ Workers = {} /\ transit[Seed] = << >>
         /\ \A m \in BagToSet(net) : m.to = Seed => m.type \notin {"inv", "block"}
         /\ \A m \in BagToSet(net) : m.from = Seed => m.type \notin {"getblocks", "getdata"}
         /\ \A n \in Miner : ~Seal(n)
<1>1. Mined = {} /\ Workers = {}
  BY MinedStep DEF SyncInv, Workers
<1>2. SeedSide
  BY <1>1 DEF SyncInv, SeedInv, OneMiner
<1>3. \A n \in Miner : ~Seal(n)
  BY MinedStep DEF SyncInv
<1> QED
  BY <1>1, <1>2, <1>3 DEF SeedSide

LEMMA SeedStillStep == SyncInv /\ SeedStill /\ [Next]_vars => SeedStill'
<1>0. ASSUME SeedStill, UNCHANGED vars PROVE SeedStill'
  BY <1>0 DEF vars, SeedStill, Mined
<1> SUFFICES ASSUME SyncInv, SeedStill, Next PROVE SeedStill'
  BY <1>0
<1>1. ASSUME SeedHighest, Mined' = {}
      PROVE  tip'[Seed] = InitialTip[Seed] /\ stored'[Seed] = Chain(InitialTip[Seed])
  <2>1. Mined = {} /\ \A m \in BagToSet(net) : m.to = Seed => m.type \notin {"inv", "block"}
    BY <1>1, NothingMined
  <2>2. tip[Seed] = InitialTip[Seed] /\ stored[Seed] = Chain(InitialTip[Seed])
    BY <1>1, <2>1 DEF SeedStill
  <2>3. stored'[Seed] = stored[Seed] /\ tip'[Seed] = tip[Seed]
    BY <2>1, DbChange, NodesAssumption DEF SyncInv
  <2> QED
    BY <2>2, <2>3
<1> QED
  BY <1>1 DEF SeedStill, SeedHighest

(* What a node still lacks of the seed's chain. *)
Lacks(n) ==
    \A m \in Theirs(n) :
        /\ m.type = "inv" => ToSet(m.items) = Chain(InitialTip[Seed])
        /\ m.type \in {"getdata", "block"} =>
              Chain(InitialTip[Seed]) \subseteq stored[n] \cup ToSet(transit[n]) \cup {m.hash}

LEMMA FirstRunNext ==
  ASSUME NEW n, Lone(n)', Chain(InitialTip[n]) \subseteq stored'[n],
         Chain(tip'[n]) \subseteq Chain(InitialTip[Seed]) \cup Chain(InitialTip[n]),
         Lacks(n)'
  PROVE  FirstRun(n)'
  BY DEF FirstRun, Lacks

(* A node starts for the first time: it sends the one message. *)
LEMMA FirstStart ==
  ASSUME TypeOK, Star, Began, Next, NEW n \in Node \ {Seed}, Start(n), starts'[n] <= 1
  PROVE  FirstRun(n)'
<1>1. starts[n] = 0 /\ n \notin up
  BY StartsStep
<1>2. Theirs(n) = {}
  <2>1. \A m \in BagToSet(net) : m.to # n /\ m.from # n
    BY <1>1 DEF Began, TypeOK
  <2> QED
    BY <2>1 DEF Theirs
<1>3. /\ net' = Sent(net, {Version(n, Seed)}) /\ IsABag(net)
      /\ UNCHANGED <<stored, tip, transit>>
  BY DEF Start, TypeOK
<1>4. ASSUME NEW r \in Theirs(n)' PROVE r = Version(n, Seed) /\ net'[r] = 1
  <2>1. r \in BagToSet(net') /\ r \notin BagToSet(net)
    BY <1>2, <1>4 DEF Theirs
  <2> QED
    BY <1>3, <2>1, SentCount
<1>5. Lone(n)'
  BY <1>4 DEF Lone
<1>6. Lacks(n)'
  BY <1>4 DEF Lacks, Version
<1>7. stored'[n] = Chain(InitialTip[n]) /\ tip'[n] = InitialTip[n]
  BY <1>1, <1>3 DEF Began
<1> QED
  BY <1>5, <1>6, <1>7, FirstRunNext

LEMMA QuietRun ==
  ASSUME NEW n \in Node, FirstRun(n), Quiet(n)
  PROVE  FirstRun(n)'
<1>1. Lone(n)'
  BY DEF FirstRun, Lone, Quiet
<1>2. Lacks(n)'
  BY DEF FirstRun, Lacks, Quiet
<1> QED
  BY <1>1, <1>2, FirstRunNext DEF FirstRun, Quiet

(* The message of a node in its first run is handled, and answered. *)
LEMMA AnsweredRun ==
  ASSUME SyncInv, SeedStill, Next, SeedHighest, Mined' = {},
         NEW n \in Node \ {Seed}, n \in up', FirstRun(n), NEW m \in Theirs(n), Handles(m)
  PROVE  FirstRun(n)'
<1> DEFINE Whole == Chain(InitialTip[Seed])
<1>0. /\ TypeOK /\ Star /\ Held /\ Seed \in Node /\ Seed \notin Miner
      /\ Mined = {} /\ tip[Seed] = InitialTip[Seed] /\ stored[Seed] = Whole
      /\ transit[Seed] = << >>
      /\ \A x \in BagToSet(net) : x.to = Seed => x.type \notin {"inv", "block"}
      /\ \A x \in BagToSet(net) : x.from = Seed => x.type \notin {"getblocks", "getdata"}
      /\ \A k \in Miner : ~Seal(k)
  BY NothingMined, NodesAssumption DEF SyncInv, SeedStill
<1>1. /\ m \in BagToSet(net) /\ m \in Message /\ m.to \in Node /\ m.from \in Node
      /\ {m.from, m.to} = {n, Seed} /\ Theirs(n) = {m}
  BY <1>0, MessageFields DEF TypeOK, Star, Theirs, FirstRun, Lone
<1>2. Lone(n)' /\ Theirs(n)' \cap BagToSet(net) = {}
  BY <1>0, LoneAnswer DEF FirstRun
<1>3. stored[n] \subseteq stored'[n]
  BY <1>0, DbChange
<1>4. Chain(tip'[n]) \subseteq Whole \cup Chain(InitialTip[n])
  <2>1. CASE tip'[n] = tip[n]
    BY <2>1 DEF FirstRun
  <2>2. ASSUME NEW x \in BagToSet(net), x.to = n, x.type = "block", tip'[n] = x.hash
        PROVE  Chain(tip'[n]) \subseteq Whole
    <3>1. x.from = Seed /\ x.hash \in Whole
      BY <1>0, <2>2 DEF Star, Held
    <3> QED
      BY <1>0, <2>2, <3>1, InitialBlocks, ChainFacts
  <2> QED
    BY <1>0, <2>1, <2>2, DbChange
<1>5. ASSUME NEW r \in Theirs(n)'
      PROVE  /\ r.type = "inv" => ToSet(r.items) = Whole
             /\ r.type \in {"getdata", "block"} =>
                   Whole \subseteq stored'[n] \cup ToSet(transit'[n]) \cup {r.hash}
  <2>1. r \in BagToSet(net') /\ r \notin BagToSet(net) /\ n \in {r.from, r.to}
    BY <1>2, <1>5 DEF Theirs
  <2>2. ASSUME NEW k \in Node, r = Version(k, Seed) PROVE r.type = "version"
    BY <2>2 DEF Version
  <2>3. ASSUME NEW x \in BagToSet(net), Answers(x, r)
        PROVE  /\ r.type = "inv" => ToSet(r.items) = Whole
               /\ r.type \in {"getdata", "block"} =>
                     Whole \subseteq stored'[n] \cup ToSet(transit'[n]) \cup {r.hash}
    <3>1. x = m /\ r.from = m.to /\ r.to = m.from
      BY <1>1, <2>1, <2>3 DEF Answers, Theirs
    <3>2. CASE r.type = "inv"
      <4>1. m.type = "getblocks" /\ r.items = GetBlockHashes(tip[m.to])
        BY <2>3, <3>1, <3>2 DEF Answers
      <4>2. m.to = Seed
        BY <1>0, <1>1, <4>1
      <4>3. tip[Seed] \in Block /\ r.items = GetBlockHashes(tip[Seed])
        BY <1>0, <4>1, <4>2 DEF TypeOK
      <4> QED
        BY <1>0, <3>2, <4>3, HashesFacts
    <3>3. CASE r.type = "getdata" /\ m.type = "inv"
      <4>1. r.hash = Head(m.items) /\ HandleInv(m)
        BY <2>3, <3>1, <3>3
        DEF Answers, Handles, HandleVersion, HandleGetBlocks, HandleGetData, HandleBlock
      <4>2. m.to = n /\ ToSet(m.items) = Whole
        BY <1>0, <1>1, <3>3 DEF FirstRun
      <4>3. m.items \in Seq(Block)
        BY <1>1, <3>3, MessageFields
      <4>4. ToSet(Without(m.items, {r.hash})) = ToSet(m.items) \ {r.hash}
        BY <4>3, WithoutElements
      <4>5. transit'[n] = Without(m.items, {r.hash})
        BY <1>0, <4>1, <4>2 DEF HandleInv, TypeOK
      <4> QED
        BY <3>3, <4>2, <4>4, <4>5
    <3>4. CASE r.type = "getdata" /\ m.type = "block"
      <4>1. r.hash = Head(transit[m.to]) /\ transit[m.to] # << >> /\ HandleBlock(m)
        BY <2>3, <3>1, <3>4
        DEF Answers, Handles, HandleVersion, HandleGetBlocks, HandleInv, HandleGetData
      <4>2. m.to = n
        BY <1>0, <1>1, <3>4
      <4>3. /\ Whole \subseteq stored[n] \cup ToSet(transit[n]) \cup {m.hash}
            /\ transit[n] \in Seq(Block)
        BY <1>0, <3>4 DEF FirstRun, TypeOK
      <4>4. ToSet(transit[n]) = {r.hash} \cup ToSet(Tail(transit[n]))
        BY <4>1, <4>2, <4>3, HeadTailElements
      <4>5. transit'[n] = Tail(transit[n]) /\ stored'[n] = stored[n] \cup {m.hash}
        BY <1>0, <4>1, <4>2 DEF HandleBlock, AddBlock, TypeOK
      <4> QED
        BY <3>4, <4>3, <4>4, <4>5
    <3>5. CASE r.type = "block"
      <4>1. m.type = "getdata" /\ r.hash = m.hash /\ HandleGetData(m)
        BY <2>3, <3>1, <3>5
        DEF Answers, Handles, HandleVersion, HandleGetBlocks, HandleInv, HandleBlock
      <4>2. stored' = stored /\ transit' = transit
        BY <4>1 DEF HandleGetData
      <4>3. Whole \subseteq stored[n] \cup ToSet(transit[n]) \cup {m.hash}
        BY <4>1 DEF FirstRun
      <4> QED
        BY <3>5, <4>1, <4>2, <4>3
    <3>6. r.type = "getdata" => m.type \in {"inv", "block"}
      BY <2>3, <3>1 DEF Answers
    <3> QED
      BY <3>2, <3>3, <3>4, <3>5, <3>6
  <2>4. ASSUME NEW k \in Miner, Announces(k, r) PROVE FALSE
    BY <1>0, <2>4 DEF Announces
  <2> QED
    BY <1>0, <2>1, <2>2, <2>3, <2>4, NewMail
<1>6. Lacks(n)'
  BY <1>5 DEF Lacks
<1> QED
  BY <1>2, <1>3, <1>4, <1>6, FirstRunNext DEF FirstRun


(* A node in its first run walks a whole chain, and so does the seed. *)
LEMMA NoWalkFails ==
  ASSUME SyncInv, SeedStill, WalkInv, Next, SeedHighest, Mined' = {},
         \A n \in Node \ {Seed} : starts'[n] <= 1
  PROVE  panicked' \subseteq {"MineTx"}
<1> DEFINE Whole == Chain(InitialTip[Seed])
<1>0. /\ TypeOK /\ Star /\ Seed \in Node
      /\ Mined = {} /\ tip[Seed] = InitialTip[Seed] /\ stored[Seed] = Whole
      /\ \A x \in BagToSet(net) : x.to = Seed => x.type \notin {"inv", "block"}
      /\ \A x \in BagToSet(net) : x.from = Seed => x.type \notin {"getblocks", "getdata"}
  BY NothingMined, NodesAssumption DEF SyncInv, SeedStill
<1>1. \A n \in Node \ {Seed} : starts[n] <= 1
  BY <1>0, StartsStep
<1>2. panicked \subseteq {"MineTx"} /\ \A n \in up \ {Seed} : FirstRun(n)
  BY <1>0, <1>1 DEF WalkInv, TypeOK
<1>3. ASSUME NEW m \in BagToSet(net)
      PROVE  m.to \in up /\ m.to \in Node /\ Seed \in {m.from, m.to}
  BY <1>0 DEF TypeOK, Star
<1>4. ASSUME NEW m \in BagToSet(net), HandleGetBlocks(m) PROVE panicked' = panicked
  <2>1. m.to = Seed
    BY <1>0, <1>3, <1>4 DEF HandleGetBlocks
  <2>2. Rooted(Seed)
    BY <1>0 DEF Rooted
  <2> QED
    BY <1>4, <2>1, <2>2 DEF HandleGetBlocks
<1>5. ASSUME NEW m \in BagToSet(net), HandleBlock(m) PROVE panicked' = panicked
  <2> DEFINE n == m.to
  <2>1. m.type = "block" /\ n # Seed /\ n \in up /\ n \in Node /\ m.from = Seed
    BY <1>0, <1>3, <1>5 DEF HandleBlock
  <2>2. FirstRun(n) /\ m \in Theirs(n)
    BY <1>2, <2>1 DEF Theirs
  <2>3. transit[n] = << >> => Rooted(n)'
    <3>1. SUFFICES ASSUME transit[n] = << >> PROVE Chain(tip'[n]) \subseteq stored'[n]
      BY DEF Rooted
    <3>2. ToSet(transit[n]) = {}
      BY <3>1 DEF ToSet
    <3>3. Whole \subseteq stored[n] \cup {m.hash} /\ Chain(InitialTip[n]) \subseteq stored[n]
      BY <2>1, <2>2, <3>2 DEF FirstRun
    <3>4. /\ stored'[n] = stored[n] \cup {m.hash}
          /\ tip'[n] = tip[n] \/ tip'[n] = m.hash
      BY <1>0, <1>5, <2>1 DEF HandleBlock, AddBlock, TypeOK
    <3>5. Chain(m.hash) \subseteq Whole
      <4>1. m.hash \in Whole
        BY <1>0, <2>1 DEF SyncInv, Held
      <4> QED
        BY <1>0, <4>1, InitialBlocks, ChainFacts
    <3>6. Chain(tip[n]) \subseteq Whole \cup Chain(InitialTip[n])
      BY <2>2 DEF FirstRun
    <3> QED
      BY <3>3, <3>4, <3>5, <3>6
  <2> QED
    BY <1>5, <2>3 DEF HandleBlock
<1>6. ASSUME NEW m \in BagToSet(net), HandleVersion(m) \/ HandleInv(m) \/ HandleGetData(m)
      PROVE  panicked' = panicked
  BY <1>6 DEF HandleVersion, HandleInv, HandleGetData
<1>7. ASSUME NEW n \in Node, Start(n) \/ Kill(n) PROVE panicked' = panicked
  BY <1>7 DEF Start, Kill
<1>8. ASSUME NEW n \in Miner, StartMining(n) \/ Seal(n)
      PROVE  panicked' \subseteq panicked \cup {"MineTx"}
  BY <1>8 DEF StartMining, Seal, Panics
<1> QED
  BY <1>2, <1>4, <1>5, <1>6, <1>7, <1>8 DEF Next, Deliver

LEMMA WalkStep == SyncInv /\ SeedStill /\ Began /\ WalkInv /\ [Next]_vars => WalkInv'
<1>0. ASSUME WalkInv, UNCHANGED vars PROVE WalkInv'
  BY <1>0 DEF vars, WalkInv, FirstRun, Lone, Theirs, Mined
<1> SUFFICES ASSUME SyncInv, SeedStill, Began, WalkInv, Next PROVE WalkInv'
  BY <1>0
<1>1. ASSUME SeedHighest, Mined' = {}, NEW n \in up' \ {Seed}, starts'[n] <= 1
      PROVE  FirstRun(n)'
  <2>1. n \in Node
    <3>1. TypeOK'
      BY TypeStep DEF SyncInv
    <3> QED
      BY <1>1, <3>1 DEF TypeOK
  <2>2. CASE Start(n)
    BY <1>1, <2>1, <2>2, FirstStart DEF SyncInv
  <2>3. CASE ~Start(n)
    <3>1. n \in up /\ starts[n] <= 1
      BY <1>1, <2>1, <2>3, StartsStep DEF SyncInv
    <3>2. FirstRun(n)
      BY <1>1, <3>1, NothingMined DEF WalkInv
    <3>3. CASE Quiet(n)
      BY <2>1, <3>2, <3>3, QuietRun
    <3>4. ASSUME NEW m \in Theirs(n), Handles(m) PROVE FirstRun(n)'
      BY <1>1, <2>1, <3>2, <3>4, AnsweredRun
    <3> QED
      BY <1>1, <2>1, <3>1, <3>3, <3>4, QuietStep DEF SyncInv
  <2> QED
    BY <2>2, <2>3
<1>2. ASSUME SeedHighest, Mined' = {}, \A n \in Node \ {Seed} : starts'[n] <= 1
      PROVE  panicked' \subseteq {"MineTx"}
  BY <1>2, NoWalkFails
<1> QED
  BY <1>1, <1>2 DEF WalkInv, SeedHighest

LEMMA WalkInit == Init => SeedStill /\ Began /\ WalkInv
<1> SUFFICES ASSUME Init PROVE SeedStill /\ Began /\ WalkInv
  OBVIOUS
<1>1. BagToSet(net) = {}
  BY BagEmpty DEF Init
<1>2. SeedStill
  BY NodesAssumption DEF Init, SeedStill
<1>3. Began
  BY <1>1 DEF Init, Began
<1>4. WalkInv
  BY DEF Init, WalkInv
<1> QED
  BY <1>2, <1>3, <1>4

(* Until a block is mined, and as long as no node but the seed is started  *)
(* again, GetBlockHashes and the Reindex after a synchronisation walk      *)
(* whole chains, whatever is killed and whatever chains the databases held *)
(* at first.                                                               *)
THEOREM NoPanicAlways == Spec => []NoPanic
<1> DEFINE Inv2 == SyncInv /\ SeedStill /\ Began /\ WalkInv
<1>1. Init => Inv2
  BY SyncInit, WalkInit
<1>2. Inv2 /\ [Next]_vars => Inv2'
  BY SyncStep, SeedStillStep, BeganStep, WalkStep DEF SyncInv
<1>3. Inv2 => NoPanic
  BY DEF WalkInv, NoPanic
<1> QED
  BY <1>1, <1>2, <1>3, PTL DEF Spec
=============================================================================
