---------------------------- MODULE LongestChain ----------------------------
(***************************************************************************)
(* What a node's block store keeps of its promises (the comments of        *)
(* AddBlock and of the BlockChain struct).  It learns blocks and forgets   *)
(* none.  A block of another node becomes the tip only when it is higher   *)
(* than the tip, so among blocks of the same height the one learned first  *)
(* stays.  A block of its own becomes the tip whatever its height.         *)
(***************************************************************************)
EXTENDS Naturals

CONSTANTS
    Hash, Genesis, Prev, Height,
    Own        \* the blocks that this node mines

VARIABLES known, tip

vars == <<known, tip>>

Init == known = {Genesis} /\ tip = Genesis

Learn(h) ==
    /\ h \notin known \cup Own
    /\ known' = known \cup {h}
    /\ tip' = IF Height[h] > Height[tip] THEN h ELSE tip

(* A new block of its own extends a block that it knows. *)
Mine(h) ==
    /\ h \in Own \ known
    /\ Prev[h] \in known
    /\ known' = known \cup {h}
    /\ tip' = h

Next == \E h \in Hash : Learn(h) \/ Mine(h)

Spec == Init /\ [][Next]_vars

=============================================================================
