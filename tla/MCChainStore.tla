---------------------------- MODULE MCChainStore ----------------------------
(* A small tree of blocks for ChainStore: "a1" and "a2" grow on genesis,   *)
(* "b1" is their rival, and every "m" block is one this node may mine.     *)
EXTENDS ChainStore, TLC

MCPrev ==
    "g" :> "none" @@ "a1" :> "g" @@ "a2" :> "a1" @@ "b1" :> "g" @@
    "m1" :> "g" @@ "n1" :> "g" @@ "m2" :> "m1" @@ "ma2" :> "a1" @@ "ma3" :> "a2"

MCHash == DOMAIN MCPrev

MCHeight ==
    "g" :> 0 @@ "a1" :> 1 @@ "a2" :> 2 @@ "b1" :> 1 @@
    "m1" :> 1 @@ "n1" :> 1 @@ "m2" :> 2 @@ "ma2" :> 2 @@ "ma3" :> 3

MCRemote == {"a1", "a2", "b1"}

=============================================================================
