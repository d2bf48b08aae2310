------------------------------- MODULE MCSync -------------------------------
(* Instances of Sync: the seed, a miner and a node that does neither. *)
EXTENDS Sync

CONSTANTS seed, miner, other

MCNode == {seed, miner, other}

(* The seed is two blocks ahead of the miner, one ahead of the other. *)
SeedAhead ==
    [n \in MCNode |-> CASE n = seed  -> <<seed, seed>>
                        [] n = other -> <<seed>>
                        [] n = miner -> << >>]

=============================================================================
