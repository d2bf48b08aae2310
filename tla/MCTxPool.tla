------------------------------ MODULE MCTxPool ------------------------------
(* An instance of TxPool: the seed is one block ahead of the miner, and t3 *)
(* spends an output of that block.                                         *)
EXTENDS TxPool, TLC

CONSTANTS seed, m1, t0, t1, t2, t3

MCNeeds == [t \in Id |-> IF t = t3 THEN {t0} ELSE {}]

MCMaxSends == [t \in Tx |-> 1]

MCInitialChain == [n \in Node |-> IF n = Seed THEN <<{t0}>> ELSE << >>]

=============================================================================
