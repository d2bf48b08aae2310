---------------------------- MODULE MCHandlers ------------------------------
EXTENDS Handlers

CONSTANTS a, b, c, d, e

(* "a" is spent two blocks after it was made, "b" never, "c" by the last. *)
MCTx == {"t0", "t1", "t2", "t3"}
MCOutputs == [t0 |-> {a, b}, t1 |-> {c}, t2 |-> {d}, t3 |-> {e}]
MCBorn == [t0 |-> 0, t1 |-> 1, t2 |-> 2, t3 |-> 3]
MCSpent == (a :> 2) @@ (b :> 9) @@ (c :> 3) @@ (d :> 9) @@ (e :> 9)

(* A chain of two blocks after genesis, then a third block announced. *)
MCInventories == {<<2, 1, 0>>, <<3>>}
MCOneInventory == {<<3, 2, 1, 0>>}
=============================================================================
