---------------------------- MODULE MCBlockProof ----------------------------
EXTENDS BlockProof

CONSTANTS s, x, y

(* All lists of up to four transactions, and some of five to eight. *)
MCTransactions ==
    UNION {[1 .. k -> {x, y}] : k \in 1 .. 4}
        \cup {[i \in 1 .. k |-> IF i \in {1, 3, 7} THEN x ELSE y] : k \in 5 .. 8}

MCTypes == [version |-> 1, inv |-> 2]
=============================================================================
