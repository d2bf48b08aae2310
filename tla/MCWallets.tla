----------------------------- MODULE MCWallets ------------------------------
EXTENDS Wallets, TLC

CONSTANTS k1, k2, k3

MCKey == {k1, k2, k3}

(* Bits for bytes: 5 and 6 have three, 2 has two, 1 has one. *)
MCPoint == (k1 :> <<5, 6>>) @@ (k2 :> <<5, 1>>) @@ (k3 :> <<1, 2>>)

MCPairs == (1 .. 7) \X (1 .. 7)
=============================================================================
