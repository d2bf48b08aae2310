---------------------------- MODULE MCCliLedger ----------------------------
(* Instances of CliLedger: two owners, who are interchangeable. *)
EXTENDS CliLedger, TLC

Symmetry == Permutations(Owner)

MCTxId == 1 .. 2 * MaxBlocks

=============================================================================
