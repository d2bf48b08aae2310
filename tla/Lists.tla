------------------------------- MODULE Lists --------------------------------
(***************************************************************************)
(* How network/network.go takes elements out of a list: a loop appends     *)
(* those that stay to a new list (the other blocks of an inventory in      *)
(* HandleInv, the nodes that answer in SendData).                          *)
(***************************************************************************)
EXTENDS Naturals, Sequences

Without(list, gone) ==
    LET kept[i \in 0 .. Len(list)] ==
            IF i = 0 THEN << >>
            ELSE IF list[i] \in gone THEN kept[i - 1]
            ELSE Append(kept[i - 1], list[i])
    IN  kept[Len(list)]

=============================================================================
