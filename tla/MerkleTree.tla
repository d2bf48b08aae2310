----------------------------- MODULE MerkleTree -----------------------------
(***************************************************************************)
(* The tree of a block's transactions (blockchain/merkle.go).  A hash      *)
(* stands for what was hashed: that of a leaf is <<datum>>, that of an     *)
(* inner node the pair of its children's.                                  *)
(***************************************************************************)
EXTENDS Naturals, SequencesExt

HashLeaf(datum) == <<datum>>

(* Mutant: append writes the right child's hash over the left one's. *)
HashRight(left, right) == <<right, right>>

HashPair(left, right) == <<left, right>>

(* Mutant: an odd number of leaves is left as it is. *)
Unpadded(data) == data

(* An odd number of data is made even by repeating the last. *)
Padded(data) == IF Len(data) % 2 = 1 THEN Append(data, Last(data)) ELSE data

(* Mutant: a node is paired with the one half a level further. *)
ParentsAcross(nodes) ==
    [j \in 1 .. Len(nodes) \div 2 |-> HashPair(nodes[j], nodes[j + Len(nodes) \div 2])]

Parents(nodes) ==
    [j \in 1 .. Len(nodes) \div 2 |-> HashPair(nodes[2 * j - 1], nodes[2 * j])]

(* The levels from the leaves up, which NewMerkleTree builds until one     *)
(* node remains.                                                           *)
Levels(data) ==
    LET leaves == Padded(data)
        level[k \in 0 .. Len(data)] ==
            IF k = 0 THEN [i \in DOMAIN leaves |-> HashLeaf(leaves[i])]
                     ELSE Parents(level[k - 1])
    IN  level

(* The number of levels below the first of one node, or of an odd number:  *)
(* there the last node has no pair, which is a panic.                      *)
Top(data) ==
    CHOOSE k \in 0 .. Len(data) :
        /\ Len(Levels(data)[k]) % 2 = 1
        /\ \A i \in 0 .. k - 1 : Len(Levels(data)[i]) % 2 = 0

Builds(data) == Len(Levels(data)[Top(data)]) = 1

RootNode(data) == Levels(data)[Top(data)][1]

PowerOfTwo[e \in Nat] == IF e = 0 THEN 1 ELSE 2 * PowerOfTwo[e - 1]

(* NewMerkleTree finds a pair for every node: the number of leaves, padded *)
(* to be even, is a power of two.                                          *)
Pairable(k) == \E e \in 1 .. k : k + (k % 2) = PowerOfTwo[e]

-----------------------------------------------------------------------------
(* The root as it is meant: over the 2^k leaves after the first i, that of *)
(* their first half paired with that of their second.                      *)
TreeRoot(leaves) ==
    LET over[k \in 0 .. Len(leaves)] ==
            [i \in 0 .. Len(leaves) - PowerOfTwo[k] |->
                IF k = 0 THEN HashLeaf(leaves[i + 1])
                         ELSE HashPair(over[k - 1][i], over[k - 1][i + PowerOfTwo[k - 1]])]
    IN  over[CHOOSE k \in 0 .. Len(leaves) : PowerOfTwo[k] = Len(leaves)][0]

=============================================================================
