----------------------------- MODULE Signature ------------------------------
(***************************************************************************)
(* How a signature (r, s) and a public key (X, Y) are stored as bytes and  *)
(* read back (Sign and Verify of blockchain/transaction.go, NewKeyPair of  *)
(* wallet/wallet.go).                                                      *)
(***************************************************************************)
EXTENDS Naturals, Sequences

CONSTANTS
    Base,     \* the values of a byte
    Width     \* bound: how many bytes a number has at most

ASSUME WidthAssumption == Base \in Nat \ {0, 1} /\ Width \in Nat

(* The powers of the base. *)
Power[k \in Nat] == IF k = 0 THEN 1 ELSE Base * Power[k - 1]

(* How many bytes a number has without leading zeros. *)
ByteLen(n) == CHOOSE k \in 0 .. Width : n < Power[k] /\ \A i \in 0 .. k - 1 : n >= Power[i]

(* Mutant: the number is filled up to its width. *)
FullBytes(n) == [i \in 1 .. Width |-> (n \div Power[Width - i]) % Base]

(* big.Int's Bytes: the most significant byte first, no leading zeros. *)
Bytes(n) == [i \in 1 .. ByteLen(n) |-> (n \div Power[ByteLen(n) - i]) % Base]

(* SetBytes. *)
FromBytes(bytes) ==
    LET upto[k \in 0 .. Len(bytes)] ==
            IF k = 0 THEN 0 ELSE Base * upto[k - 1] + bytes[k]
    IN  upto[Len(bytes)]

(* The two numbers are stored one after the other ... *)
Joined(pair) == Bytes(pair[1]) \o Bytes(pair[2])

(* ... and read back as the two halves. *)
Halves(bytes) ==
    LET half == Len(bytes) \div 2
    IN  <<FromBytes(SubSeq(bytes, 1, half)), FromBytes(SubSeq(bytes, half + 1, Len(bytes)))>>

Recovered(pair) == Halves(Joined(pair)) = pair

=============================================================================
