------------------------------ MODULE Wallets -------------------------------
(***************************************************************************)
(* The wallets file of a node (wallet/wallets.go) under the commands       *)
(* createwallet, listaddresses and send, which no lock keeps apart, and    *)
(* the keys in it: whether what send signs with a key verifies.  ecdsa     *)
(* signs the first 32 bytes it is given; these are the same for every      *)
(* transaction, "--- Transaction " in hexadecimal digits, and do not occur *)
(* here.                                                                   *)
(***************************************************************************)
EXTENDS Signature, FiniteSets

CONSTANTS
    Process,   \* the commands that run at the same time
    Key,       \* the keys that NewKeyPair can make
    Point,     \* their public keys, each a pair of numbers
    Pairs,     \* the pairs of numbers a signature can be
    Absent,    \* there is no file
    Empty      \* the file has been truncated, and does not decode

ASSUME KeyAssumption ==
    /\ Pairs \subseteq (1 .. Power[Width] - 1) \X (1 .. Power[Width] - 1)
    /\ Point \in [Key -> Pairs]

ASSUME FileAssumption == Absent # Empty /\ \A keys \in SUBSET Key : keys # Absent /\ keys # Empty

VARIABLES
    file,         \* the keys in the file
    command,      \* where each command is, and the keys it holds in memory
    printed,      \* history: the keys whose addresses createwallet has printed
    verdicts,     \* history: signatures made, and whether Verify accepts them
    overlapped,   \* history: createwallet loaded the file while another ran
    torn          \* history: createwallet was killed between truncate and write

vars == <<file, command, printed, verdicts, overlapped, torn>>

-----------------------------------------------------------------------------
Idle == [pc |-> "idle", keys |-> {}, new |-> {}]

Saved == IF file = Absent THEN {} ELSE file

Goes(p, local) == command' = [command EXCEPT ![p] = local]

Creating(p) == command[p].pc \in {"created", "write"}

Init ==
    /\ file = Absent
    /\ command = [p \in Process |-> Idle]
    /\ printed = {}
    /\ verdicts = {}
    /\ overlapped = FALSE
    /\ torn = FALSE

(* Mutant: where there is no file to load, no key is made. *)
CreateIfFile(p, k) ==
    /\ command[p] = Idle
    /\ file # Empty
    /\ k \notin Saved \cup printed /\ \A q \in Process : k \notin command[q].new
    /\ Goes(p, [pc |-> "created", keys |-> Saved, new |-> IF file = Absent THEN {} ELSE {k}])
    /\ overlapped' = (overlapped \/ \E q \in Process : Creating(q))
    /\ UNCHANGED <<file, printed, verdicts, torn>>

(* createwallet: CreateWallets loads the file, AddWallet makes a new key   *)
(* in memory.                                                              *)
Create(p, k) ==
    /\ command[p] = Idle
    /\ file # Empty
    /\ k \notin Saved \cup printed /\ \A q \in Process : k \notin command[q].new
    /\ Goes(p, [pc |-> "created", keys |-> Saved, new |-> {k}])
    /\ overlapped' = (overlapped \/ \E q \in Process : Creating(q))
    /\ UNCHANGED <<file, printed, verdicts, torn>>

(* Mutant: the first save only makes the file. *)
TruncateFirst(p) ==
    /\ command[p].pc = "created"
    /\ file' = Empty
    /\ Goes(p, IF command[p].keys = {} THEN Idle ELSE [command[p] EXCEPT !.pc = "write"])
    /\ UNCHANGED <<printed, verdicts, overlapped, torn>>

(* SaveFile: WriteFile opens the file and truncates it ... *)
Truncate(p) ==
    /\ command[p].pc = "created"
    /\ file' = Empty
    /\ Goes(p, [command[p] EXCEPT !.pc = "write"])
    /\ UNCHANGED <<printed, verdicts, overlapped, torn>>

(* Mutant: only the new wallet is written. *)
WriteNew(p) ==
    /\ command[p].pc = "write"
    /\ file' = command[p].new
    /\ printed' = printed \cup command[p].new
    /\ Goes(p, Idle)
    /\ UNCHANGED <<verdicts, overlapped, torn>>

(* ... and writes all wallets; then the address is printed. *)
Write(p) ==
    /\ command[p].pc = "write"
    /\ file' = command[p].keys \cup command[p].new
    /\ printed' = printed \cup command[p].new
    /\ Goes(p, Idle)
    /\ UNCHANGED <<verdicts, overlapped, torn>>

(* The command is killed.  What of the file a killed write left cannot be  *)
(* decoded either.                                                         *)
Kill(p) ==
    /\ command[p] # Idle
    /\ Goes(p, Idle)
    /\ torn' = (torn \/ command[p].pc = "write")
    /\ UNCHANGED <<file, printed, verdicts, overlapped>>

(* send loads the file; a key that is not there, and a file that was       *)
(* truncated, are a panic.  Otherwise it signs, and MineBlock or a miner   *)
(* verifies.  (listaddresses only loads.)                                  *)
Send(p, k, sig) ==
    /\ command[p] = Idle
    /\ file # Empty
    /\ k \in Saved
    /\ verdicts' = {[key |-> k, sig |-> sig,
                     accepted |-> Recovered(sig) /\ Recovered(Point[k])]}
    /\ UNCHANGED <<file, command, printed, overlapped, torn>>

Next ==
    \E p \in Process :
        \/ \E k \in Key : Create(p, k)
        \/ Truncate(p)
        \/ Write(p)
        \/ Kill(p)
        \/ \E k \in Key, sig \in Pairs : Send(p, k, sig)

Spec == Init /\ [][Next]_vars

-----------------------------------------------------------------------------
TypeOK ==
    /\ file \in {Absent, Empty} \cup SUBSET Key
    /\ command \in [Process -> [pc : {"idle", "created", "write"},
                                keys : SUBSET Key, new : SUBSET Key]]
    /\ \A p \in Process :
        Cardinality(command[p].new) = IF Creating(p) THEN 1 ELSE 0
    /\ printed \subseteq Key
    /\ overlapped \in BOOLEAN /\ torn \in BOOLEAN

(* A key whose address was printed can be spent with for ever: it stays in *)
(* the file, or in what a command is about to write, unless two commands   *)
(* createwallet overlapped or one was killed while it saved.               *)
KeysKept ==
    ~overlapped /\ ~torn =>
        IF file = Empty
        THEN \E p \in Process : command[p].pc = "write" /\ printed \subseteq command[p].keys
        ELSE printed \subseteq Saved

(* The file can be read, or a command is writing it, unless one was killed *)
(* at that, however commands overlap.                                      *)
Readable == file = Empty => torn \/ \E p \in Process : command[p].pc = "write"

(* A payment is accepted just when of signature and public key both second *)
(* numbers are as long as the first, or one byte longer: one that begins   *)
(* with a zero byte mostly makes the payment invalid.                      *)
AcceptedWhenEven ==
    \A v \in verdicts :
        v.accepted <=> \A pair \in {v.sig, Point[v.key]} :
                            ByteLen(pair[2]) - ByteLen(pair[1]) \in {0, 1}

=============================================================================
