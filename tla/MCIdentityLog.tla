---------------------------- MODULE MCIdentityLog ----------------------------
(* Small instances of IdentityLog. *)
EXTENDS IdentityLog, TLC

CONSTANTS a, b, w1, w2, w3, k1, k2

\* w1 and w2 are the same write, sent twice.
SameKey == [r \in Requests |-> IF r = w3 THEN k2 ELSE k1]
OwnKeys == [r \in Requests |-> r]
WriteFaults == {"lost", "timeout", "drop", "crash"}
RecoverableFaults == {"lost", "outage", "timeout", "drop", "crash"}
EnableFaults == {"lost", "crash", "verify", "new_store"}
MachineSymmetry == Permutations(Machines)
WriteSymmetry == MachineSymmetry \cup Permutations({w1, w2})

=============================================================================
