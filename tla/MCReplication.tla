---------------------------- MODULE MCReplication ----------------------------
(* Small instances of Replication for TLC.                                 *)
EXTENDS Replication, TLC

Lengths == [change |-> 1, ask |-> 1]

Symmetry == Permutations(Impatient) \cup Permutations(Clients \ Impatient)
            \cup Permutations(Replicas)
=============================================================================
