---------------------------- MODULE MCAppendOnly ----------------------------
(* Small instances of AppendOnly for TLC.                                  *)
EXTENDS AppendOnly, TLC

Symmetry == Permutations(Clients)
=============================================================================
