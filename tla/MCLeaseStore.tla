---------------------------- MODULE MCLeaseStore ----------------------------
(* Model-checking instance of LeaseStore.                                  *)
EXTENDS LeaseStore, TLC

Symmetry == Permutations(Jobs) \cup Permutations(Holders)
=============================================================================
