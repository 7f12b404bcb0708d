---------------------------- MODULE MCTransaction ----------------------------
(* Transactions on small instances.                                        *)
EXTENDS Transaction, TLC
MCSymmetry == Permutations(Procs)
=============================================================================
