---------------------------- MODULE MCKeyManager ----------------------------
(* The key manager on small instances: two goroutines, two file numbers.   *)
EXTENDS KeyManager, TLC
CONSTANTS p1, p2, f1, f2
MCSymmetry == Permutations({p1, p2}) \cup Permutations({f1, f2})
=============================================================================
