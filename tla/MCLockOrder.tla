---------------------------- MODULE MCLockOrder ----------------------------
(* Model values for checking LockOrder with three goroutines. *)
EXTENDS LockOrder

CONSTANTS c1, c2, c3

ThreeCallers == {c1, c2, c3}
CallerSymmetry == Permutations(ThreeCallers)
=============================================================================
