-------------------------- MODULE MCLocalRecords --------------------------
(* Model values for checking LocalRecords with two mice. *)
EXTENDS LocalRecords, TLC

CONSTANTS m1, m2, plain, old, new, shelf0, shelf1

TwoMice == {m1, m2}
ThreeValues == {plain, old, new}
TwoLibraries == {shelf0, shelf1}
MouseSymmetry == Permutations(TwoMice)
=============================================================================
