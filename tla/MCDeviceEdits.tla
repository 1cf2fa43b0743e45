--------------------------- MODULE MCDeviceEdits ---------------------------
(* Model values for checking DeviceEdits with two values a setting and one macro button. *)
EXTENDS DeviceEdits, TLC

CONSTANTS low, high, fire, v1, v2

TwoValues == {low, high}
OneButton == {fire}
TwoMacros == {v1, v2}
MacroSymmetry == Permutations(TwoMacros)
=============================================================================
