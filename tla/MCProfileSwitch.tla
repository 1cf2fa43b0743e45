-------------------------- MODULE MCProfileSwitch --------------------------
(* Model values for checking ProfileSwitch. *)
EXTENDS ProfileSwitch, TLC

CONSTANTS m1, m2, c1, c2, p1, p2

MCDevices == {m1, m2}
OneCaller == {c1}
MCProfiles == {p1, p2}
MCMacroProfiles == {p2}
\* A draft is watched on its own: no crash, one refresh.
Bound == drafts > 0 => crashes = 0 /\ rev <= 1

MiceSymmetry == Permutations(MCDevices)
=============================================================================
