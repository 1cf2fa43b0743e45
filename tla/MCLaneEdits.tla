---------------------------- MODULE MCLaneEdits ----------------------------
(* Model values for checking LaneEdits with one mouse and with two. *)
EXTENDS LaneEdits

CONSTANTS m1, m2, low, mid, high

OneMouse == {m1}
TwoMice == {m1, m2}
MCValues == {low, mid, high}
=============================================================================
