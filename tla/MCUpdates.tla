------------------------------ MODULE MCUpdates ------------------------------
(* Three releases; the second carries the rules of the first.               *)
EXTENDS UnifiedUpdate

MCPolicyOf == [v \in Versions |-> IF v = 0 THEN 0 ELSE 1]

\* Two releases, two attempts, or an edit of the rules in one of them.
Bound == published + edits + created <= 3
=============================================================================
