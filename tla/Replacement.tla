----------------------------- MODULE Replacement -----------------------------
(***************************************************************************)
(* What an update of the installed program promises, whatever files it     *)
(* uses: the program is one whole version at any time, a newer version     *)
(* takes its place in one step, a power loss goes back at most to the last *)
(* version known to be on the disk, and a version reported as installed is *)
(* on the disk.                                                            *)
(***************************************************************************)
EXTENDS Naturals

CONSTANTS MaxVersion

VARIABLES current,   \* the version a recovery now would leave
          safe,      \* the version a recovery after a power loss would leave
          promised   \* the newest version reported as installed

replacementVars == <<current, safe, promised>>

ReplacementInit == current = 0 /\ safe = 0 /\ promised = 0

Replace ==
    /\ \E v \in current..MaxVersion : current' = v
    /\ UNCHANGED <<safe, promised>>

Settle == safe' = current /\ UNCHANGED <<current, promised>>

\* Installed is reported only of the version that is current and settled.
Promise == safe = current /\ promised' = current /\ UNCHANGED <<current, safe>>

LosePower == current' = safe /\ UNCHANGED <<safe, promised>>

ReplacementNext == Replace \/ Settle \/ Promise \/ LosePower

ReplacementSpec == ReplacementInit /\ [][ReplacementNext]_replacementVars
=============================================================================
