---------------------------- MODULE MCMouseAccess ----------------------------
(***************************************************************************)
(* The three layers under an operation on a mouse: the inventory that says *)
(* which mouse is meant, the turns on its hidraw node and the wait for an  *)
(* acknowledgement.                                                        *)
(*                                                                         *)
(* They share no variable, so no property of one can depend on how the     *)
(* others' steps are interleaved with its own: a behaviour here is a       *)
(* behaviour of one layer, chosen at the start, the others at rest.  The   *)
(* fairness of a layer is stated for the behaviours in which it runs.      *)
(***************************************************************************)
EXTENDS Inventory, HidrawIO, AckResend, TLC

CONSTANTS m1, m2, m3, c1, c2

VARIABLE layer    \* the layer that runs

mcVars == <<layer, inventoryVars, vars, ackVars>>

MCDevices == {m1, m2, m3}
MCCallers == {c1, c2}

MCInit ==
  /\ layer \in {"inventory", "turns", "ack"}
  /\ InventoryInit /\ (layer # "inventory" => plugged = {})
  /\ Init
  /\ AckInit

\* The bounded number of commands has been sent; nothing else may stop.
Finish == layer = "ack" /\ ~waiting /\ command = MaxCommands /\ UNCHANGED mcVars

MCNext ==
  \/ layer = "inventory" /\ InventoryNext /\ UNCHANGED <<layer, vars, ackVars>>
  \/ layer = "turns" /\ Next /\ UNCHANGED <<layer, inventoryVars, ackVars>>
  \/ layer = "ack" /\ AckNext /\ UNCHANGED <<layer, inventoryVars, vars>>
  \/ Finish

MCSpec ==
  /\ MCInit /\ [][MCNext]_mcVars
  /\ layer = "turns" => Fairness
  /\ layer = "ack" => AckFairness
=============================================================================
