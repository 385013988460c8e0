---------------------------- MODULE CanClients ----------------------------
(***************************************************************************)
(* Two tasks that live off what the CAN owner receives from Mission, each  *)
(* with state of its own: the power data kept for the recovery beacon, and *)
(* the time requests passed on to the ground.                              *)
(***************************************************************************)
EXTENDS RecoveryPower, TimeRelay

Init == PowerInit /\ TimeInit

Next ==
    \/ PowerNext /\ UNCHANGED relayVars
    \/ TimeNext /\ UNCHANGED powerVars

vars == <<powerVars, relayVars>>

Spec == Init /\ [][Next]_vars
=============================================================================
