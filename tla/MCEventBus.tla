----------------------------- MODULE MCEventBus -----------------------------
(***************************************************************************)
(* EventBus for TLC.  e1 has two subscriptions, the other events one.      *)
(***************************************************************************)
EXTENDS EventBus

CONSTANT e1

MCNSubs == [e \in Events |-> IF e = e1 THEN 2 ELSE 1]
=============================================================================
