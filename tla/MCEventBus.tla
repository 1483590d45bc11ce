------------------------------ MODULE MCEventBus ------------------------------
(***************************************************************************)
(* Instances of EventBus for TLC.                                          *)
(***************************************************************************)
EXTENDS EventBus

CONSTANTS s1, s2, e1, e2
=============================================================================
