---------------------------- MODULE MCAuthBridge ----------------------------
(* Instance of AuthBridge for TLC.                                         *)
EXTENDS AuthBridge, TLC
=============================================================================
