-------------------------- MODULE MCSupportAccess ---------------------------
(* Support access with the constants of the configurations.  The run checks *)
(* a liveness property, so the slots are not made symmetric.   *)
EXTENDS SupportAccess, TLC
=============================================================================
