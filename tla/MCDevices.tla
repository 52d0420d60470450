------------------------------ MODULE MCDevices ------------------------------
(***************************************************************************)
(* The two queues a device keeps while it is offline: its sales and its    *)
(* changes of the packing list.  They are stored and transmitted apart, so *)
(* each behaviour follows one of them ("part") and leaves the other at its *)
(* start.                                                                  *)
(***************************************************************************)
EXTENDS OfflineSales, MCPackingDevices

VARIABLE part

Symmetry == Permutations(Tabs) \cup Permutations(PackingRequests)

Follow(p) == part = p /\ UNCHANGED part

QueuesInit == part \in {"sales", "packing"} /\ SystemInit /\ DevicesInit

QueuesNext ==
  \/ Follow("sales") /\ SystemNext /\ UNCHANGED devicesVars
  \/ Follow("packing") /\ DevicesNext /\ UNCHANGED systemVars

QueuesSpec == QueuesInit /\ [][QueuesNext]_<<part, systemVars, devicesVars>>
=============================================================================
