-------------------------- MODULE MCPackingDevices --------------------------
(* Small instances of PackingDevices for TLC. *)
EXTENDS PackingDevices, TLC

OneBag == <<NewBag(11)>>
=============================================================================
