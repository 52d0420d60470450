------------------------------ MODULE MCMembers ------------------------------
(***************************************************************************)
(* Members of a band at work: staff look after a receipt, and change the   *)
(* packing list.  The two share no state, so each behaviour follows one of *)
(* them ("part") and leaves the other at its start.                        *)
(***************************************************************************)
EXTENDS MCSaleLifecycle, PackingList

VARIABLE part

\* A bag with two items, one packed and with a photo, and an empty bag.
TwoBags == <<[NewBag(11) EXCEPT !.items = <<NewItem(21), [NewItem(22) EXCEPT !.status = "packed", !.photos = {31}]>>],
             [NewBag(12) EXCEPT !.status = "packed"]>>
AllKinds == {"create_bag", "rename_bag", "delete_bag", "reorder_bags", "create_item", "rename_item",
             "delete_item", "reorder_items", "set_item_status", "set_bag_status", "delete_photo",
             "upload_photo", "reset"}

Follow(p) == part = p /\ UNCHANGED part

MembersInit == part \in {"receipt", "packing"} /\ Init /\ PackingInit

MembersNext ==
  \/ Follow("receipt") /\ Next /\ UNCHANGED packingVars
  \/ Follow("packing") /\ PackingNext /\ UNCHANGED vars

MembersSpec == MembersInit /\ [][MembersNext]_<<part, vars, packingVars>>
=============================================================================
