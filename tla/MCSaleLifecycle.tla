-------------------------- MODULE MCSaleLifecycle --------------------------
(* Small instances of SaleLifecycle for TLC. *)
EXTENDS SaleLifecycle, TLC

\* A free basket and one whose cents do not divide evenly.
SmallBaskets == {<<0>>, <<2, 1>>}

UnevenBasket == {<<2, 1, 2>>}

Symmetry == Permutations(Requests)
=============================================================================
