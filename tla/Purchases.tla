------------------------------ MODULE Purchases ------------------------------
(***************************************************************************)
(* Goods receipts over the catalogue: what is bought, corrected and        *)
(* cancelled, next to the sales that empty the shelves.  Every operation   *)
(* that can lower the stock of a variant ends with the automatic           *)
(* withdrawal.                                                             *)
(***************************************************************************)
EXTENDS Catalogue

CONSTANTS
  Quantities,    \* what is bought at a time
  Reassign,      \* a correction may move a position to another variant
  MaxPositions,  \* bound: rows of table purchases
  MaxSold        \* bound: pieces sold of one variant

ASSUME PurchasesAssumption ==
  /\ Quantities \subseteq Nat \ {0}
  /\ Reassign \in BOOLEAN
  /\ MaxPositions \in Nat /\ MaxSold \in Nat

ActivePositions == {p \in DOMAIN purchased : ~purchased[p].cancelled}
Receipts == {purchased[p].receipt : p \in DOMAIN purchased}
OnReceipt(r) == {p \in DOMAIN purchased : purchased[p].receipt = r}
VariantsOf(positions) == {purchased[p].variant : p \in positions}

Position(r, i, quantity, mode) ==
  [receipt |-> r, variant |-> i, quantity |-> quantity, mode |-> mode, cancelled |-> FALSE]

\* Create: a receipt of one position or two.  Unlike a sale it may name a
\* variant that is no longer offered, or parked.  Nothing is withdrawn or
\* offered again.
Create(lines, mode) ==
  LET r == Cardinality(Receipts) + 1
  IN  /\ Len(purchased) + Len(lines) <= MaxPositions
      /\ \A n \in DOMAIN lines : lines[n][1] \in DOMAIN variants
      /\ purchased' = purchased \o [n \in DOMAIN lines |-> Position(r, lines[n][1], lines[n][2], mode)]
      /\ UNCHANGED <<article, groups, values, variants, sold>>

\* Fault: the stock is read before the positions are rewritten.
CorrectTooEarly(positions, ids) ==
  /\ purchased' = positions
  /\ Withdraw(variants, article, ids, purchased, sold)
  /\ UNCHANGED <<groups, values, sold>>

\* The tail of every correction: the new positions, and the withdrawal of these
\* variants.
Correct(positions, ids) ==
  /\ purchased' = positions
  /\ Withdraw(variants, article, ids, positions, sold)
  /\ UNCHANGED <<groups, values, sold>>

\* UpdateWithWithdrawal: one position outside of a basket.  Only the variant it
\* has now is looked at, never the one it was moved from.
Update(p, i, quantity) ==
  LET corrected == [purchased EXCEPT ![p].variant = i, ![p].quantity = quantity]
  IN  /\ p \in ActivePositions /\ purchased[p].mode = "unit"
      /\ i \in DOMAIN variants
      /\ Reassign \/ i = purchased[p].variant
      /\ Correct(corrected, {i})

\* UpdateReceipt: the quantities of all active positions at once.
UpdateReceipt(r, quantities, mode) ==
  LET active    == OnReceipt(r) \cap ActivePositions
      corrected == [p \in DOMAIN purchased |->
                      IF p \notin OnReceipt(r) THEN purchased[p]
                      ELSE IF p \in active
                           THEN [purchased[p] EXCEPT !.mode = mode, !.quantity = quantities[p]]
                           ELSE [purchased[p] EXCEPT !.mode = mode]]
  IN  /\ active # {}
      /\ Correct(corrected, VariantsOf(active))

\* CancelWithWithdrawal: one position.
CancelPosition(p) ==
  /\ p \in ActivePositions
  /\ Correct([purchased EXCEPT ![p].cancelled = TRUE], {purchased[p].variant})

\* CancelReceiptWithWithdrawal: what is still active of a receipt.
CancelReceipt(r) ==
  /\ OnReceipt(r) \cap ActivePositions # {}
  /\ Correct([p \in DOMAIN purchased |->
                IF p \in OnReceipt(r) THEN [purchased[p] EXCEPT !.cancelled = TRUE] ELSE purchased[p]],
             VariantsOf(OnReceipt(r)))

\* A sale of one piece: of what is offered, whatever the stock says.
Sell(i) ==
  /\ i \in ActiveIds(variants) /\ variants[i].offered /\ article.offered
  /\ sold[i] < MaxSold
  /\ sold' = [sold EXCEPT ![i] = @ + 1]
  /\ Withdraw(variants, article, {i}, purchased, sold')
  /\ UNCHANGED <<groups, values, purchased>>

\* A sale is cancelled: the piece is back, nothing is offered again.
CancelSale(i) ==
  /\ i \in DOMAIN variants /\ sold[i] > 0
  /\ sold' = [sold EXCEPT ![i] = @ - 1]
  /\ UNCHANGED <<article, groups, values, variants, purchased>>

-----------------------------------------------------------------------------
Deliveries == UNION {[1..n -> VariantIds \X Quantities] : n \in 1..2}

PurchasesNext ==
  \/ CatalogueNext
  \/ \E lines \in Deliveries, mode \in {"unit", "basket"} : Create(lines, mode)
  \/ \E p \in DOMAIN purchased, i \in VariantIds, quantity \in Quantities : Update(p, i, quantity)
  \/ \E r \in Receipts : \E quantities \in [OnReceipt(r) \cap ActivePositions -> Quantities], mode \in {"unit", "basket"} :
       UpdateReceipt(r, quantities, mode)
  \/ \E p \in DOMAIN purchased : CancelPosition(p)
  \/ \E r \in Receipts : CancelReceipt(r)
  \/ \E i \in VariantIds : Sell(i) \/ CancelSale(i)

PurchasesSpec == CatalogueInit /\ [][PurchasesNext]_catalogueVars

-----------------------------------------------------------------------------
(* Properties.                                                              *)

\* Whatever sells, corrects or cancels: what is sold out and not bought again is
\* not offered, and neither is an article of which nothing else is left.
DepletedNotOffered ==
  /\ \A i \in ActiveIds(variants) : Exhausted(variants[i], OnHand(i)) => ~variants[i].offered
  /\ ActiveIds(variants) # {} /\ (\A i \in ActiveIds(variants) : Exhausted(variants[i], OnHand(i)))
       => ~article.offered
=============================================================================
