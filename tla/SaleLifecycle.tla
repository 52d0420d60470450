--------------------------- MODULE SaleLifecycle ----------------------------
(***************************************************************************)
(* One receipt from its booking on: the money of its positions (Prepare),  *)
(* and what staff do to it afterwards, several at a time: cancel a position *)
(* or the receipt, move a parcel, mark it paid, change the shipping cost.  *)
(*                                                                         *)
(* Cancel, MarkPaid and SetDeliveryStatus read the snapshot of their       *)
(* transaction and write later; UpdateShippingCost locks the rows it reads *)
(* and is one step.                                                        *)
(***************************************************************************)
EXTENDS Money, FiniteSets

CONSTANTS
  Requests,          \* slots for requests served at the same time
  Lines,             \* the baskets sold: sequences of line totals in cents
  Costs,             \* shipping costs in cents
  Amounts,           \* amounts a customer may hand over
  DeliveryStatuses,  \* statuses of the shipping workflow that staff set
  MaxEdits,          \* bound: changes of the shipping cost
  SnapshotIsolation  \* a write to a row changed since the snapshot fails

ASSUME LifecycleAssumption ==
  /\ Lines \subseteq Seq(Nat) \ {<<>>}
  /\ Costs \subseteq Nat /\ 0 \in Costs
  /\ Amounts \subseteq Nat
  /\ DeliveryStatuses \subseteq {"pending", "shipped", "received"}
  /\ MaxEdits \in Nat
  /\ SnapshotIsolation \in BOOLEAN

VARIABLES
  rows,    \* the rows of table sales with this receipt id, in order of id
  handed,  \* what the band received for the receipt (observation)
  edits,   \* changes of the shipping cost so far
  op       \* the requests being served

vars == <<rows, handed, edits, op>>

Positions == DOMAIN rows
Statuses == {"not_applicable", "pending", "shipped", "received"}

\* The columns the lifecycle works on.  given is 0 while the sale is unpaid,
\* where the column is NULL and nobody reads it.
Row(due, shipping, discount, donation, given, paid, received) ==
  [due |-> due, shipping |-> shipping, discount |-> discount, donation |-> donation,
   given |-> given, paid |-> paid, followUp |-> ~paid, received |-> received,
   status |-> IF received THEN "not_applicable" ELSE "pending", cancelled |-> FALSE]

NoOp == [kind |-> "none", position |-> 0, snapshot |-> <<>>, arg |-> "none"]

Active(table) == {i \in DOMAIN table : ~table[i].cancelled}
Goods(row) == row.due - row.shipping
\* These positions in order of id.
InOrder(set) ==
  {s \in [1..Cardinality(set) -> set] :
     Range(s) = set /\ \A j, k \in DOMAIN s : j < k => s[j] < s[k]}

TotalOf(column, set) == SumFunctionOnSet([i \in Positions |-> rows[i][column]], set)

-----------------------------------------------------------------------------
(* Booking.                                                                 *)

\* Prepare for a basket of goods: shipping, discount and donation are split over
\* the positions by what they cost without shipping.
Prepared(goods, cost, paid, received, given) ==
  LET shipping == Distribute(cost, goods)
      total    == SumOf(goods) + cost
      discount == Distribute(IF paid THEN Discount(total, given) ELSE 0, goods)
      donation == Distribute(IF paid THEN Donation(total, given) ELSE 0, goods)
      due(i)   == goods[i] + shipping[i]
  IN  [i \in DOMAIN goods |->
         Row(due(i), shipping[i], discount[i], donation[i],
             IF paid THEN due(i) - discount[i] + donation[i] ELSE 0, paid, received)]

\* What is handed over at the counter costs no shipping.  A confirmed discount
\* is part of the request; without an amount the exact one is assumed.
Book(goods, cost, paid, received) ==
  /\ rows = <<>>
  /\ received => cost = 0
  /\ \E given \in Amounts \cup {SumOf(goods) + cost} :
       /\ rows' = Prepared(goods, cost, paid, received, given)
       /\ handed' = IF paid THEN given ELSE 0
  /\ UNCHANGED <<edits, op>>

\* A donation or other income: a single position, paid and handed over.
BookSpecial(amount, isDonation) ==
  /\ rows = <<>> /\ amount > 0
  /\ rows' = <<IF isDonation THEN Row(0, 0, 0, amount, amount, TRUE, TRUE)
                             ELSE Row(amount, 0, 0, 0, amount, TRUE, TRUE)>>
  /\ handed' = amount
  /\ UNCHANGED <<edits, op>>

-----------------------------------------------------------------------------
(* The reading halves.                                                      *)

Read(r, kind, i, arg) ==
  /\ op[r].kind = "none"
  /\ op' = [op EXCEPT ![r] = [kind |-> kind, position |-> i, snapshot |-> rows, arg |-> arg]]
  /\ UNCHANGED <<rows, handed, edits>>

\* Cancel: a position once, a receipt while it has an open position.
ReadCancel(r, i, scope) ==
  /\ IF scope = "item" THEN i \in Active(rows) ELSE Active(rows) # {}
  /\ Read(r, "cancel", i, scope)

\* SetDeliveryStatus: any status of the shipping workflow may follow any other,
\* a counter sale never enters it.
ReadDelivery(r, i, next) ==
  /\ i \in Active(rows) /\ rows[i].status # "not_applicable"
  /\ Read(r, "deliver", i, next)

\* Fault: cancelled positions are settled as well.
OutstandingAny(table) == {i \in DOMAIN table : ~table[i].paid}

Outstanding(table) == {i \in Active(table) : ~table[i].paid}

\* MarkPaid: some position of the receipt is outstanding.
ReadPaid(r, i) ==
  /\ i \in Active(rows) /\ Outstanding(rows) # {}
  /\ Read(r, "pay", i, "none")

-----------------------------------------------------------------------------
(* The writing halves.                                                      *)

\* Fault: only the position that was clicked is settled.
SettledClicked(q) == {q.position} \cap Outstanding(q.snapshot)

\* The rows MarkPaid settles: all that were outstanding in its snapshot.
SettledBy(q) == Outstanding(q.snapshot)

\* The rows a transaction updates.  Cancel repeats its condition in the UPDATE,
\* which sees the current rows; the others name the ids they have read.
Written(q) ==
  CASE q.kind = "cancel"  -> IF q.arg = "item" THEN {q.position} ELSE Active(rows)
    [] q.kind = "deliver" -> {q.position}
    [] q.kind = "pay"     -> SettledBy(q)

Cancelled(row) == [row EXCEPT !.cancelled = TRUE]

Delivered(row, next) == [row EXCEPT !.status = next, !.received = (next = "received")]

\* Fault: what was given is left as it was booked.
PaidUnsettled(row, due) ==
  [row EXCEPT !.paid = TRUE, !.followUp = TRUE, !.discount = 0, !.donation = 0]

\* A late payment pays what was due when it was read, without a donation.
Paid(row, due) ==
  [row EXCEPT !.paid = TRUE, !.followUp = TRUE, !.discount = 0, !.donation = 0,
              !.given = due]

Updated(q, i) ==
  CASE q.kind = "cancel"  -> Cancelled(rows[i])
    [] q.kind = "deliver" -> Delivered(rows[i], q.arg)
    [] q.kind = "pay"     -> Paid(rows[i], q.snapshot[i].due)

\* COMMIT, unless a row to be written has changed since the snapshot.
Commit(r) ==
  /\ op[r].kind # "none"
  /\ LET q == op[r]
     IN  /\ SnapshotIsolation => \A i \in Written(q) : rows[i] = q.snapshot[i]
         /\ rows' = [i \in Positions |-> IF i \in Written(q) THEN Updated(q, i) ELSE rows[i]]
         /\ handed' = IF q.kind = "pay"
                      THEN SumFunctionOnSet([i \in Positions |-> q.snapshot[i].due], SettledBy(q))
                      ELSE handed
  /\ op' = [op EXCEPT ![r] = NoOp]
  /\ UNCHANGED edits

\* The transaction is rolled back.
Abort(r) ==
  /\ op[r].kind # "none"
  /\ op' = [op EXCEPT ![r] = NoOp]
  /\ UNCHANGED <<rows, handed, edits>>

-----------------------------------------------------------------------------
(* UpdateShippingCost.                                                      *)

RepricedTotal(cost, goods, shipping) == SumOf(goods) + cost

\* The rows of these positions with the new cost.  A paid receipt keeps what was
\* collected: the difference becomes a discount or a donation.
Repriced(active, cost) ==
  LET row(k)    == rows[active[k]]
      paid      == row(1).paid
      goods     == [k \in DOMAIN active |-> Goods(row(k))]
      collected == SumOf([k \in DOMAIN active |-> row(k).given])
      total     == RepricedTotal(cost, goods, SumOf([k \in DOMAIN active |-> row(k).shipping]))
      shipping  == Distribute(cost, goods)
      discount  == Distribute(IF paid THEN Discount(total, collected) ELSE 0, goods)
      donation  == Distribute(IF paid THEN Donation(total, collected) ELSE 0, goods)
      due(k)    == goods[k] + shipping[k]
  IN  [k \in DOMAIN active |->
         [row(k) EXCEPT
            !.shipping = shipping[k], !.due = due(k), !.discount = discount[k], !.donation = donation[k],
            !.given = IF paid THEN due(k) - discount[k] + donation[k] ELSE 0]]

\* Open shipments only, paid as a whole or not at all.
UpdateShippingCost(cost) ==
  /\ edits < MaxEdits
  /\ Active(rows) # {}
  /\ \A i, j \in Active(rows) :
       rows[i].status \in {"pending", "shipped"} /\ rows[i].paid = rows[j].paid
  /\ \E active \in InOrder(Active(rows)) :
       rows' = [i \in Positions |->
                  IF i \in Active(rows)
                  THEN Repriced(active, cost)[CHOOSE k \in DOMAIN active : active[k] = i]
                  ELSE rows[i]]
  /\ edits' = edits + 1
  /\ UNCHANGED <<handed, op>>

-----------------------------------------------------------------------------

Init ==
  /\ rows = <<>>
  /\ handed = 0
  /\ edits = 0
  /\ op = [r \in Requests |-> NoOp]

Booking ==
  \/ \E goods \in Lines, cost \in Costs, paid, received \in BOOLEAN :
       Book(goods, cost, paid, received)
  \/ \E amount \in Amounts, isDonation \in BOOLEAN : BookSpecial(amount, isDonation)

Reading(r) ==
  \E i \in Positions :
    \/ \E scope \in {"item", "receipt"} : ReadCancel(r, i, scope)
    \/ \E next \in DeliveryStatuses : ReadDelivery(r, i, next)
    \/ ReadPaid(r, i)

Next ==
  \/ Booking
  \/ \E r \in Requests : Reading(r) \/ Commit(r) \/ Abort(r)
  \/ \E cost \in Costs : UpdateShippingCost(cost)

Spec == Init /\ [][Next]_vars

-----------------------------------------------------------------------------
(* Properties.                                                              *)

\* The ledger's identity holds on every row at all times: a paid row's amount is
\* what was due, less its discount, plus its donation; an unpaid one has none
\* of them (Prepare, MarkPaid and UpdateShippingCost, in any order).
RowsBalance ==
  \A i \in Positions :
    /\ rows[i].paid => rows[i].given = rows[i].due - rows[i].discount + rows[i].donation
    /\ ~rows[i].paid => rows[i].discount = 0 /\ rows[i].donation = 0

\* While nothing was cancelled a paid receipt's positions add back up to what
\* the band received, to the cent (money.go:6-8).
PositionsAddUp ==
  rows # <<>> /\ Active(rows) = Positions /\ Outstanding(rows) = {} =>
    TotalOf("given", Positions) = handed

\* "A receipt can never be left half paid" (lifecycle.go:175-177), whatever is
\* cancelled meanwhile.
NeverHalfPaid == \A i, j \in Active(rows) : rows[i].paid = rows[j].paid

\* A cancelled position never changes again, whoever was about to write it when
\* it was cancelled (lifecycle.go:49-51).
CancelledFrozen ==
  [][\A i \in Positions : rows[i].cancelled => rows'[i] = rows[i]]_vars

\* The positions left after cancellations never claim more than the band received:
\* "cancelling one position never distorts the rest of the receipt"
\* (money.go:20-22).  Not so with UnevenBasket, Costs = {3}, Amounts = {2}.
RestWithinReceived ==
  rows # <<>> => TotalOf("given", Active(rows)) <= handed
=============================================================================
