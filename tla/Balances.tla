------------------------------ MODULE Balances ------------------------------
(***************************************************************************)
(* The books the reports are read from, by the columns they look at: what  *)
(* is sold, bought and entered on any day, and what is corrected, paid or  *)
(* cancelled afterwards.  Each operation is one transaction and one step.  *)
(***************************************************************************)
EXTENDS Reports

CONSTANTS
  Variants,      \* what the band sells
  Baskets,       \* what is sold on a receipt
  Tips,          \* what is handed over beside the total due
  ShippingCosts, \* what the shipping of a receipt may be changed to
  Specials,      \* donations and other income
  Deliveries,    \* what is bought on a receipt, and by whom
  Transactions,  \* income and expenses of the band
  Holders,       \* account holders
  BookDays,      \* days a row may be booked on
  MaxBooked      \* bound: operations

ASSUME BalancesAssumption ==
  /\ IsFiniteSet(Variants) /\ NoVariant \notin Variants
  /\ IsFiniteSet(Holders) /\ Holders \subseteq Nat /\ BandCash \in Holders
  /\ Tips \subseteq Int /\ ShippingCosts \subseteq Nat /\ BookDays \subseteq Nat
  /\ \A basket \in Baskets :
       /\ basket.lines \in Seq([variant : Variants, quantity : Nat \ {0}, goods : Nat]) \ {<<>>}
       /\ basket.cost \in Nat /\ basket.ships \in BOOLEAN
  /\ \A special \in Specials : special.line \in {"donation", "misc_income"} /\ special.amount \in Nat
  /\ \A delivery \in Deliveries :
       /\ delivery.lines \in Seq([variant : Variants, quantity : Nat \ {0}, cost : Nat]) \ {<<>>}
       /\ delivery.shipping \in Nat /\ delivery.holder \in Holders
  /\ \A t \in Transactions :
       t.type \in {"income", "expense"} /\ t.amount \in Nat /\ t.holder \in Holders /\ t.asset \in BOOLEAN
  /\ MaxBooked \in Nat

VARIABLES
  saleRows,         \* table sales in order of id
  purchaseRows,     \* table purchases in order of id
  transactionRows,  \* table band_transactions in order of id
  isActive,         \* the variants that are not parked
  booked            \* operations so far

balanceVars == <<saleRows, purchaseRows, transactionRows, isActive, booked>>

Books == [sales |-> saleRows, purchases |-> purchaseRows, transactions |-> transactionRows, active |-> isActive]

LastReceipt(table) == IF table = <<>> THEN 0 ELSE table[Len(table)].receipt
OfReceipt(table, r) == {i \in DOMAIN table : table[i].receipt = r}
Counted(table, r) == {i \in OfReceipt(table, r) : ~table[i].cancelled}
CancelledIn(table, ids) ==
  [i \in DOMAIN table |-> IF i \in ids THEN [table[i] EXCEPT !.cancelled = TRUE] ELSE table[i]]

OneMore == booked < MaxBooked /\ booked' = booked + 1
SalesBecome(table) == OneMore /\ saleRows' = table /\ UNCHANGED <<purchaseRows, transactionRows, isActive>>
PurchasesBecome(table) == OneMore /\ purchaseRows' = table /\ UNCHANGED <<saleRows, transactionRows, isActive>>
TransactionsBecome(table) == OneMore /\ transactionRows' = table /\ UNCHANGED <<saleRows, purchaseRows, isActive>>

-----------------------------------------------------------------------------
(* Sales.                                                                   *)

\* Prepare and UpdateShippingCost: what the positions are due, and the discount or
\* donation if they are paid.
Shared(goods, cost, paid, given) ==
  LET total    == SumOf(goods) + cost
      shipping == Distribute(cost, goods)
      discount == Distribute(IF paid THEN Discount(total, given) ELSE 0, goods)
      donation == Distribute(IF paid THEN Donation(total, given) ELSE 0, goods)
  IN  [i \in DOMAIN goods |-> [due |-> goods[i] + shipping[i], discount |-> discount[i], donation |-> donation[i]]]

\* A basket at the counter or to be shipped.
BookSale(basket, day, paid, tip) ==
  LET lines == basket.lines
      goods == [n \in DOMAIN lines |-> lines[n].goods]
      total == SumOf(goods) + basket.cost
      share == Shared(goods, basket.cost, paid, total + tip)
  IN  /\ total + tip >= 0
      /\ SalesBecome(saleRows \o
           [n \in DOMAIN lines |->
              [receipt |-> LastReceipt(saleRows) + 1, on |-> day, line |-> "merchandise",
               variant |-> lines[n].variant, quantity |-> lines[n].quantity, goods |-> goods[n],
               due |-> share[n].due, discount |-> share[n].discount, donation |-> share[n].donation,
               paid |-> paid, ships |-> basket.ships, cancelled |-> FALSE,
               event |-> basket.event, method |-> basket.method]])

\* A donation or other income: always paid.
BookOther(special, day) ==
  LET donated == special.line = "donation"
  IN  SalesBecome(Append(saleRows,
        [receipt |-> LastReceipt(saleRows) + 1, on |-> day, line |-> special.line,
         variant |-> NoVariant, quantity |-> 1, goods |-> 0,
         due |-> IF donated THEN 0 ELSE special.amount, discount |-> 0,
         donation |-> IF donated THEN special.amount ELSE 0,
         paid |-> TRUE, ships |-> FALSE, cancelled |-> FALSE,
         event |-> special.event, method |-> special.method]))

\* MarkPaid: what is outstanding of a receipt, on the day it was sold.
PaySale(r) ==
  LET open == {i \in Counted(saleRows, r) : ~saleRows[i].paid}
  IN  /\ open # {}
      /\ SalesBecome([i \in DOMAIN saleRows |->
                        IF i \in open
                        THEN [saleRows[i] EXCEPT !.paid = TRUE, !.discount = 0, !.donation = 0]
                        ELSE saleRows[i]])

\* UpdateShippingCost: what was collected stays.
ChangeShipping(r, cost) ==
  LET ids == Counted(saleRows, r)
  IN  /\ ids # {}
      /\ \A i, j \in ids : saleRows[i].ships /\ saleRows[i].paid = saleRows[j].paid
      /\ \E order \in [1..Cardinality(ids) -> ids] :
           LET share == Shared([k \in DOMAIN order |-> saleRows[order[k]].goods], cost,
                               saleRows[order[1]].paid, CollectedOf(Books, ids))
               at(i) == CHOOSE k \in DOMAIN order : order[k] = i
           IN  /\ Range(order) = ids
               /\ \A j, k \in DOMAIN order : j < k => order[j] < order[k]
               /\ SalesBecome([i \in DOMAIN saleRows |->
                                 IF i \in ids
                                 THEN [saleRows[i] EXCEPT !.due = share[at(i)].due,
                                                          !.discount = share[at(i)].discount,
                                                          !.donation = share[at(i)].donation]
                                 ELSE saleRows[i]])

\* Cancel: a position, or what is left of its receipt.
CancelSales(i, scope) ==
  /\ i \in Counted(saleRows, saleRows[i].receipt)
  /\ SalesBecome(CancelledIn(saleRows, IF scope = "item" THEN {i} ELSE Counted(saleRows, saleRows[i].receipt)))

-----------------------------------------------------------------------------
(* Purchases: the day, the holder and the shipping cost are repeated on     *)
(* every row of a receipt.                                                  *)

Purchase(delivery, day) ==
  PurchasesBecome(purchaseRows \o
    [n \in DOMAIN delivery.lines |->
       [receipt |-> LastReceipt(purchaseRows) + 1, on |-> day, variant |-> delivery.lines[n].variant,
        quantity |-> delivery.lines[n].quantity, cost |-> delivery.lines[n].cost,
        shipping |-> delivery.shipping, holder |-> delivery.holder, cancelled |-> FALSE]])

\* Update: one position gets another quantity, cost and variant.
CorrectPurchase(i, line) ==
  /\ ~purchaseRows[i].cancelled
  /\ PurchasesBecome([purchaseRows EXCEPT ![i].variant = line.variant, ![i].quantity = line.quantity,
                                       ![i].cost = line.cost])

\* UpdateReceipt: all rows get the day, the holder and the shipping cost, the active
\* ones quantities and costs, here the same for each.
CorrectReceipt(r, delivery, day) ==
  LET line == delivery.lines[1]
  IN  /\ Counted(purchaseRows, r) # {}
      /\ PurchasesBecome(
           [i \in DOMAIN purchaseRows |->
              IF i \in OfReceipt(purchaseRows, r)
              THEN [purchaseRows[i] EXCEPT
                      !.on = day, !.holder = delivery.holder, !.shipping = delivery.shipping,
                      !.quantity = IF purchaseRows[i].cancelled THEN @ ELSE line.quantity,
                      !.cost = IF purchaseRows[i].cancelled THEN @ ELSE line.cost]
              ELSE purchaseRows[i]])

CancelPurchases(ids) ==
  /\ ids # {}
  /\ PurchasesBecome(CancelledIn(purchaseRows, ids))

-----------------------------------------------------------------------------
(* The band's own income and expenses.                                      *)

Transaction(t, day, settled) ==
  [type |-> t.type, amount |-> t.amount, category |-> t.category, holder |-> t.holder,
   asset |-> t.type = "expense" /\ t.asset, on |-> day, settled |-> settled, cancelled |-> FALSE]

EnterTransaction(t, day, settled) ==
  TransactionsBecome(Append(transactionRows, Transaction(t, day, settled)))

ChangeTransaction(i, t, day) ==
  /\ ~transactionRows[i].cancelled /\ ~transactionRows[i].settled
  /\ TransactionsBecome([transactionRows EXCEPT ![i] = Transaction(t, day, FALSE)])

SettleTransaction(i) ==
  /\ ~transactionRows[i].cancelled /\ ~transactionRows[i].settled
  /\ TransactionsBecome([transactionRows EXCEPT ![i].settled = TRUE])

CancelTransaction(i) ==
  /\ ~transactionRows[i].cancelled
  /\ TransactionsBecome(CancelledIn(transactionRows, {i}))

-----------------------------------------------------------------------------

\* An option is dropped or comes back: the variant is parked, or active again.
ParkVariant(v) ==
  /\ OneMore
  /\ isActive' = [isActive EXCEPT ![v] = ~@]
  /\ UNCHANGED <<saleRows, purchaseRows, transactionRows>>

BalancesInit ==
  /\ saleRows = <<>> /\ purchaseRows = <<>> /\ transactionRows = <<>>
  /\ isActive = [v \in Variants |-> TRUE]
  /\ booked = 0

BalancesNext ==
  \/ \E day \in BookDays :
       \/ \E basket \in Baskets : BookSale(basket, day, FALSE, 0) \/ \E tip \in Tips : BookSale(basket, day, TRUE, tip)
       \/ \E special \in Specials : BookOther(special, day)
       \/ \E delivery \in Deliveries : Purchase(delivery, day)
       \/ \E r \in 1..LastReceipt(purchaseRows), delivery \in Deliveries : CorrectReceipt(r, delivery, day)
       \/ \E t \in Transactions, settled \in BOOLEAN : EnterTransaction(t, day, settled)
       \/ \E i \in DOMAIN transactionRows, t \in Transactions : ChangeTransaction(i, t, day)
  \/ \E r \in 1..LastReceipt(saleRows) : PaySale(r) \/ \E cost \in ShippingCosts : ChangeShipping(r, cost)
  \/ \E i \in DOMAIN saleRows, scope \in {"item", "receipt"} : CancelSales(i, scope)
  \/ \E i \in DOMAIN purchaseRows, delivery \in Deliveries : CorrectPurchase(i, delivery.lines[1])
  \/ \E i \in DOMAIN purchaseRows : CancelPurchases(Counted(purchaseRows, purchaseRows[i].receipt) \cap {i})
  \/ \E r \in 1..LastReceipt(purchaseRows) : CancelPurchases(Counted(purchaseRows, r))
  \/ \E i \in DOMAIN transactionRows : SettleTransaction(i) \/ CancelTransaction(i)
  \/ \E v \in Variants : ParkVariant(v)

BalancesSpec == BalancesInit /\ [][BalancesNext]_balanceVars

-----------------------------------------------------------------------------
(* Properties.                                                              *)

\* The days something is booked on.
DaysBooked ==
  {saleRows[i].on : i \in DOMAIN saleRows} \cup {purchaseRows[i].on : i \in DOMAIN purchaseRows}
  \cup {transactionRows[i].on : i \in DOMAIN transactionRows}

\* The periods that may be asked for: the first day is not after the last.  A period that
\* begins or ends on another day holds the same rows as one of these.
Periods ==
  {p \in [from : DaysBooked \cup {Open}, to : DaysBooked \cup {Open}] :
     p.from = Open \/ p.to = Open \/ p.from <= p.to}

Column(rows, c) == SumOf([k \in DOMAIN rows |-> rows[k][c]])

\* The parts of a page come to its headline figures, whatever the period and
\* whatever was corrected, cancelled or parked: the differences of the account holders
\* are the overall balance; days, payment methods, articles and categories add up to
\* what was collected and what the band settled; what was booked is collected or
\* owed; and every occurrence of an event is in the ranking of events
\* (account_holders.go, period.go and finance_report.go are independent queries).
BreakdownsAddUp ==
  \A p \in Periods :
    LET page    == Summary(Books, p)
        methods == Methods(Books, p)
        points  == Timeline(Books, p)
        events  == EventRanking(Books, p)
    IN  /\ SumOf(HolderTotals(Books, p)) = page.overall
        /\ SumOf(DailyIncome(Books, p)) = page.collected
        /\ Column(methods, "collected") = page.collected
        /\ Column(methods, "booked") = page.collected + page.outstanding
        /\ page.revenue + page.donation = page.collected + page.outstanding
        /\ Column(ItemRanking(Books, p), "income") = page.collected - page.donation - page.misc
        /\ SumOf(Categories(Books, p, "income")) = page.income
        /\ SumOf(Categories(Books, p, "expense")) = page.expense
        /\ \A c \in {"quantity", "income", "profit"} : Column(points, c) = Column(events, c)
        /\ Column(Inventory(Books, p), "onHand") = page.stock

\* What flows in a period, by figure of the page and of the report.
FlowsOf(page, p) ==
  [cost |-> page.cost, revenue |-> page.revenue, collected |-> page.collected,
   donation |-> page.donation, outstanding |-> page.outstanding, overall |-> page.overall,
   announcedIncome |-> AmountOf(Books, Announced(Books, p, "income")),
   announcedExpense |-> AmountOf(Books, Announced(Books, p, "expense")),
   assets |-> AmountOf(Books, Assets(Books, p))]
Flows(p) == FlowsOf(Summary(Books, p), p)

\* Three sets of figures, of a period, of what was before and of all until its end.
ValueOr0(f, k) == IF k \in DOMAIN f THEN f[k] ELSE 0
PointOr0(points, k, c) == IF k \in DOMAIN points THEN points[k][c] ELSE 0
FlowsAddUp(here, before, whole) == \A c \in DOMAIN here : here[c] = whole[c] - before[c]
HeldAddsUp(here, before, whole) == \A h \in Holders : ValueOr0(here, h) = ValueOr0(whole, h) - ValueOr0(before, h)
PointsAddUp(here, before, whole) ==
  /\ DOMAIN whole = DOMAIN here \cup DOMAIN before
  /\ \A k \in DOMAIN whole, c \in {"quantity", "income"} :
       PointOr0(here, k, c) = PointOr0(whole, k, c) - PointOr0(before, k, c)

\* What a period brings is the difference between the balances at its two ends: every
\* flow, every holder's difference, and every occurrence of an event under the key it
\* has in any period (period.go:466-469).  Stock is that of the last day
\* (period.go:18-20).  A receipt corrected to another day moves as a whole.
PeriodsAddUp ==
  \A p \in {q \in Periods : q.from # Open} :
    LET before == [from |-> Open, to |-> p.from - 1]
        whole  == [from |-> Open, to |-> p.to]
    IN  /\ FlowsAddUp(Flows(p), Flows(before), Flows(whole))
        /\ HeldAddsUp(HolderTotals(Books, p), HolderTotals(Books, before), HolderTotals(Books, whole))
        /\ PointsAddUp(Timeline(Books, p), Timeline(Books, before), Timeline(Books, whole))
=============================================================================
