------------------------------ MODULE Reports -------------------------------
(***************************************************************************)
(* The balances page and the finance report: what they work out of the     *)
(* books of a band for a period.  The books are the tables of sales,       *)
(* purchases and band transactions, and which variants are active.  The    *)
(* figures of a page are read statement by statement; here they are all    *)
(* read of the same books.                                                 *)
(***************************************************************************)
EXTENDS Money

CONSTANTS
  Open,       \* an end of a period that is not given
  NoVariant,  \* of a sale line that is no merchandise
  NoGig,      \* of a sale that names no event
  EventGap    \* days without a sale after which an event is another one

ASSUME ReportsAssumption == EventGap \in Nat /\ Open \notin Int

\* Account holders are user ids; nil is the cash of the band.
BandCash == 0

-----------------------------------------------------------------------------
(* Periods.  Both ends are part of the period, each may be left open.       *)

Within(p, day) == (p.from = Open \/ p.from <= day) /\ (p.to = Open \/ day <= p.to)

\* Stock and costs count from the beginning.
UpTo(p) == [p EXCEPT !.from = Open]

\* The rows of a table that count in a period.
LiveIn(table, p) == {i \in DOMAIN table : ~table[i].cancelled /\ Within(p, table[i].on)}

-----------------------------------------------------------------------------
(* Columns.                                                                 *)

Net(sale) == sale.due - sale.discount
Income(sale) == IF sale.paid THEN Net(sale) ELSE 0
Collected(sale) == IF sale.paid THEN Net(sale) + sale.donation ELSE 0
Donated(sale) == IF sale.paid THEN sale.donation ELSE 0
Pieces(sale) == IF sale.line = "merchandise" THEN sale.quantity ELSE 0
Largest(set) == CHOOSE x \in set : \A y \in set : y <= x

NetOf(b, ids) == SumOf([i \in ids |-> Net(b.sales[i])])
DonatedOf(b, ids) == SumOf([i \in ids |-> Donated(b.sales[i])])
CollectedOf(b, ids) == SumOf([i \in ids |-> Collected(b.sales[i])])
AmountOf(b, ids) == SumOf([i \in ids |-> b.transactions[i].amount])
GoodsOf(b, ids) == SumOf([i \in ids |-> b.purchases[i].cost])

\* Purchases by receipt.  The shipping cost is repeated on every row and counts
\* once; the holder is repeated as well.
ReceiptsOf(b, ids) == {b.purchases[i].receipt : i \in ids}
RowsOf(b, ids, r) == {i \in ids : b.purchases[i].receipt = r}
ShippingOf(b, ids, r) == Largest({b.purchases[i].shipping : i \in RowsOf(b, ids, r)})
HolderOf(b, ids, r) == Largest({b.purchases[i].holder : i \in RowsOf(b, ids, r)})

\* Settled transactions move money, open ones are only announced.
Settled(b, p, type) ==
  {i \in LiveIn(b.transactions, p) : b.transactions[i].settled /\ b.transactions[i].type = type}
Announced(b, p, type) ==
  {i \in LiveIn(b.transactions, p) : ~b.transactions[i].settled /\ b.transactions[i].type = type}

-----------------------------------------------------------------------------
(* The table of variants.                                                   *)

\* StockMapAt: what came in and went out until the end of the period.
Purchased(b, p, v) ==
  SumOf([i \in {j \in LiveIn(b.purchases, UpTo(p)) : b.purchases[j].variant = v} |-> b.purchases[i].quantity])
Sold(b, p, v) ==
  SumOf([i \in {j \in LiveIn(b.sales, UpTo(p)) : b.sales[j].line = "merchandise" /\ b.sales[j].variant = v} |->
           b.sales[i].quantity])

\* variantRowsPeriod: a parked variant that was never used is left out.
Listed(b, p) ==
  {v \in DOMAIN b.active : b.active[v] \/ Purchased(b, p, v) > 0 \/ Sold(b, p, v) > 0}

BoughtOf(b, p, v) == {i \in LiveIn(b.purchases, p) : b.purchases[i].variant = v}
SoldOf(b, p, v) == {i \in LiveIn(b.sales, p) : b.sales[i].variant = v}
OnHandOf(b, p, v) == Purchased(b, p, v) - Sold(b, p, v)

-----------------------------------------------------------------------------
(* The headline figures.                                                    *)

\* summaryPeriod: merchandise from the table of variants, other income and
\* donations from the sales that are none, shipping once a receipt, and the band's
\* own settled transactions.
Summary(b, p) ==
  LET listed    == Listed(b, p)
      bought    == LiveIn(b.purchases, p)
      special   == {i \in LiveIn(b.sales, p) : b.sales[i].line # "merchandise"}
      misc      == SumOf([i \in special |->
                            IF b.sales[i].line = "misc_income" /\ b.sales[i].paid THEN b.sales[i].due ELSE 0])
      donations == SumOf([i \in special |->
                            IF b.sales[i].line = "donation" THEN Donated(b.sales[i]) ELSE 0])
      cost      == SumOf([v \in listed |-> GoodsOf(b, BoughtOf(b, p, v))])
                   + SumOf([r \in ReceiptsOf(b, bought) |-> ShippingOf(b, bought, r)])
      collected == SumOf([v \in listed |-> CollectedOf(b, SoldOf(b, p, v))]) + CollectedOf(b, special)
      income    == AmountOf(b, Settled(b, p, "income"))
      expense   == AmountOf(b, Settled(b, p, "expense"))
  IN  [cost        |-> cost,
       revenue     |-> SumOf([v \in listed |-> NetOf(b, SoldOf(b, p, v))]) + misc,
       collected   |-> collected,
       donation    |-> SumOf([v \in listed |-> DonatedOf(b, SoldOf(b, p, v))]) + donations,
       misc        |-> misc,
       stock       |-> SumOf([v \in listed |-> OnHandOf(b, p, v)]),
       outstanding |-> NetOf(b, {i \in LiveIn(b.sales, p) : ~b.sales[i].paid}),
       income      |-> income,
       expense     |-> expense,
       overall     |-> (collected - cost) + (income - expense)]

-----------------------------------------------------------------------------
(* By account holder.                                                       *)

\* Fault: the shipping cost is added up with the rows it is repeated on.
SpentByRow(b, p, h) ==
  LET bought == LiveIn(b.purchases, p)
  IN  SumOf([i \in {j \in bought : b.purchases[j].holder = h} |-> b.purchases[i].cost + b.purchases[i].shipping])

\* What the receipts of a holder cost, goods and shipping.
Spent(b, p, h) ==
  LET bought == LiveIn(b.purchases, p)
      his    == {r \in ReceiptsOf(b, bought) : HolderOf(b, bought, r) = h}
  IN  SumOf([r \in his |-> GoodsOf(b, RowsOf(b, bought, r)) + ShippingOf(b, bought, r)])

HeldBy(b, ids, h) == {i \in ids : b.transactions[i].holder = h}

\* accountHolderTotalsPeriod: what sales collected is the cash of the band.
HolderKeys(b, p) ==
  LET bought == LiveIn(b.purchases, p)
  IN  {b.transactions[i].holder : i \in Settled(b, p, "income") \cup Settled(b, p, "expense")}
      \cup (IF CollectedOf(b, LiveIn(b.sales, p)) # 0 THEN {BandCash} ELSE {})
      \cup {HolderOf(b, bought, r) : r \in ReceiptsOf(b, bought)}

Difference(b, p, h) ==
  LET income  == AmountOf(b, HeldBy(b, Settled(b, p, "income"), h))
                 + (IF h = BandCash THEN CollectedOf(b, LiveIn(b.sales, p)) ELSE 0)
      expense == AmountOf(b, HeldBy(b, Settled(b, p, "expense"), h)) + Spent(b, p, h)
  IN  income - expense

HolderTotals(b, p) == [h \in HolderKeys(b, p) |-> Difference(b, p, h)]

-----------------------------------------------------------------------------
(* What a piece cost, and the rankings.  Their lists are cut after five     *)
(* entries on the page.                                                     *)

\* costBasisAt: the average, half a cent rounded up; 0 if it was never bought.
CostBasis(b, p, v) ==
  LET ids      == {i \in LiveIn(b.purchases, UpTo(p)) : b.purchases[i].variant = v}
      quantity == SumOf([i \in ids |-> b.purchases[i].quantity])
  IN  IF quantity > 0 THEN (GoodsOf(b, ids) + quantity \div 2) \div quantity ELSE 0

CostOfSales(b, p, ids) ==
  SumOf([i \in {j \in ids : b.sales[j].variant # NoVariant} |->
           Pieces(b.sales[i]) * CostBasis(b, p, b.sales[i].variant)])

RankingEntry(b, p, ids) ==
  LET income == SumOf([i \in ids |-> Income(b.sales[i])])
  IN  [quantity |-> SumOf([i \in ids |-> Pieces(b.sales[i])]),
       income   |-> income,
       profit   |-> income - CostOfSales(b, p, ids)]

\* itemRankingsPeriod, an article having one variant here.
ItemRanking(b, p) ==
  LET sold == {i \in LiveIn(b.sales, p) : b.sales[i].variant # NoVariant}
  IN  [v \in {b.sales[i].variant : i \in sold} |-> RankingEntry(b, p, {i \in sold : b.sales[i].variant = v})]

\* groupRankingPeriod by event; the one by seller reads another column.
EventRanking(b, p) ==
  LET sold == {i \in LiveIn(b.sales, p) : b.sales[i].event # NoGig}
  IN  [e \in {b.sales[i].event : i \in sold} |-> RankingEntry(b, p, {i \in sold : b.sales[i].event = e})]

-----------------------------------------------------------------------------
(* Over time.                                                               *)

\* dailyIncomePeriod.
DailyIncome(b, p) ==
  LET paid == {i \in LiveIn(b.sales, p) : b.sales[i].paid}
  IN  [d \in {b.sales[i].on : i \in paid} |-> CollectedOf(b, {i \in paid : b.sales[i].on = d})]

\* The days of an event's sales, whatever the period.
EventDays(b, e) == {b.sales[i].on : i \in {j \in DOMAIN b.sales : ~b.sales[j].cancelled /\ b.sales[j].event = e}}

\* Fault: the days of the period only.
FirstDayWithin(b, p, i) ==
  LET days == {d \in EventDays(b, b.sales[i].event) : Within(p, d)}
  IN  Largest({d \in days : d <= b.sales[i].on /\ ~\E x \in days : x < d /\ d - x <= EventGap})

\* The day an occurrence of the event began: the last one before this sale that
\* follows a gap.
FirstDay(b, p, i) ==
  LET days == EventDays(b, b.sales[i].event)
  IN  Largest({d \in days : d <= b.sales[i].on /\ ~\E x \in days : x < d /\ d - x <= EventGap})

\* eventTimelinePeriod: one point an occurrence with sales in the period.
Timeline(b, p) ==
  LET sold   == {i \in LiveIn(b.sales, p) : b.sales[i].event # NoGig}
      key(i) == <<b.sales[i].event, FirstDay(b, p, i)>>
  IN  [k \in {key(i) : i \in sold} |-> RankingEntry(b, p, {i \in sold : key(i) = k})]

-----------------------------------------------------------------------------
(* The finance report.                                                      *)

\* By payment method: what was booked, and what of it was collected.
Methods(b, p) ==
  LET live      == LiveIn(b.sales, p)
      booked(m) == {i \in live : b.sales[i].method = m}
  IN  [m \in {b.sales[i].method : i \in live} |->
         [booked    |-> SumOf([i \in booked(m) |-> Net(b.sales[i]) + b.sales[i].donation]),
          collected |-> CollectedOf(b, booked(m))]]

Categories(b, p, type) ==
  LET settled == Settled(b, p, type)
  IN  [c \in {b.transactions[i].category : i \in settled} |->
         AmountOf(b, {i \in settled : b.transactions[i].category = c})]

\* What is on the shelves, and what it cost.
Inventory(b, p) ==
  [v \in {u \in Listed(b, p) : OnHandOf(b, p, u) # 0} |->
     [onHand |-> OnHandOf(b, p, v), value |-> OnHandOf(b, p, v) * CostBasis(b, p, v)]]

Assets(b, p) == {i \in Settled(b, p, "expense") : b.transactions[i].asset}
=============================================================================
