------------------------------ MODULE MCBooking ------------------------------
(***************************************************************************)
(* Sales as they are booked, and the books as they are reported.  The two  *)
(* share no state here, so each behaviour follows one of them ("part") and *)
(* leaves the other at its start.                                          *)
(***************************************************************************)
EXTENDS MCSalesBooking, Balances

CONSTANTS shirt, record, gig

VARIABLE part

\* A shipped receipt of two positions whose cents do not divide evenly, a cent short.
OneBasket ==
  {[lines  |-> <<[variant |-> shirt, quantity |-> 1, goods |-> 2],
                 [variant |-> record, quantity |-> 2, goods |-> 3]>>,
    cost   |-> 1, ships |-> TRUE, event |-> gig, method |-> "cash"]}
CentShort == {-1}
DonationAndFee ==
  {[line |-> "donation", amount |-> 2, event |-> gig, method |-> "paypal"],
   [line |-> "misc_income", amount |-> 3, event |-> NoGig, method |-> "cash"]}

\* A member buys both, the band a second batch of one; the band is paid a fee, and
\* buys equipment.
TwoDeliveries ==
  {[lines    |-> <<[variant |-> shirt, quantity |-> 2, cost |-> 5],
                   [variant |-> record, quantity |-> 1, cost |-> 1]>>,
    shipping |-> 3, holder |-> 1],
   [lines    |-> <<[variant |-> record, quantity |-> 3, cost |-> 4]>>,
    shipping |-> 2, holder |-> BandCash]}
TwoTransactions ==
  {[type |-> "income", amount |-> 4, category |-> "fee", holder |-> 1, asset |-> TRUE],
   [type |-> "expense", amount |-> 7, category |-> "gear", holder |-> BandCash, asset |-> TRUE]}

Follow(p) == part = p /\ UNCHANGED part

BookingInit == part \in {"booking", "books"} /\ Init /\ BalancesInit

BookingNext ==
  \/ Follow("booking") /\ Next /\ UNCHANGED balanceVars
  \/ Follow("books") /\ BalancesNext /\ UNCHANGED vars

BookingSpec == BookingInit /\ [][BookingNext]_<<part, vars, balanceVars>>
=============================================================================
