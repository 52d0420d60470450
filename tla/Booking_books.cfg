\* One sale at a time across a midnight: two codes, two baskets, two units.  Books: three
\* operations on three days, the first two of which are within one event.
CONSTANTS
  Requests = {r1}
  Events = {e1}
  Tokens = {t1, t2}
  NoEvent = NoEvent
  NoToken = NoToken
  MaxDay = 2
  MaxAnonymous = 1
  MaxAttempts = 2
  Stock = 2
  SnapshotIsolation = FALSE
  shirt = shirt
  record = record
  gig = gig
  Open = Open
  NoVariant = NoVariant
  NoGig = NoGig
  EventGap = 1
  Variants = {shirt, record}
  Baskets <- OneBasket
  Tips <- CentShort
  ShippingCosts = {3}
  Specials <- DonationAndFee
  Deliveries <- TwoDeliveries
  Transactions <- TwoTransactions
  Holders = {0, 1}
  BookDays = {1, 2, 3}
  MaxBooked = 3
SPECIFICATION BookingSpec
SYMMETRY Symmetry
INVARIANTS ReceiptsUnique DisplayedCodeKept ScannedCodeDecides DepletedWithdrawn
INVARIANTS BreakdownsAddUp PeriodsAddUp
CHECK_DEADLOCK FALSE
