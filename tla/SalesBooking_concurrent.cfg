\* One day, two requests in flight for two baskets and one payment code, snapshot
\* isolation on.
CONSTANTS
  Requests = {r1, r2}
  Events = {e1, e2}
  Tokens = {t1}
  NoEvent = NoEvent
  NoToken = NoToken
  MaxDay = 1
  MaxAnonymous = 0
  MaxAttempts = 2
  Stock = 9
  SnapshotIsolation = TRUE
SPECIFICATION DaySpec
SYMMETRY Symmetry
INVARIANTS EventBookedOnce AnswersNameTheBasket CodeRedeemedOnce RedeemedStaysConsumed
PROPERTY BookedOnceSpec
