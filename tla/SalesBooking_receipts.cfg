\* As SalesBooking_concurrent: two bookings in flight.
CONSTANTS
  Requests = {r1, r2}
  Events = {e1, e2}
  Tokens = {t1}
  NoEvent = NoEvent
  NoToken = NoToken
  MaxDay = 1
  MaxAnonymous = 0
  MaxAttempts = 2
  Stock = 9
  SnapshotIsolation = TRUE
SPECIFICATION Spec
SYMMETRY Symmetry
INVARIANT ReceiptsUnique
