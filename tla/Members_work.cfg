\* Two requests at a time.  Receipt: a basket that costs nothing or one whose cents
\* do not divide evenly; what is handed over is less than the total of some and more
\* than that of others.  Packing list: two changes of every kind, a quota of two photos.
CONSTANTS
  Requests = {r1, r2}
  Lines <- SmallBaskets
  Costs = {0, 3}
  Amounts = {4}
  DeliveryStatuses = {"shipped", "received"}
  MaxEdits = 1
  SnapshotIsolation = TRUE
  PackingRequests = {r1, r2}
  Changes = {1, 2}
  FirstList <- TwoBags
  Kinds <- AllKinds
  Marks = {"open", "packed", "stays_here"}
  Unreadable = {}
  MaxFiles = 2
  MaxOrphans = 1
SPECIFICATION MembersSpec
SYMMETRY Symmetry
INVARIANTS RowsBalance PositionsAddUp NeverHalfPaid
INVARIANTS AnswersAreRevisions PackedMeansPacked PhotosHaveFiles
PROPERTIES CancelledFrozen AppliedOnce
CHECK_DEADLOCK FALSE
