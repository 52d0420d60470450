\* Sales: two tabs and one request slot, two sales, one unit.
\* Packing list: one device beside others, two changes, an empty bag, a quota
\* of one photo, two requests at a time.
CONSTANTS
  Requests = {r1}
  Events = {1, 2}
  Tokens = {}
  NoEvent = 0
  NoToken = NoToken
  MaxDay = 1
  MaxAnonymous = 0
  MaxAttempts = 2
  Stock = 1
  SnapshotIsolation = TRUE
  Tabs = {tab1, tab2}
  NoSlot = NoSlot
  MaxReloads = 1
  Sandbox = FALSE
  PackingRequests = {q1, q2}
  Changes = {1, 2}
  FirstList <- OneBag
  Kinds = {"delete_bag", "upload_photo"}
  Marks = {}
  Unreadable = {}
  MaxFiles = 1
  MaxOrphans = 0
  Devices = {d1}
  NoCall = NoCall
  MaxClosings = 0
  MaxShown = 3
SPECIFICATION QueuesSpec
SYMMETRY Symmetry
INVARIANTS NeverLost RejectedNotBooked NoChangeLost MadeInOrder
