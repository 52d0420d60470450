\* One tab that visits the practice mode, two sales, one request slot.
CONSTANTS
  Requests = {r1}
  Events = {1, 2}
  Tokens = {}
  NoEvent = 0
  NoToken = NoToken
  MaxDay = 1
  MaxAnonymous = 0
  MaxAttempts = 2
  Stock = 9
  SnapshotIsolation = TRUE
  Tabs = {tab1}
  NoSlot = NoSlot
  MaxReloads = 1
  Sandbox = TRUE
SPECIFICATION SystemSpec
INVARIANT QueueInOrder
