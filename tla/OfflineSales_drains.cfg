\* Two sales, two units, one request slot, a midnight, and a seller who uses the
\* button.
CONSTANTS
  Requests = {r1}
  Events = {1, 2}
  Tokens = {}
  NoEvent = 0
  NoToken = NoToken
  MaxDay = 2
  MaxAnonymous = 0
  MaxAttempts = 2
  Stock = 2
  SnapshotIsolation = TRUE
  Tabs = {tab1}
  NoSlot = NoSlot
  MaxReloads = 1
  Sandbox = FALSE
SPECIFICATION AttendedSpec
PROPERTY QueueDrains
