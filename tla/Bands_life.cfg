\* Two applications, two calls and two names; a founder, a second account, one sign-in
\* and one change of an account at a time; an article with up to two variants,
\* two positions of one piece bought and one piece sold of each; two files for two rows, two
\* backups in three seconds; two browsers, one of them shared, one practice environment
\* at a time, two in all.
CONSTANTS
  Applications = {q1, q2}
  Calls = {c1, c2}
  Slugs = {s1, s2}
  PendingTTL = 1
  DecisionTTL = 1
  MaxDay = 2
  People = {p1, p2}
  Founder = p1
  Logins = {l1}
  AccountChanges = {c1}
  UserQuota = 0
  MaxVersion = 1
  a = a
  b = b
  c = c
  g1 = g1
  g2 = g2
  OptionGroups = {g1, g2}
  OptionValues = {a, b, c}
  GroupOf <- GroupOfSizes
  DefaultValues = {a}
  StalePages = FALSE
  MaxVariants = 2
  Quantities = {1}
  Reassign = FALSE
  MaxPositions = 2
  MaxSold = 1
  Docs = {inv, pic}
  Invoices = {inv}
  MaxStored = 2
  Uploaders = {u1, u2}
  Unbacked = {}
  Retention = 1
  Quiet = TRUE
  Apart = TRUE
  MaxRuns = 2
  MaxClock = 2
  Browsers = {b1, b2}
  SharedBrowsers = {b1}
  Accounts = {u3}
  Nobody = Nobody
  MaxActive = 1
  TTL = 1
  MaxEnvs = 2
  MaxTime = 1
  MaxFaults = 1
SPECIFICATION BandsSpec
INVARIANTS Handover SignedOutEverywhere DepletedNotOffered FilesPresent SafetyPoint
INVARIANT WithinCapacity
PROPERTY StockKept
CHECK_DEADLOCK FALSE
