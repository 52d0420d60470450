\* One browser that people sign in and out of, two environments at a time and in all; one
\* rule that may fall due every day, one page beside the daily job, three days.
CONSTANTS
  Browsers = {b1}
  Accounts = {u1}
  SharedBrowsers = {b1}
  Nobody = Nobody
  MaxActive = 2
  TTL = 2
  MaxEnvs = 2
  MaxTime = 2
  MaxFaults = 1
  Rules = {r1}
  NoRule = NoRule
  Pages = {p1}
  Scheduler = Scheduler
  Starts = {0, 1}
  Interval = 1
  Limit = 3
  MaxDay = 2
  MaxManual = 1
  MaxStops = 1
SPECIFICATION SchedulesSpec
INVARIANTS EnteredOnce NothingPassedOver
PROPERTIES MarkedIsRemoved DueIsBooked
CHECK_DEADLOCK FALSE
