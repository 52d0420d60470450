\* One platform account, two requests at a time, two grants, windows of one unit.
CONSTANTS
  Requests = {r1, r2}
  Staff = {s1}
  NoStaff = NoStaff
  MaxGrants = 2
  Duration = 1
  MaxTime = 1
SPECIFICATION FairSpec
INVARIANTS RevokedNotServed ScopeByApproval
PROPERTY WindowCloses
CHECK_DEADLOCK FALSE
