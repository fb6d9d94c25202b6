CONSTANTS
  r1 = r1
  r2 = r2
  r3 = r3
  Runs = {r1, r2}
  NoRun = NoRun
  Ttl = 2
  MaxTime = 4
  Kinds = {"drain", "bulk", "cron"}
  Orders = 2
  ThrottleLimit = 1
  Admins = {"admin"}
  MaxFaults = 1
  LocalOrders <- MCLocalOrders
  Payloads <- MCPayloads
SPECIFICATION MCSpec
CHECK_DEADLOCK FALSE
SYMMETRY RunSymmetry
INVARIANT EndedIsShown
INVARIANT AuditIsRight
PROPERTY IsLease
