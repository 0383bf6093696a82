SPECIFICATION Spec
CONSTANTS
  Daemons = {d1}
  Callers = {c1}
  Verbs = {"join", "leave", "send"}
  Ids = {1}
  MaxAttempts = 2
  MaxRequests = 2
  MaxEvictions = 1
  MaxCrashes = 1
CHECK_DEADLOCK FALSE
INVARIANTS TypeOK LeaveStays
