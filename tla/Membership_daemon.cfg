SPECIFICATION FairSpec
CONSTANTS
  Daemons = {d1}
  Callers = {}
  Verbs = {}
  Ids = {1}
  MaxAttempts = 2
  MaxRequests = 3
  MaxEvictions = 1
  MaxCrashes = 1
CHECK_DEADLOCK FALSE
INVARIANTS  OneRequest BudgetKept
PROPERTIES Rejoins
