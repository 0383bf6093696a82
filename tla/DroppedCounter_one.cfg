SPECIFICATION FairSpec
CONSTANTS
  Bumpers = {b1, b2}
  Takers = {t1, t2}
  Overlap = FALSE
  MaxCounted = 3
  MaxCrashes = 2
  MaxFaults = 1
CHECK_DEADLOCK FALSE
INVARIANTS TypeOK Conserved
PROPERTIES DeadAreSwept
