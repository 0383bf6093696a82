SPECIFICATION Spec
CONSTANTS
  Daemons = {d1}
  Readers = {r1}
  Cap = 1
  MaxMentions = 1
  MaxCrashes = 0
  MaxFaults = 1
  SlowReaders = FALSE
  Verbs = {"hook"}
CHECK_DEADLOCK FALSE
INVARIANTS FaultsOnlyDelay
