SPECIFICATION Spec
CONSTANTS
  Daemons = {d1, d2}
  Readers = {r1}
  Cap = 2
  MaxMentions = 3
  MaxCrashes = 0
  MaxFaults = 0
  SlowReaders = TRUE
  Verbs = {"wait"}
CHECK_DEADLOCK FALSE
INVARIANTS NothingVanishes OnePlace NewestKept
PROPERTIES OldestFirst
