SPECIFICATION FairSpec
CONSTANTS
  Daemons = {d1}
  Readers = {r1}
  Cap = 1
  MaxMentions = 2
  MaxCrashes = 1
  MaxFaults = 0
  SlowReaders = TRUE
  Verbs = {"hook", "standby"}
CHECK_DEADLOCK FALSE
PROPERTIES Delivered Drained KeepsPromise
