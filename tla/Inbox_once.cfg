SPECIFICATION Spec
CONSTANTS
  Daemons = {d1}
  Readers = {r1, r2}
  Cap = 1
  MaxMentions = 1
  MaxCrashes = 0
  MaxFaults = 0
  SlowReaders = FALSE
  Verbs = {"hook"}
SYMMETRY ReaderSymmetry
CHECK_DEADLOCK FALSE
INVARIANTS DeliveredOnce
