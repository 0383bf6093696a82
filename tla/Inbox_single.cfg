SPECIFICATION Spec
CONSTANTS
  Daemons = {d1}
  Readers = {r1, r2}
  Cap = 1
  MaxMentions = 2
  MaxCrashes = 1
  MaxFaults = 1
  SlowReaders = TRUE
  Verbs = {"hook", "read"}
SYMMETRY ReaderSymmetry
CHECK_DEADLOCK FALSE
INVARIANTS TypeOK NothingVanishes LandedSurvives DuplicatesAreRecovered CapHolds
PROPERTIES LandedBeforeListen
