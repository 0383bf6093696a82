SPECIFICATION Spec
CONSTANTS
  s1 = s1
  s2 = s2
  Sessions = {s1, s2}
  Env <- BothWait
  ChainCap = 3
  MaxQueue = 2
  MaxFaults = 1
  Texts <- Rooms
  DigestMaxLines = 2
  DigestMaxBytes = 19
  Size <- LineSize
INVARIANTS TypeOK CapKept HintSurvives NothingSilent
PROPERTIES HumanlessStops TurnsRunOut
