SPECIFICATION FairSpec
CONSTANTS
  Daemons = {d1, d2}
  Sessions = {s1}
  Temps = {}
  TempsOf <- Anyones
  Resolves = {"own"}
  Nobody = Nobody
  MaxFaults = 0
CHECK_DEADLOCK FALSE
PROPERTIES UpgradeHeard
