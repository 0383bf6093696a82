SPECIFICATION FairSpec
CONSTANTS
  Daemons = {d1, d2}
  Sessions = {s1}
  Temps = {t1}
  TempsOf <- Anyones
  Resolves = {"own"}
  Nobody = Nobody
  MaxFaults = 1
CHECK_DEADLOCK FALSE
INVARIANTS TypeOK NeverDeaf
PROPERTIES MarkedHeard EarReturns LeftStaysOut PhantomLeaves
