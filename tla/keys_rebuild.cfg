SPECIFICATION FairSpec
CONSTANTS
  m1 = m1
  m2 = m2
  Mints = {m1, m2}
  Gap = 2
  MaxIds = 4
  MaxTroubles = 3
INVARIANTS
  OneCallerPerId
  HandedIsHeld
PROPERTIES
  RebuildFinds
  ServesAgain
CHECK_DEADLOCK FALSE
