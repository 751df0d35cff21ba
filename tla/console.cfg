SPECIFICATION ConsoleSpec
CONSTANTS
  MaxGoals = 2
  MaxMints = 1
  MaxFunds = 1
  MaxReloads = 1
  Posts = {p1, p2}
  Runs = {r1, r2}
  OldOwners = {"other"}
  p1 = p1
  p2 = p2
  r1 = r1
  r2 = r2
SYMMETRY RequestSymmetry
INVARIANTS
  SpentWasCollected
  ReturnedWentHome
  RecoveredIsMoved
CHECK_DEADLOCK FALSE
