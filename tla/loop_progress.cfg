SPECIFICATION FairLoopSpec
CONSTANTS
  Users = {u1}
  Payers = {p1}
  Relays = {r1}
  Payees = {v1}
  Nobody = Nobody
  Amounts = {1}
  Budgets = {1}
  Caps = {1}
  MaxGoals = 1
  MaxAttempts = 2
  MaxTime = 2
  Window = 2
  Runs = {a}
  NoRun = NoRun
  HoldFor = 1
  MinHold = 1
  ReclaimWait = 0
  Reuse = TRUE
  MaxCrashes = 1
  MaxStray = 1
PROPERTIES
  GoalUnwedges
CHECK_DEADLOCK FALSE
