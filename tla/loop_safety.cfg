SPECIFICATION LoopSpec
CONSTANTS
  Users = {u1}
  Payers = {p1}
  Relays = {r1}
  Payees = {v1}
  Nobody = Nobody
  Amounts = {1}
  Budgets = {1, 2}
  Caps = {1}
  MaxGoals = 1
  MaxAttempts = 2
  MaxTime = 3
  Window = 2
  Runs = {a, b}
  NoRun = NoRun
  HoldFor = 1
  MinHold = 1
  ReclaimWait = 0
  Reuse = FALSE
  MaxCrashes = 1
  MaxStray = 1
INVARIANTS
  OneSpendPerPurchase
  RecoveredNeverPaid
  TrueReports
PROPERTIES
  CollectedWithinHold
SYMMETRY Symmetry
CHECK_DEADLOCK FALSE
