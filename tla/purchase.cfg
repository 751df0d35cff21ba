SPECIFICATION PurchaseSpec
CONSTANTS
  Calls = {"a", "b"}
  MaxAttempts = 2
  MaxRestarts = 1
INVARIANTS
  SettlementIsOwn
  SourceIsTrue
PROPERTIES
  PurchaseEnds
CHECK_DEADLOCK FALSE
