SPECIFICATION FairSpec
CONSTANTS
  Users = {u1}
  Payers = {p1}
  Relays = {r1}
  Payees = {v1, v2}
  Nobody = Nobody
  Amounts = {1, 3}
  Budgets = {3}
  Caps = {1}
  MaxGoals = 2
  MaxAttempts = 2
  MaxTime = 4
  Window = 2
INVARIANTS
  StrictlySequential
  CallsConserved
  FinalizeNeverReverts
  BudgetConserved
  PaidWithinPolicy
  LossCeiling
PROPERTIES
  ImplementsLifecycle
  PendingIsResolved
  DebitIsSettled
CHECK_DEADLOCK FALSE
