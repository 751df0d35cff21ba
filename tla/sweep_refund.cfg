SPECIFICATION FairSettleSpec
CONSTANTS
  Users = {u1}
  Payers = {p1}
  Relays = {r1}
  Payees = {v1}
  Nobody = Nobody
  Amounts = {1}
  Budgets = {1}
  Caps = {1}
  MaxGoals = 1
  MaxAttempts = 1
  MaxTime = 3
  Window = 2
  Slots = {a}
  MaxTries = 1
  SweepWindow = 1
  MaxFunds = 2
PROPERTIES
  WholeBalanceIsReturned
CHECK_DEADLOCK FALSE
