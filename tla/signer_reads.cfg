SPECIFICATION SignerSpec
CONSTANTS
  Lag = 1
  Valid = 2
  Period = 2
  EdgeMax = 1
  EnclaveMax = 1
  TableBound = 1
  SignTries = 3
  MaxWait = 1
  SweepTries = 3
  SweepWait = 1
  MaxTime = 4
  MaxStray = 2
INVARIANTS
  ReleasedIsFrozen
  RateIsBounded
  GivenUpAfterAWindow
  ClosedIsSeen
  FalseNeverIsTorn
PROPERTIES
  DeriveCostsARecord
CHECK_DEADLOCK FALSE
