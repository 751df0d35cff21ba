SPECIFICATION FairSpec
CONSTANTS
  r1 = r1
  r2 = r2
  g1 = g1
  g2 = g2
  g3 = g3
  Runs = {r1, r2}
  Goals = {g1, g2, g3}
  LongIds = {g3}
  Requests <- MCRequests
  None = None
  Foreign = Foreign
  MaxCached = 1
  Ttl = 2
  Timeout = 1
INVARIANTS
  ReportedIsKept
  OutcomeIsTrue
PROPERTIES
  AdmittedWhileFresh
  AskedIsAnswered
CHECK_DEADLOCK FALSE
