SPECIFICATION TraceSpec
CONSTANTS
  Runs = {"a", "b"}
  MaxEdits = 1
INVARIANTS
  HonestVerifies
  AnchoredIsUnedited
  ProofsAreSound
CHECK_DEADLOCK FALSE
