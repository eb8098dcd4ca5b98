SPECIFICATION FairSpec
CONSTANTS
  Calls = {c1, c2}
  NoCall = none
  LogLen = 6
  PutTrace = TRUE
  Overlap = FALSE
INVARIANTS TypeOK TraceIsPrefix AckedIsStored CheckStillHolds IInv
PROPERTIES TraceOnlyGrows LogDelivered
CHECK_DEADLOCK FALSE
