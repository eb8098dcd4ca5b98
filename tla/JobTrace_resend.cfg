SPECIFICATION Spec
CONSTANTS
  Calls = {c1, c2}
  NoCall = none
  LogLen = 2
  PutTrace = FALSE
  Overlap = TRUE
INVARIANTS TraceIsPrefix
CHECK_DEADLOCK FALSE
