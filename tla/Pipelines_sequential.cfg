SPECIFICATION FairSpec
CONSTANTS
  Projects = {prj}
  Runners = {r1, r2}
  Calls = {c1, c2}
  Configs <- ManyKinds
  Verdicts <- AnyVerdict
  MaxID = 6
  Overlap = FALSE
  Lossy = FALSE
INVARIANTS RunningHasWork
PROPERTIES VerdictIsFinal PipelinesFinish
CHECK_DEADLOCK FALSE
