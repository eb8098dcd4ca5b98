SPECIFICATION Spec
CONSTANTS
  Projects = {prj}
  Runners = {r1}
  Calls = {c1, c2}
  Configs <- OneParallel
  Verdicts <- AnyVerdict
  MaxID = 5
  Overlap = FALSE
  Lossy = FALSE
INVARIANTS FailedJobFailsPipeline
CHECK_DEADLOCK FALSE
