SPECIFICATION Spec
CONSTANTS
  Projects = {prj}
  Runners = {r1}
  Calls = {c1, c2}
  Configs <- ManyKinds
  Verdicts <- AnyVerdict
  MaxID = 7
  Overlap = TRUE
  Lossy = TRUE
SYMMETRY Symmetric
INVARIANTS TypeOK OneHolder StageOrder PendingAccounted SuccessAccounted IInv
PROPERTIES RefinesStagedJobs
CHECK_DEADLOCK FALSE
