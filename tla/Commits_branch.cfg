SPECIFICATION Spec
CONSTANTS
  Projects = {p1}
  Paths = {root}
  PathOf <- OnePath
  Branches <- TwoBranches
  Files = {ci, src}
  CIFile = ci
  FileSets <- WithAndWithoutCI
  Calls = {c1, c2}
  Pushes = {}
  None = None
  Pseudo = Pseudo
  Serial = TRUE
  Durable = TRUE
INVARIANTS CommitOnBranch
CHECK_DEADLOCK FALSE
