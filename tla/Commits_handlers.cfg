SPECIFICATION Spec
CONSTANTS
  Projects = {p1}
  Paths = {root}
  PathOf <- OnePath
  Branches <- TwoBranches
  Files = {ci, src}
  CIFile = ci
  FileSets <- WithAndWithoutCI
  Calls = {c1, c2, c3}
  Pushes = {k1}
  None = None
  Pseudo = Pseudo
  Serial = TRUE
  Durable = TRUE
SYMMETRY Symmetric
CONSTRAINT ThreeWriters
INVARIANTS TypeOK AckedCommitsStay CommitIsAdditive PipelineFitsCommit IInv
PROPERTIES PushLeavesHead RefinesRepositories
CHECK_DEADLOCK FALSE
