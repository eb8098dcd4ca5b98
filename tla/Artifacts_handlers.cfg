SPECIFICATION Spec
CONSTANTS
  Configs <- ThreeConfigs
  NoList = nil
  Nil = nil
  Backends = {"mem", "dir", "s3"}
  Sizes = {0, 1}
  Uploads = {u1, u2}
  MaxLives = 2
  MaxID = 4
CONSTRAINTS OneJobUploads OneOverlaps
SYMMETRY Symmetric
INVARIANTS DownloadIsWhole NeedsAreSettled NeedsAreThere IInv GlobalsAnywhere OwnVariableWins
CHECK_DEADLOCK FALSE
