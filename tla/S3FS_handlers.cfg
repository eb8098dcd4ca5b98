SPECIFICATION Spec
CONSTANTS
  MaxName = 2
  Handles = {h1, h2}
  Chunks <- AtMostOneByte
  FlagSets <- UsualFlags
  MaxLen = 2
  None = None
SYMMETRY Symmetric
CONSTRAINT TwoAtATime
CONSTRAINT OneAppends
CONSTRAINT OneName
INVARIANTS TypeOK ListingIsComplete
PROPERTIES SessionIsPlain RenameLosesNothing
CHECK_DEADLOCK FALSE
