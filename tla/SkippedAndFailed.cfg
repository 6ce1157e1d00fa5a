CONSTANTS
  MaxDocs = 1
  MaxParts = 2
  CheckTimeout = 2
  Modules <- ThreeModules
SPECIFICATION FairSpec
INVARIANTS
  SkippedNotFailed
