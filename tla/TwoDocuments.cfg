CONSTANTS
  MaxDocs = 2
  MaxParts = 2
  CheckTimeout = 2
  Modules <- ThreeModules
SPECIFICATION FairSpec
INVARIANTS
  TypeOK
  NoNilDereference
  CleanedUp
  TreeAgrees
  TapAgrees
  NoFailureLost
PROPERTIES
  NothingAfterTerminal
  DocumentsIndependent
  PassMeansEvaluated
  ImplementsSuite
  CommandEnds
