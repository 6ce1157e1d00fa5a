CONSTANTS
  MaxLines = 3
  Kinds = {"Deployment", "Pod", "Namespace"}
  Words = {"default", "prod", "web"}
  Runs = {1, 2}
  None = None
  NamespaceKind = "Namespace"
  ChildKind = "Pod"
  ClusterScoped = {"Namespace"}
  Written <- FixtureObjects
  Texts <- FragmentTexts
  MaxRuns = 2
SPECIFICATION Spec
INVARIANTS
  RenamedWhereAsked
