CONSTANTS
  Resources <- ProxyResources
  Custom = {"Proxy"}
  Objects <- TwoProxies
  Params <- OneParam
  Contents = {first, second}
  Node = Node
SPECIFICATION Spec
INVARIANTS
  TypeOK
  NeverFails
  HalfStoredOnlyInFlight
  NothingElsewhere
PROPERTIES
  ImplementsItemStore
