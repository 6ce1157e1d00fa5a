CONSTANTS
  None = None
  pod = pod
  ns = ns
  pods = pods
  namespaces = namespaces
  otherPods = otherPods
  Keys = {ns, pod}
  Managed = {pod}
  Foreign = {ns}
  Preexisting = {ns}
  Generational = {pod}
  NamespaceOf <- PodNamespaceOf
  Resources = {namespaces, pods}
  Watches <- PodWatches
  ResourceOf <- PodResourceOf
  Watched = {}
  WatchGaps = FALSE
  Resyncs = FALSE
  ApiFaults = TRUE
  LossyReplies = FALSE
  MaxInc = 2
  MaxForeignInc = 2
  MaxRev = 0
  MaxPending = 1
SPECIFICATION RunSpec
INVARIANTS
  CreatedTracked
  CleanupAttempted
  NoHandlerPanic
PROPERTIES
  OnlyMissingAdopted
  CleanupCompletes
  ImplementsSession
