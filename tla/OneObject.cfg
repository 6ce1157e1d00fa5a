CONSTANTS
  None = None
  pod = pod
  ns = ns
  pods = pods
  namespaces = namespaces
  otherPods = otherPods
  Keys = {pod}
  Managed = {pod}
  Foreign = {pod}
  Preexisting = {}
  Generational = {pod}
  NamespaceOf <- OneNamespaceOf
  Resources = {pods}
  Watches <- OneWatches
  ResourceOf <- OneResourceOf
  Watched = {}
  WatchGaps = TRUE
  Resyncs = FALSE
  ApiFaults = TRUE
  LossyReplies = TRUE
  MaxInc = 2
  MaxForeignInc = 1
  MaxRev = 1
  MaxPending = 2
SPECIFICATION Spec
INVARIANTS
  TypeOK
  CreatedTracked
  CleanupAttempted
  NoHandlerPanic
  LateEventsIgnored
PROPERTIES
  AdoptedUntilGone
  GenerationMonotone
