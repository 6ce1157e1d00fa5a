CONSTANTS
  None = None
  pod = pod
  ns = ns
  pods = pods
  namespaces = namespaces
  otherPods = otherPods
  Keys = {pod}
  Managed = {pod}
  Foreign = {}
  Preexisting = {}
  Generational = {pod}
  NamespaceOf <- OneNamespaceOf
  Resources = {pods, otherPods}
  Watches <- OverlappingWatches
  ResourceOf <- OneResourceOf
  Watched = {otherPods}
  WatchGaps = FALSE
  Resyncs = FALSE
  ApiFaults = FALSE
  LossyReplies = FALSE
  MaxInc = 2
  MaxForeignInc = 0
  MaxRev = 0
  MaxPending = 2
SPECIFICATION Spec
INVARIANTS
  NoHandlerPanic
