CONSTANTS
  None = None
  pod = pod
  ns = ns
  pods = pods
  namespaces = namespaces
  otherPods = otherPods
  Keys = {pod}
  Managed = {pod}
  Foreign = {pod}
  Preexisting = {}
  Generational = {pod}
  NamespaceOf <- OneNamespaceOf
  Resources = {pods}
  Watches <- OneWatches
  ResourceOf <- OneResourceOf
  Watched = {}
  WatchGaps = FALSE
  Resyncs = TRUE
  ApiFaults = FALSE
  LossyReplies = FALSE
  MaxInc = 2
  MaxForeignInc = 1
  MaxRev = 1
  MaxPending = 1
SPECIFICATION WatchSpec
PROPERTIES
  MirrorConverges
  AdoptedCatchesUp
