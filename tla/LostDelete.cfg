CONSTANTS
  None = None
  pod = pod
  ns = ns
  pods = pods
  namespaces = namespaces
  otherPods = otherPods
  Keys = {pod}
  Managed = {pod}
  Foreign = {}
  Preexisting = {}
  Generational = {pod}
  NamespaceOf <- OneNamespaceOf
  Resources = {pods}
  Watches <- OneWatches
  ResourceOf <- OneResourceOf
  Watched = {}
  WatchGaps = TRUE
  Resyncs = FALSE
  ApiFaults = FALSE
  LossyReplies = FALSE
  MaxInc = 1
  MaxForeignInc = 0
  MaxRev = 0
  MaxPending = 1
SPECIFICATION WatchSpec
PROPERTIES
  DeletedUnpublished
