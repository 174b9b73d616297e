SPECIFICATION FairSpec
CONSTANTS
  p1 = p1
  p2 = p2
  p3 = p3
  BadSize = BadSize
  NoGroup = NoGroup
  CreationTimeStored = TRUE
  UserDeletes = TRUE
  ApiFails = FALSE
  ControllerCrashes = FALSE
  Pods <- TwoPods
  ObjectOf <- SizedJob
  Namespaces <- MCNamespaces
  Labels <- MCLabels
  NsOf <- OneNamespace
  LabelOf <- SizedLabel
  SizeOf <- SizeOne
PROPERTIES
  FinishedGroupDeleted
  PendingPodGetsGroup
  StatusCatchesUp
  UnsizedGroupGetsSize
CHECK_DEADLOCK FALSE
