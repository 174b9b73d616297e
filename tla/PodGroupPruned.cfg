SPECIFICATION FairSpec
CONSTANTS
  p1 = p1
  p2 = p2
  p3 = p3
  BadSize = BadSize
  NoGroup = NoGroup
  CreationTimeStored = FALSE
  UserDeletes = FALSE
  ApiFails = FALSE
  ControllerCrashes = FALSE
  Pods <- TwoPods
  ObjectOf <- PlainJob
  Namespaces <- MCNamespaces
  Labels <- MCLabels
  NsOf <- OneNamespace
  LabelOf <- PlainLabel
  SizeOf <- SizeTwo
PROPERTIES
  FinishedGroupDeleted
CHECK_DEADLOCK FALSE
