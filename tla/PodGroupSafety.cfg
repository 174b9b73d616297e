SPECIFICATION Spec
CONSTANTS
  p1 = p1
  p2 = p2
  p3 = p3
  BadSize = BadSize
  NoGroup = NoGroup
  CreationTimeStored = TRUE
  UserDeletes = FALSE
  ApiFails = TRUE
  ControllerCrashes = TRUE
  Pods <- ThreePods
  ObjectOf <- PlainJob
  Namespaces <- MCNamespaces
  Labels <- MCLabels
  NsOf <- OneNamespace
  LabelOf <- PlainLabel
  SizeOf <- SizeTwo
SYMMETRY PodSymmetry
INVARIANTS
  TypeOK
PROPERTIES
  DeletedOnlyWhenBegun
  PhaseOrder
  SizeSetOnce
  FollowsLifecycle
CHECK_DEADLOCK FALSE
