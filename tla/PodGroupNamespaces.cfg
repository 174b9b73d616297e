SPECIFICATION Spec
CONSTANTS
  p1 = p1
  p2 = p2
  p3 = p3
  BadSize = BadSize
  NoGroup = NoGroup
  CreationTimeStored = TRUE
  UserDeletes = FALSE
  ApiFails = FALSE
  ControllerCrashes = FALSE
  Pods <- TwoPods
  ObjectOf <- SameName
  Namespaces <- MCNamespaces
  Labels <- MCLabels
  NsOf <- TwoNamespaces
  LabelOf <- SameLabel
  SizeOf <- SizeOne
PROPERTIES
  DeletedOnlyWhenBegun
CHECK_DEADLOCK FALSE
