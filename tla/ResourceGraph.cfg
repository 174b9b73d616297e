SPECIFICATION Spec
CONSTANTS
  master = master
  n1 = n1
  n2 = n2
  zone = zone
  a1 = a1
  a2 = a2
  b = b
  c = c
  x = x
  grpA = grpA
  grpB = grpB
  grpC = grpC
  j1 = j1
  j2 = j2
  JobIds = {j1, j2}
  NoNode = NoNode
  NoGroup = NoGroup
  Skipped = {master}
  Zoned = {b}
  Core = 1000
  MB = 4
  Block = 8
  NodeItems <- MCNodeItems
  ZoneOf <- MCZoneOf
  Allocatable <- MCAllocatable
  Pods <- MCPods
  Containers <- MCContainers
  InitRequest <- MCInitRequest
  GroupOf <- MCGroupOf
  MinMember <- MCMinMember
SYMMETRY GangSymmetry
INVARIANTS
  TypeOK
  NodeNotOversold
  SentWhereItFits
  TasksMatchSlots
CHECK_DEADLOCK FALSE
