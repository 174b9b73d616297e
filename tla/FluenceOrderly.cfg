SPECIFICATION FairSpec
CONSTANTS
  p1 = p1
  p2 = p2
  p3 = p3
  n1 = n1
  n2 = n2
  s1 = s1
  s2 = s2
  ns = ns
  labA = labA
  labB = labB
  NoJob = NoJob
  NoLabel = NoLabel
  NoNode = NoNode
  NoPod = NoPod
  Solo = Solo
  NoKey = NoKey
  JobIds = {j1, j2, j3, j4}
  j1 = j1
  j2 = j2
  j3 = j3
  j4 = j4
  Namespaces = {ns}
  Labels = {labA, labB}
  Slots = {s1, s2}
  Outcomes = {"Succeeded"}
  FilteredInformer = TRUE
  UserDeletes = {}
  GroupsFinish = {}
  RpcFails = FALSE
  SchedulerCrashes = FALSE
  SidecarCrashes = FALSE
  Nodes <- MCNodes
  HostOf <- SpreadSlots
  Pods <- MCPods
  Names <- MCPods
  NsOf <- MCNsOf
  LabelOf <- TwoGroups
  NameOf <- OwnNames
  MinMember <- GangOfTwo
INVARIANTS
  FreedWhenDone
  NoOrphanJob
  JobOwnership
PROPERTIES
  EveryGroupServed
  AllocatesGangs
CHECK_DEADLOCK FALSE
