--------------------------- MODULE FluenceProofs ---------------------------
(***************************************************************************)
(* Proofs about Fluence for any pods, groups, nodes, slots and job ids.     *)
(***************************************************************************)
EXTENDS Fluence, FiniteSetTheorems, SequenceTheorems, TLAPS

AskingPCs == {"recancel", "match", "record", "resize", "assign"}

(* Only a pod with a group label gets as far as asking for nodes. *)
AskerHasGroup == pc \in AskingPCs => LabelOf[cur] \in Labels

TypeInv == TypeOK /\ AskerHasGroup

LEMMA GroupOfType ==
    ASSUME NEW p \in Pods, HasGroup(p)
    PROVE  GroupOf(p) \in Groups /\ LabelOf[p] \in Labels
BY PodsAssumption DEF HasGroup, GroupOf, Groups

LEMMA AskerInGroup ==
    ASSUME TypeInv, pc \in AskingPCs
    PROVE  cur \in Pods /\ GroupOf(cur) \in Groups
BY PodsAssumption DEF TypeInv, TypeOK, AskerHasGroup, AskingPCs, GroupOf, Groups

LEMMA TypeInit == Init => TypeInv
<1> SUFFICES ASSUME Init PROVE TypeInv
  OBVIOUS
<1>1. restarted \in BOOLEAN
  BY Zenon DEF Init, FluxionInit
<1>2. events \in Seq([pod : Pods, kind : {"update", "delete"}, phase : {"active", "done"}])
  BY DEF Init
<1>3. AskerHasGroup
  BY DEF Init, CycleInit, AskerHasGroup, AskingPCs
<1>4. graph \subseteq Slots /\ jobs \subseteq Job(Groups)
  BY DEF Init, FluxionInit
<1> QED
  BY <1>1, <1>2, <1>3, <1>4, PodsAssumption
  DEF Init, TypeInv, TypeOK, ManagerInit, CycleInit, Phases, Stored, PCs

(* Steps of the API server and of the informer. *)
LEMMA TypeEnvironment ==
    ASSUME TypeInv,
           \/ \E p \in Pods : Create(p) \/ Start(p) \/ Finish(p) \/ Delete(p)
           \/ \E g \in Groups : GroupCreate(g) \/ GroupFinish(g) \/ PermittedExpire(g)
           \/ \E p \in Pods : InformerStep(p)
    PROVE  TypeInv'
<1> USE DEF TypeInv, TypeOK, AskerHasGroup, AskingPCs, Phases, Alive, Terminal, Stored,
            apiVars, informerVars, managerVars, cycleVars, frameworkVars, fluxionVars, Outside
<1>1. ASSUME NEW p \in Pods, Create(p) PROVE TypeInv'
  BY <1>1 DEF Create
<1>2. ASSUME NEW p \in Pods, Start(p) PROVE TypeInv'
  BY <1>2 DEF Start
<1>3. ASSUME NEW p \in Pods, Finish(p) PROVE TypeInv'
  BY <1>3, PodsAssumption DEF Finish
<1>4. ASSUME NEW p \in Pods, Delete(p) PROVE TypeInv'
  BY <1>4 DEF Delete
<1>5. ASSUME NEW g \in Groups, GroupCreate(g) PROVE TypeInv'
  BY <1>5 DEF GroupCreate, Life!Create
<1>6. ASSUME NEW g \in Groups, GroupFinish(g) PROVE TypeInv'
  BY <1>6 DEF GroupFinish, Life!Finish
<1>7. ASSUME NEW g \in Groups, PermittedExpire(g) PROVE TypeInv'
  BY <1>7 DEF PermittedExpire
<1>8. ASSUME NEW p \in Pods, InformerAdd(p) PROVE TypeInv'
  BY <1>8 DEF InformerAdd
<1>9. ASSUME NEW p \in Pods, InformerUpdate(p) PROVE TypeInv'
  BY <1>9 DEF InformerUpdate, Event
<1>10. ASSUME NEW p \in Pods, InformerDelete(p) PROVE TypeInv'
  BY <1>10 DEF InformerDelete, Event
<1> QED BY <1>1, <1>2, <1>3, <1>4, <1>5, <1>6, <1>7, <1>8, <1>9, <1>10 DEF InformerStep

(* What cancelFluxJob does to the maps and the sidecar, whatever fails. *)
LEMMA CancelType ==
    ASSUME TypeInv, NEW g \in Groups, NEW ns, CancelFluxJob(g, ns)
    PROVE  /\ groupToJobId' \in [Groups -> JobIds \cup {NoJob}]
           /\ podToNode' \in [Names -> Nodes \cup {NoNode}]
           /\ jobs' \subseteq jobs
           /\ UNCHANGED <<graph, restarted>>
BY DEF CancelFluxJob, Cleanup, Cancel, TypeInv, TypeOK, fluxionVars

LEMMA TypeHandler ==
    ASSUME TypeInv, HandlerStep PROVE TypeInv'
<1> USE DEF TypeInv, TypeOK, AskerHasGroup, AskingPCs,
            apiVars, informerVars, managerVars, cycleVars, frameworkVars, fluxionVars, Outside
<1>1. CASE HandlerLookup
  <2> DEFINE Ev == [pod : Pods, kind : {"update", "delete"}, phase : {"active", "done"}]
  <2>a. events \in Seq(Ev) /\ events # <<>>
    BY <1>1 DEF HandlerLookup
  <2>b. Head(events) \in Ev /\ Tail(events) \in Seq(Ev)
    <3> HIDE DEF Ev
    <3> QED BY <2>a, HeadTailProperties
  <2>1. Head(events).pod \in Pods /\ Tail(events) \in Seq(Ev)
    BY <2>b
  <2>2. hkey' \in Groups \cup {Solo, NoKey}
    BY <1>1, <2>1, GroupOfType DEF HandlerLookup, GroupFound
  <2> QED BY <1>1, <2>1, <2>2 DEF HandlerLookup
<1>2. CASE HandlerFree
  <2>1. CASE hkey \in Groups /\ CancelFluxJob(hkey, hkey[1])
    BY <1>2, <2>1, CancelType DEF HandlerFree
  <2>2. CASE UNCHANGED <<groupToJobId, podToNode, fluxionVars>>
    BY <1>2, <2>2 DEF HandlerFree
  <2> QED BY <1>2, <2>1, <2>2 DEF HandlerFree
<1> QED BY <1>1, <1>2 DEF HandlerStep

(* PreFilter and the calls it makes. *)
LEMMA TypeAsk ==
    ASSUME TypeInv,
           \/ \E p \in Pods : ScheduleOne(p)
           \/ PreFilterStep \/ AskStep
    PROVE  TypeInv'
<1> USE DEF TypeInv, TypeOK, AskerHasGroup, AskingPCs, PCs,
            apiVars, informerVars, managerVars, cycleVars, frameworkVars, fluxionVars, Outside
<1>1. ASSUME NEW p \in Pods, ScheduleOne(p) PROVE TypeInv'
  BY <1>1 DEF ScheduleOne, Assigned
<1>2. CASE PreFilterAssigned
  BY <1>2, PodsAssumption DEF PreFilterAssigned
<1>3. CASE PreFilterSkip
  BY <1>3 DEF PreFilterSkip
<1>4. CASE PreFilterTooFew
  BY <1>4 DEF PreFilterTooFew
<1>5. CASE PreFilterAsk
  BY <1>5, GroupOfType DEF PreFilterAsk, GroupFound, Listed
<1>a. pc \in AskingPCs => cur \in Pods /\ GroupOf(cur) \in Groups
  BY AskerInGroup
<1>6. CASE AskCancel
  BY <1>6, <1>a, CancelType DEF AskCancel
<1>7. CASE AskMatch
  <2>1. PICK id \in FreshIds(RememberedIds), use \in Allocations(MinMember[GroupOf(cur)]) :
          /\ Match(GroupOf(cur), id, use)
          /\ \/ job' = id /\ nodes' = NodeList(use) /\ pc' = "record"
             \/ RpcFails /\ pc' = "postfilter" /\ UNCHANGED <<job, nodes>>
    BY <1>7 DEF AskMatch
  <2>2. id \in JobIds /\ use \subseteq Slots
    BY DEF FreshIds, Allocations, FreeSlots
  <2>3. NodeList(use) \subseteq Nodes
    BY <2>2, SlotsAssumption DEF NodeList
  <2>4. [id |-> id, owner |-> GroupOf(cur), use |-> use] \in Job(Groups)
    BY <1>7, <1>a, <2>2 DEF AskMatch, Job
  <2>5. jobs' \subseteq Job(Groups)
    BY <2>1, <2>4 DEF Match
  <2> QED BY <1>7, <2>1, <2>2, <2>3, <2>5 DEF AskMatch, Match
<1>8. CASE AskNoMatch
  BY <1>8 DEF AskNoMatch
<1>9. CASE AskRecord
  BY <1>9, <1>a DEF AskRecord
<1>10. CASE ResizeCancel
  BY <1>10, <1>a, CancelType DEF ResizeCancel
<1>11. CASE Assign
  <2>1. PICK f \in Assignments :
         /\ podToNode' = [m \in Names |->
              IF \E q \in sibs : NameOf[q] = m /\ f[q] # NoNode
                THEN f[CHOOSE q \in sibs : NameOf[q] = m /\ f[q] # NoNode]
                ELSE podToNode[m]]
         /\ written' = IF cur \in sibs THEN f[cur] ELSE NoNode
         /\ chosen' = podToNode'[NameOf[cur]]
    BY <1>11 DEF Assign
  <2>2. f \in [sibs -> Nodes \cup {NoNode}]
    BY DEF Assignments
  <2>3. ASSUME NEW m \in Names, \E q \in sibs : NameOf[q] = m /\ f[q] # NoNode
        PROVE  (CHOOSE q \in sibs : NameOf[q] = m /\ f[q] # NoNode) \in sibs
    BY <2>3
  <2>4. podToNode' \in [Names -> Nodes \cup {NoNode}]
    BY <2>1, <2>2, <2>3
  <2>5. chosen' \in Nodes \cup {NoNode} /\ written' \in Nodes \cup {NoNode}
    BY <1>11, <2>1, <2>2, <2>4, PodsAssumption DEF Assign
  <2> QED BY <1>11, <1>a, <2>4, <2>5 DEF Assign
<1> QED
  BY <1>1, <1>2, <1>3, <1>4, <1>5, <1>6, <1>7, <1>8, <1>9, <1>10, <1>11
  DEF PreFilterStep, AskStep

(* Filter, PostFilter and Permit; the binding goroutines; crashes. *)
LEMMA TypeRest ==
    ASSUME TypeInv,
           \/ FilterStep \/ FilterRefused \/ PostFilterStep \/ PermitStep
           \/ \E p \in Pods : BindStep(p) \/ WaitTimeout(p)
           \/ SchedulerRestart \/ PreFilterPanic \/ SidecarRestart
    PROVE  TypeInv'
<1> USE DEF TypeInv, TypeOK, AskerHasGroup, AskingPCs, PCs, EndCycle, RejectWaiting,
            apiVars, informerVars, managerVars, cycleVars, frameworkVars, fluxionVars, Outside
<1>1. CASE FilterStep \/ FilterRefused
  BY <1>1 DEF FilterStep, FilterPass, FilterFail, FilterRefused
<1>2. CASE PostFilterKeep
  BY <1>2 DEF PostFilterKeep
<1>3. CASE PostFilterReject
  BY <1>3 DEF PostFilterReject
<1>4. CASE PermitAllow
  BY <1>4 DEF PermitAllow
<1>5. CASE PermitWait
  BY <1>5 DEF PermitWait
<1>6. CASE PermitDeny
  BY <1>6 DEF PermitDeny
<1>7. ASSUME NEW p \in Pods, WaitTimeout(p) \/ BindPod(p) \/ BindMissing(p) PROVE TypeInv'
  BY <1>7 DEF WaitTimeout, BindPod, BindMissing
<1>8. ASSUME NEW p \in Pods, Unreserve(p) PROVE TypeInv'
  <2>1. RejectWaiting(p) \in [Pods -> {"idle", "waiting", "rejected", "forgetting",
                                       "allowed", "bound"}]
    OBVIOUS
  <2>2. bind' \in [Pods -> {"idle", "waiting", "rejected", "forgetting", "allowed", "bound"}]
    <3> HIDE DEF RejectWaiting
    <3> QED BY <1>8, <2>1 DEF Unreserve
  <2> QED BY <1>8, <2>2 DEF Unreserve
<1>9. ASSUME NEW p \in Pods, Forget(p) PROVE TypeInv'
  BY <1>9 DEF Forget
<1>10. CASE NewScheduler
  BY <1>10 DEF NewScheduler, Stored
<1>11. CASE SidecarRestart
  <2>1. graph' \subseteq Slots /\ jobs' \subseteq Job(Groups) /\ restarted' \in BOOLEAN
    BY <1>11 DEF SidecarRestart, Restart, GraphsFor
  <2> QED BY <1>11, <2>1 DEF SidecarRestart
<1> QED
  BY <1>1, <1>2, <1>3, <1>4, <1>5, <1>6, <1>7, <1>8, <1>9, <1>10, <1>11
  DEF PostFilterStep, PermitStep, BindStep, SchedulerRestart, PreFilterPanic

LEMMA TypeNext == TypeInv /\ [Next]_vars => TypeInv'
<1> SUFFICES ASSUME TypeInv, [Next]_vars PROVE TypeInv'
  OBVIOUS
<1>1. CASE UNCHANGED vars
  BY <1>1 DEF TypeInv, TypeOK, AskerHasGroup, vars, apiVars, informerVars, managerVars,
              cycleVars, frameworkVars, fluxionVars
<1> QED BY <1>1, TypeEnvironment, TypeHandler, TypeAsk, TypeRest DEF Next, CycleStep

(* Every variable of the plugin, the informer, the framework and the sidecar*)
(* keeps its type in every behaviour, with lost calls, deletions and        *)
(* crashes: in particular only existing group names get into the manager's  *)
(* maps and only listed pods are indexed.                                   *)
THEOREM TypeCorrect == Spec => []TypeOK
<1>1. Spec => []TypeInv
  BY TypeInit, TypeNext, PTL DEF Spec
<1> QED BY <1>1, PTL DEF TypeInv

-----------------------------------------------------------------------------
(* Jobs and their owners.  JobOwnership and NoOrphanJob are inductive       *)
(* together with two facts about the ask in progress: the job Match has just*)
(* returned is the asking group's, and that group remembers no other job    *)
(* from the moment AskFlux has dealt with the previous one.                 *)

InFlightOwner ==
    ~restarted /\ pc = "record" =>
        \A j \in jobs : j.id = job => j.owner = GroupOf(cur)

NothingRemembered ==
    ~RpcFails /\ pc \in {"match", "record"} => groupToJobId[GroupOf(cur)] = NoJob

RestartIsCrash == restarted => SidecarCrashes

JobInv == JobOwnership /\ InFlightOwner /\ NothingRemembered /\ NoOrphanJob /\ RestartIsCrash

(* Steps that touch neither the map of job ids nor the sidecar. *)
JobsUntouched ==
    /\ UNCHANGED <<jobs, groupToJobId, restarted>>
    /\ \/ UNCHANGED <<pc, cur, job>>
       \/ pc # "record" /\ pc' \notin {"match", "record"}

LEMMA JobUntouched ==
    ASSUME JobInv, JobsUntouched PROVE JobInv'
BY DEF JobInv, JobsUntouched, JobOwnership, InFlightOwner, NothingRemembered, NoOrphanJob,
       RestartIsCrash, GroupOf

LEMMA UntouchedSteps ==
    ASSUME TypeInv,
           \/ UNCHANGED vars
           \/ \E p \in Pods : Create(p) \/ Start(p) \/ Finish(p) \/ Delete(p)
           \/ \E g \in Groups : GroupCreate(g) \/ GroupFinish(g) \/ PermittedExpire(g)
           \/ \E p \in Pods : InformerStep(p) \/ BindStep(p) \/ WaitTimeout(p)
           \/ HandlerLookup
           \/ \E p \in Pods : ScheduleOne(p)
           \/ PreFilterAssigned \/ PreFilterSkip \/ PreFilterTooFew
           \/ AskNoMatch \/ Assign
           \/ FilterStep \/ FilterRefused \/ PostFilterStep \/ PermitStep
    PROVE  JobsUntouched
<1> USE DEF JobsUntouched, apiVars, informerVars, managerVars, cycleVars, frameworkVars,
            fluxionVars, Outside, vars, EndCycle
<1>1. CASE UNCHANGED vars
  BY <1>1
<1>2. CASE \E p \in Pods : Create(p) \/ Start(p) \/ Finish(p) \/ Delete(p)
  BY <1>2 DEF Create, Start, Finish, Delete
<1>3. CASE \E g \in Groups : GroupCreate(g) \/ GroupFinish(g) \/ PermittedExpire(g)
  BY <1>3 DEF GroupCreate, GroupFinish, PermittedExpire
<1>4. CASE \E p \in Pods : InformerStep(p)
  BY <1>4 DEF InformerStep, InformerAdd, InformerUpdate, InformerDelete
<1>5. CASE \E p \in Pods : BindStep(p) \/ WaitTimeout(p)
  BY <1>5 DEF BindStep, BindPod, BindMissing, Unreserve, Forget, WaitTimeout
<1>6. CASE HandlerLookup \/ \E p \in Pods : ScheduleOne(p)
  BY <1>6 DEF HandlerLookup, ScheduleOne
<1>7. CASE PreFilterAssigned \/ PreFilterSkip \/ PreFilterTooFew \/ AskNoMatch \/ Assign
  BY <1>7 DEF PreFilterAssigned, PreFilterSkip, PreFilterTooFew, AskNoMatch, Assign
<1>8. CASE FilterStep \/ FilterRefused
  BY <1>8 DEF FilterStep, FilterPass, FilterFail, FilterRefused
<1>9. CASE PostFilterStep \/ PermitStep
  BY <1>9 DEF PostFilterStep, PostFilterKeep, PostFilterReject,
              PermitStep, PermitAllow, PermitWait, PermitDeny
<1> QED BY <1>1, <1>2, <1>3, <1>4, <1>5, <1>6, <1>7, <1>8, <1>9

(* cancelFluxJob takes away only the job remembered for the group. *)
LEMMA JobCancel ==
    ASSUME TypeInv, JobInv, NEW g \in Groups, NEW ns, CancelFluxJob(g, ns),
           \/ UNCHANGED <<pc, cur, job>>
           \/ pc = "resize" /\ pc' = "assign"
           \/ pc = "recancel" /\ pc' = "match" /\ cur' = cur /\ g = GroupOf(cur)
    PROVE  JobInv'
<1> USE DEF TypeInv, TypeOK
<1>1. /\ jobs' \subseteq jobs
      /\ restarted' = restarted
      /\ groupToJobId' = groupToJobId
         \/ groupToJobId' = [groupToJobId EXCEPT ![g] = NoJob]
  BY CancelType DEF CancelFluxJob, Cleanup
<1>2. \A j \in jobs : j.id \in JobIds /\ j.owner \in Groups
  BY DEF Job
<1>3. JobOwnership'
  BY <1>1, <1>2, SlotsAssumption DEF JobInv, JobOwnership
<1>4. InFlightOwner'
  BY <1>1 DEF JobInv, InFlightOwner, GroupOf
<1>5. NothingRemembered'
  <2>1. ~RpcFails => groupToJobId'[g] = NoJob
    BY DEF CancelFluxJob, Cleanup
  <2>2. pc \in {"match", "record"} => GroupOf(cur) \in Groups
    BY AskerInGroup DEF AskingPCs
  <2>3. CASE UNCHANGED <<pc, cur, job>>
    <3>1. GroupOf(cur)' = GroupOf(cur)
      BY <2>3 DEF GroupOf
    <3> QED BY <1>1, <2>2, <2>3, <3>1 DEF JobInv, NothingRemembered
  <2>4. CASE pc = "recancel" /\ pc' = "match" /\ cur' = cur /\ g = GroupOf(cur)
    <3>1. GroupOf(cur)' = g
      BY <2>4 DEF GroupOf
    <3> QED BY <2>1, <3>1 DEF NothingRemembered
  <2> QED BY <2>3, <2>4 DEF NothingRemembered
<1>6. NoOrphanJob'
  <2> SUFFICES ASSUME ~RpcFails, ~SchedulerCrashes, PositiveSizes, NEW j \in jobs'
               PROVE  \/ groupToJobId'[j.owner] = j.id
                      \/ pc' = "record" /\ job' = j.id /\ GroupOf(cur)' = j.owner
    BY DEF NoOrphanJob
  <2>1. \/ groupToJobId[j.owner] = j.id
        \/ pc = "record" /\ job = j.id /\ GroupOf(cur) = j.owner
    BY <1>1 DEF JobInv, NoOrphanJob
  <2>2. groupToJobId[j.owner] = j.id /\ j.owner = g => groupToJobId'[g] = j.id
    BY <1>2, SlotsAssumption DEF CancelFluxJob, Cancel
  <2>3. pc = "record" => UNCHANGED <<pc, cur, job>>
    OBVIOUS
  <2> QED BY <1>1, <1>2, <2>1, <2>2, <2>3 DEF GroupOf
<1> QED BY <1>1, <1>3, <1>4, <1>5, <1>6 DEF JobInv, RestartIsCrash

LEMMA JobMatch ==
    ASSUME TypeInv, JobInv, AskMatch PROVE JobInv'
<1> USE DEF TypeInv, TypeOK
<1>1. PICK id \in FreshIds(RememberedIds), use \in Allocations(MinMember[GroupOf(cur)]) :
        /\ Match(GroupOf(cur), id, use)
        /\ \/ job' = id /\ nodes' = NodeList(use) /\ pc' = "record"
           \/ RpcFails /\ pc' = "postfilter" /\ UNCHANGED <<job, nodes>>
  BY DEF AskMatch
<1>2. /\ pc = "match" /\ cur' = cur /\ restarted' = restarted
      /\ groupToJobId' = groupToJobId
      /\ GroupOf(cur)' = GroupOf(cur)
      /\ jobs' = jobs \cup {[id |-> id, owner |-> GroupOf(cur), use |-> use]}
  BY <1>1 DEF AskMatch, Match, managerVars, GroupOf
<1>3. \A j \in jobs : j.id # id
  BY DEF FreshIds, LiveIds
<1>4. ~restarted => \A g \in Groups : groupToJobId[g] # id
  BY DEF FreshIds, RememberedIds
<1>5. JobOwnership'
  BY <1>2, <1>4 DEF JobInv, JobOwnership
<1>6. InFlightOwner'
  BY <1>1, <1>2, <1>3 DEF JobInv, InFlightOwner
<1>7. NothingRemembered'
  BY <1>1, <1>2 DEF JobInv, NothingRemembered
<1>8. NoOrphanJob'
  BY <1>1, <1>2 DEF JobInv, NoOrphanJob
<1> QED BY <1>2, <1>5, <1>6, <1>7, <1>8 DEF JobInv, RestartIsCrash

LEMMA JobRecord ==
    ASSUME TypeInv, JobInv, AskRecord PROVE JobInv'
<1> USE DEF TypeInv, TypeOK
<1>1. GroupOf(cur) \in Groups /\ pc = "record" /\ pc' \notin {"match", "record"}
  BY AskerInGroup DEF AskRecord, AskingPCs
<1>2. /\ UNCHANGED <<jobs, restarted>>
      /\ groupToJobId' = [groupToJobId EXCEPT ![GroupOf(cur)] = job]
  BY DEF AskRecord, fluxionVars
<1>3. \A j \in jobs : j.id \in JobIds /\ j.owner \in Groups
  BY DEF Job
<1>4. JobOwnership'
  BY <1>1, <1>2, <1>3 DEF JobInv, JobOwnership, InFlightOwner
<1>5. InFlightOwner' /\ NothingRemembered'
  BY <1>1 DEF InFlightOwner, NothingRemembered
<1>6. NoOrphanJob'
  BY <1>1, <1>2, <1>3, SlotsAssumption DEF JobInv, NoOrphanJob, NothingRemembered
<1> QED BY <1>2, <1>4, <1>5, <1>6 DEF JobInv, RestartIsCrash

(* PreFilter indexes an empty list only for a group of size 0. *)
LEMMA PanicNeedsZero ==
    ASSUME TypeInv, NoRepresentative PROVE ~PositiveSizes
<1>1. cur \in Pods /\ GroupOf(cur) \in Groups
  BY GroupOfType DEF TypeInv, TypeOK, NoRepresentative, GroupFound
<1>2. MinMember[GroupOf(cur)] <= Cardinality({})
  BY DEF NoRepresentative
<1>3. Cardinality({}) = 0
  BY FS_EmptySet
<1> QED BY <1>1, <1>2, <1>3, MinMemberAssumption DEF PositiveSizes

LEMMA JobRestarts ==
    ASSUME TypeInv, JobInv, SchedulerRestart \/ PreFilterPanic \/ SidecarRestart
    PROVE  JobInv'
<1> USE DEF TypeInv, TypeOK
<1>1. CASE SchedulerRestart \/ PreFilterPanic
  <2>1. /\ pc' = "idle" /\ UNCHANGED <<jobs, restarted>>
        /\ SchedulerCrashes \/ ~PositiveSizes
        /\ groupToJobId' = [g \in Groups |-> NoJob]
    BY <1>1, PanicNeedsZero
    DEF SchedulerRestart, PreFilterPanic, NewScheduler, EndCycle, fluxionVars
  <2>2. \A j \in jobs : j.id \in JobIds
    BY DEF Job
  <2> QED
    BY <2>1, <2>2, SlotsAssumption
    DEF JobInv, JobOwnership, InFlightOwner, NothingRemembered, NoOrphanJob, RestartIsCrash
<1>2. CASE SidecarRestart
  <2>1. /\ jobs' = {} /\ restarted' = TRUE /\ SidecarCrashes
        /\ UNCHANGED <<pc, cur, job, groupToJobId>>
        /\ GroupOf(cur)' = GroupOf(cur)
    BY <1>2 DEF SidecarRestart, Restart, cycleVars, managerVars, GroupOf
  <2> QED
    BY <2>1 DEF JobInv, JobOwnership, InFlightOwner, NothingRemembered, NoOrphanJob, RestartIsCrash
<1> QED BY <1>1, <1>2

LEMMA JobNext == TypeInv /\ JobInv /\ [Next]_vars => JobInv'
<1> SUFFICES ASSUME TypeInv, JobInv, [Next]_vars PROVE JobInv'
  OBVIOUS
<1> USE DEF Outside, cycleVars, managerVars, fluxionVars
<1>1. CASE HandlerFree
  <2>1. CASE hkey \in Groups /\ CancelFluxJob(hkey, hkey[1])
    <3>1. UNCHANGED <<pc, cur, job>>
      BY <1>1 DEF HandlerFree
    <3> QED BY <2>1, <3>1, JobCancel
  <2>2. CASE UNCHANGED <<groupToJobId, podToNode, fluxionVars>>
    BY <1>1, <2>2, JobUntouched DEF HandlerFree, JobsUntouched
  <2> QED BY <1>1, <2>1, <2>2 DEF HandlerFree
<1>2. CASE PreFilterAsk
  <2>1. /\ UNCHANGED <<jobs, groupToJobId, restarted, cur, job>>
        /\ pc = "prefilter" /\ pc' \in {"recancel", "match"}
        /\ pc' = "match" => groupToJobId[GroupOf(cur)] = NoJob
        /\ GroupOf(cur)' = GroupOf(cur)
    BY <1>2 DEF PreFilterAsk, GroupOf
  <2> QED
    BY <2>1 DEF JobInv, JobOwnership, InFlightOwner, NothingRemembered, NoOrphanJob, RestartIsCrash
<1>3. CASE AskCancel
  <2>1. /\ GroupOf(cur) \in Groups /\ CancelFluxJob(GroupOf(cur), NsOf[cur])
        /\ pc = "recancel" /\ pc' = "match" /\ cur' = cur
    BY <1>3, AskerInGroup DEF AskCancel, AskingPCs
  <2> QED BY <2>1, JobCancel
<1>4. CASE ResizeCancel
  <2>1. /\ GroupOf(cur) \in Groups /\ CancelFluxJob(GroupOf(cur), NsOf[cur])
        /\ pc = "resize" /\ pc' = "assign"
    BY <1>4, AskerInGroup DEF ResizeCancel, AskingPCs
  <2> QED BY <2>1, JobCancel
<1>5. CASE AskMatch \/ AskRecord
  BY <1>5, JobMatch, JobRecord
<1>6. CASE SchedulerRestart \/ PreFilterPanic \/ SidecarRestart
  BY <1>6, JobRestarts
<1> QED
  BY <1>1, <1>2, <1>3, <1>4, <1>5, <1>6, UntouchedSteps, JobUntouched
  DEF Next, CycleStep, PreFilterStep, AskStep, HandlerStep

LEMMA JobInit == Init => JobInv
BY DEF Init, FluxionInit, ManagerInit, CycleInit, JobInv, JobOwnership, InFlightOwner,
       NothingRemembered, NoOrphanJob, RestartIsCrash

LEMMA JobInvariant == Spec => []JobInv
<1>1. Init => TypeInv /\ JobInv
  BY TypeInit, JobInit
<1>2. TypeInv /\ JobInv /\ [Next]_vars => TypeInv' /\ JobInv'
  BY TypeNext, JobNext
<1> QED BY <1>1, <1>2, PTL DEF Spec

(* The job id a group remembers never names another group's live job while  *)
(* the sidecar has not restarted, whatever the interleaving of pod events,  *)
(* asks, cancels, lost calls and scheduler restarts: freeing a group frees  *)
(* only its own slots (cancelFluxJob, AskFlux).                             *)
THEOREM JobsKeepOwners == Spec => []JobOwnership
BY JobInvariant, PTL DEF JobInv

(* Without lost calls and scheduler restarts, and with positive sizes, no   *)
(* allocation leaks: a live job is remembered for its group or on its way to*)
(* be (AskFlux, cancelFluxJob).                                             *)
THEOREM NoJobLeaks == Spec => []NoOrphanJob
BY JobInvariant, PTL DEF JobInv

-----------------------------------------------------------------------------
(* Fluence implements GangAllocation.                                       *)

(* PositiveSizes excludes the panic of PreFilter, which is a crash as well. *)
Reliable == ~RpcFails /\ ~SchedulerCrashes /\ ~SidecarCrashes /\ PositiveSizes

(* A successful cancel releases all the slots of the group and no others. *)
LEMMA CancelReleases ==
    ASSUME TypeInv, JobInv, Reliable, NEW g \in Groups, NEW ns, CancelFluxJob(g, ns)
    PROVE  [Allocation!Next]_groupAlloc
<1> DEFINE A == [h \in Groups |-> AllocOf(h)]
<1>1. CASE jobs' = jobs
  BY <1>1 DEF AllocOf, groupAlloc
<1>2. CASE groupToJobId[g] # NoJob /\ jobs' = {j \in jobs : j.id # groupToJobId[g]}
  <2>1. \A j \in jobs : j.id = groupToJobId[g] => j.owner = g
    BY DEF JobInv, JobOwnership, RestartIsCrash, Reliable
  <2>2. \A j \in jobs : j.owner = g => j.id = groupToJobId[g]
    <3> SUFFICES ASSUME NEW j \in jobs, j.owner = g, j.id # groupToJobId[g] PROVE FALSE
      OBVIOUS
    <3>1. pc = "record" /\ GroupOf(cur) = g
      BY DEF JobInv, NoOrphanJob, Reliable
    <3> QED BY <1>2, <3>1 DEF JobInv, NothingRemembered, Reliable
  <2>3. ASSUME NEW h \in Groups, h # g PROVE AllocOf(h)' = AllocOf(h)
    <3>1. {k \in jobs' : k.owner = h} = {k \in jobs : k.owner = h}
      BY <1>2, <2>1, <2>3
    <3> QED BY <3>1 DEF AllocOf, groupAlloc
  <2>4. AllocOf(g)' = {}
    <3>1. {k \in jobs' : k.owner = g} = {}
      BY <1>2, <2>2
    <3> QED BY <3>1 DEF AllocOf, groupAlloc
  <2>5. A' = [A EXCEPT ![g] = {}]
    BY <2>3, <2>4
  <2>6. CASE A[g] = {}
    <3>1. A' = A
      BY <2>3, <2>4, <2>6
    <3> QED BY <3>1 DEF groupAlloc
  <2>7. CASE A[g] # {}
    <3>1. Allocation!Release(g)
      BY <2>5, <2>7 DEF Allocation!Release, groupAlloc
    <3> QED BY <3>1 DEF Allocation!Next
  <2> QED BY <2>6, <2>7
<1> QED BY <1>1, <1>2 DEF CancelFluxJob, Cancel, Reliable, fluxionVars

(* A match acquires for a group that holds nothing. *)
LEMMA MatchAcquires ==
    ASSUME TypeInv, JobInv, Reliable, AskMatch
    PROVE  [Allocation!Next]_groupAlloc
<1> DEFINE A == [h \in Groups |-> AllocOf(h)]
<1>0. pc = "match" /\ GroupOf(cur) \in Groups
  BY AskerInGroup DEF AskMatch, AskingPCs
<1>a. PICK g \in Groups : g = GroupOf(cur)
  BY <1>0
<1>1. PICK id \in FreshIds(RememberedIds), use \in Allocations(MinMember[g]) :
        jobs' = jobs \cup {[id |-> id, owner |-> g, use |-> use]}
  BY <1>a DEF AskMatch, Match
<1>2. groupToJobId[g] = NoJob
  BY <1>0, <1>a DEF JobInv, NothingRemembered, Reliable
<1>3. \A j \in jobs : j.owner # g
  <2> SUFFICES ASSUME NEW j \in jobs, j.owner = g PROVE FALSE
    OBVIOUS
  <2>1. groupToJobId[g] = j.id
    BY <1>0, <1>2 DEF JobInv, NoOrphanJob, Reliable
  <2>2. j.id \in JobIds
    BY DEF TypeInv, TypeOK, Job
  <2> QED BY <1>2, <2>1, <2>2, SlotsAssumption
<1>4. A[g] = {}
  <2>1. {k \in jobs : k.owner = g} = {}
    BY <1>3
  <2> QED BY <2>1 DEF AllocOf, groupAlloc
<1>5. AllocOf(g)' = use
  <2>1. {k \in jobs' : k.owner = g} = {[id |-> id, owner |-> g, use |-> use]}
    BY <1>1, <1>3
  <2>2. {k.use : k \in {m \in jobs' : m.owner = g}} = {use}
    <3> DEFINE J == {m \in jobs' : m.owner = g}
               r == [id |-> id, owner |-> g, use |-> use]
    <3>1. J = {r} /\ r.use = use
      BY <2>1
    <3> HIDE DEF J, r
    <3>2. {k.use : k \in J} = {use}
      BY <3>1
    <3> QED BY <3>2 DEF J
  <2> QED BY <2>2 DEF AllocOf, groupAlloc
<1>6. ASSUME NEW h \in Groups, h # g PROVE AllocOf(h)' = AllocOf(h)
  <2>1. {k \in jobs' : k.owner = h} = {k \in jobs : k.owner = h}
    BY <1>1, <1>6
  <2> QED BY <2>1 DEF AllocOf, groupAlloc
<1>7. A' = [A EXCEPT ![g] = use]
  BY <1>5, <1>6
<1>8. use \in WholeGangs[g] /\ use \cap UNION {A[h] : h \in Groups} = {}
  <2>1. use \subseteq graph \ UNION {j.use : j \in jobs} /\ Cardinality(use) = MinMember[g]
    BY DEF Allocations, FreeSlots
  <2>2. UNION {A[h] : h \in Groups} \subseteq UNION {j.use : j \in jobs}
    BY DEF AllocOf, groupAlloc
  <2> QED BY <2>1, <2>2 DEF TypeInv, TypeOK, WholeGangs
<1>9. Allocation!Acquire(g)
  <2> HIDE DEF A
  <2>1. /\ A[g] = {}
        /\ \E u \in WholeGangs[g] :
             /\ u \cap UNION {A[h] : h \in Groups} = {}
             /\ A' = [A EXCEPT ![g] = u]
    BY <1>4, <1>7, <1>8
  <2> QED BY <2>1 DEF Allocation!Acquire, Allocation!Held, A, groupAlloc
<1> QED BY <1>9 DEF Allocation!Next

LEMMA StepsAllocate ==
    ASSUME TypeInv, JobInv, Reliable, [Next]_vars
    PROVE  [Allocation!Next]_groupAlloc
<1>1. CASE jobs' = jobs
  BY <1>1 DEF AllocOf, groupAlloc
<1>2. CASE HandlerFree
  BY <1>1, <1>2, CancelReleases DEF HandlerFree, fluxionVars
<1>3. CASE AskCancel \/ ResizeCancel
  <2>1. GroupOf(cur) \in Groups /\ CancelFluxJob(GroupOf(cur), NsOf[cur])
    BY <1>3, AskerInGroup DEF AskCancel, ResizeCancel, AskingPCs
  <2> QED BY <2>1, CancelReleases
<1>4. CASE AskMatch
  BY <1>4, MatchAcquires
<1>5. CASE PreFilterAsk \/ AskRecord
  BY <1>1, <1>5 DEF PreFilterAsk, AskRecord, fluxionVars
<1>6. CASE SchedulerRestart \/ PreFilterPanic \/ SidecarRestart
  BY <1>6, PanicNeedsZero DEF Reliable, SchedulerRestart, PreFilterPanic, SidecarRestart
<1> QED
  BY <1>1, <1>2, <1>3, <1>4, <1>5, <1>6, UntouchedSteps
  DEF Next, CycleStep, PreFilterStep, AskStep, HandlerStep, JobsUntouched

(* With a reliable sidecar and positive sizes both together implement       *)
(* GangAllocation: every step of the scheduling goroutine, the binding      *)
(* goroutines and the event handler is a stutter, one group acquiring its   *)
(* whole gang, or one group releasing it.                                   *)
THEOREM ImplementsGangAllocation == Reliable => (Spec => AllocatesGangs)
<1> SUFFICES ASSUME Reliable PROVE Spec => AllocatesGangs
  OBVIOUS
<1>1. Init => Allocation!Init
  BY DEF Init, FluxionInit, Allocation!Init, AllocOf, groupAlloc
<1>2. TypeInv /\ JobInv /\ [Next]_vars => [Allocation!Next]_groupAlloc
  BY StepsAllocate
<1>3. Spec => []TypeInv
  BY TypeInit, TypeNext, PTL DEF Spec
<1> QED BY <1>1, <1>2, <1>3, JobInvariant, PTL DEF Spec, AllocatesGangs, Allocation!Spec
=============================================================================
