------------------------------ MODULE Fluence ------------------------------
(***************************************************************************)
(* The Fluence scheduler plugin: the scheduling cycle of fluence.go, the    *)
(* PodGroupManager of core/core.go and core/flux.go, the pod events that    *)
(* the manager handles concurrently, and the sidecar (Fluxion) they call.   *)
(*                                                                          *)
(* Three kinds of goroutines interleave:                                    *)
(*   - the scheduling goroutine, one pod at a time (variable pc);           *)
(*   - a binding goroutine per pod that passed Permit or waits there (bind);*)
(*   - the informer's handler goroutine (events, hkey).                     *)
(* The manager's mutex is held over each step that touches its maps, so a   *)
(* step of this model is a section between two acquisitions of the mutex or *)
(* two remote calls.                                                        *)
(*                                                                          *)
(* External, modelled from how the plugin uses it: the Kubernetes API       *)
(* server, the scheduler framework (queue, snapshot, assume, waiting pods,  *)
(* binding) and the shared pod informer.                                    *)
(*                                                                          *)
(* The pod group backoff is zero (fluence.go:72), so BackoffPodGroup returns*)
(* at once and no group is ever backed off: there is no state for it.       *)
(***************************************************************************)
EXTENDS Fluxion, Sequences

CONSTANTS
    Pods,               \* pod incarnations (a recreated pod is another one)
    Namespaces, Labels, \* the values of a pod's namespace and group label
    Names,              \* bare pod names, unique in a namespace at any time
    NsOf, LabelOf, NameOf,
    NoLabel, NoNode, NoPod,
    Solo,               \* stands for the name of any fake group
    NoKey,              \* the event handler is idle
    MinMember,          \* spec.minMember of each PodGroup
    Outcomes,           \* phases in which a running pod may end
    FilteredInformer,   \* the informer omits pods in a terminal phase
    UserDeletes,        \* pods that their owner may delete at any time
    GroupsFinish,       \* PodGroups that the controller deletes when completed
    RpcFails,           \* calls to the sidecar may fail
    SchedulerCrashes, SidecarCrashes

(* GetPodGroup names a group "namespace/label". *)
Groups == Namespaces \X Labels

ASSUME PodsAssumption ==
    /\ IsFiniteSet(Pods)
    /\ NsOf \in [Pods -> Namespaces]
    /\ LabelOf \in [Pods -> Labels \cup {NoLabel}]
    /\ NameOf \in [Pods -> Names]
    /\ NoLabel \notin Labels
    /\ NoNode \notin Nodes
    /\ NoPod \notin Pods
    /\ Groups \cap {Solo, NoKey} = {}
    /\ Solo # NoKey
    /\ Outcomes \subseteq {"Succeeded", "Failed"}

(* The schema gives minMember no minimum and does not require it: a PodGroup*)
(* its owner creates may have 0, until the controller sets the size; the    *)
(* size labels the webhook sets are positive.                               *)
ASSUME MinMemberAssumption == MinMember \in [Groups -> Nat]

PositiveSizes == \A g \in Groups : MinMember[g] # 0

(* A label value cannot contain a slash, so it is never a group's name. *)
ASSUME LabelAssumption == Groups \cap (Labels \cup {NoLabel}) = {}

ASSUME SwitchAssumption ==
    /\ FilteredInformer \in BOOLEAN
    /\ UserDeletes \subseteq Pods
    /\ GroupsFinish \subseteq Groups
    /\ RpcFails \in BOOLEAN
    /\ SchedulerCrashes \in BOOLEAN
    /\ SidecarCrashes \in BOOLEAN

VARIABLES
    \* the API server
    api,            \* phase of each pod, "none" before it exists
    groups,         \* PodGroups that exist
    \* the pod informer: its store, the queued events, the handler's lookup
    known, events, hkey,
    \* PodGroupManager
    groupToJobId, podToNode, permitted,
    \* the scheduling cycle
    pc, cur, snap, sibs, job, nodes, written, chosen,
    \* assumed or bound pods, and their binding goroutines
    place, bind

apiVars == <<api, groups>>
informerVars == <<known, events, hkey>>
managerVars == <<groupToJobId, podToNode, permitted>>
cycleVars == <<cur, snap, sibs, job, nodes, written, chosen>>
frameworkVars == <<place, bind>>
vars == <<apiVars, informerVars, managerVars, pc, cycleVars, frameworkVars,
          fluxionVars>>

Terminal == {"Succeeded", "Failed"}
Alive == {"Pending", "Running"}
Phases == {"none", "gone"} \cup Alive \cup Terminal

PCs == {"idle", "prefilter", "recancel", "match", "record", "resize",
        "assign", "filter", "permit", "undo", "postfilter"}

(* What the informer's store holds of a pod.  Pending and Running pods are  *)
(* told apart by neither event handler.                                     *)
Stored == {"absent", "active", "done"}


GroupOf(p) == <<NsOf[p], LabelOf[p]>>
HasGroup(p) == LabelOf[p] # NoLabel

(* GetPodGroup returned a PodGroup. *)
GroupFound(p) == HasGroup(p) /\ GroupOf(p) \in groups

(* The pods with a namespace and a label, as the lister returns them. *)
Listed(ns, label) ==
    {p \in Pods : known[p] # "absent" /\ NsOf[p] = ns /\ LabelOf[p] = label}

Members(p) == {q \in Pods : NsOf[q] = NsOf[p] /\ LabelOf[q] = LabelOf[p]}

(* Mutant: assumed pods are not counted. *)
CountBoundOnly(p) == Cardinality({q \in snap \cap Members(p) : bind[q] = "bound"})

(* CalculateAssignedPods, from the snapshot taken when the cycle began. *)
CalculateAssignedPods(p) == Cardinality(snap \cap Members(p))

Assigned == {p \in Pods : place[p] # NoNode}

TypeOK ==
    /\ api \in [Pods -> Phases]
    /\ groups \subseteq Groups
    /\ known \in [Pods -> Stored]
    /\ events \in Seq([pod : Pods, kind : {"update", "delete"},
                       phase : {"active", "done"}])
    /\ hkey \in Groups \cup {Solo, NoKey}
    /\ groupToJobId \in [Groups -> JobIds \cup {NoJob}]
    /\ podToNode \in [Names -> Nodes \cup {NoNode}]
    /\ permitted \subseteq Groups
    /\ pc \in PCs
    /\ cur \in Pods \cup {NoPod}
    /\ (pc # "idle" => cur \in Pods)
    /\ snap \subseteq Pods
    /\ sibs \subseteq Pods
    /\ job \in JobIds \cup {NoJob}
    /\ nodes \subseteq Nodes
    /\ written \in Nodes \cup {NoNode}
    /\ chosen \in Nodes \cup {NoNode}
    /\ place \in [Pods -> Nodes \cup {NoNode}]
    /\ bind \in [Pods -> {"idle", "waiting", "rejected", "forgetting",
                          "allowed", "bound"}]
    /\ graph \subseteq Slots
    /\ jobs \subseteq Job(Groups)
    /\ restarted \in BOOLEAN

(* NewPodGroupManager: empty maps and caches. *)
ManagerInit ==
    /\ groupToJobId = [g \in Groups |-> NoJob]
    /\ podToNode = [m \in Names |-> NoNode]
    /\ permitted = {}

CycleInit ==
    /\ pc = "idle" /\ cur = NoPod /\ snap = {} /\ sibs = {} /\ job = NoJob
    /\ nodes = {} /\ written = NoNode /\ chosen = NoNode

Init ==
    /\ api = [p \in Pods |-> "none"]
    /\ groups = {}
    /\ known = [p \in Pods |-> "absent"]
    /\ events = <<>>
    /\ hkey = NoKey
    /\ ManagerInit
    /\ CycleInit
    /\ place = [p \in Pods |-> NoNode]
    /\ bind = [p \in Pods |-> "idle"]
    /\ FluxionInit

-----------------------------------------------------------------------------
(* Pods and PodGroups in the API server.                                    *)

(* A pod's name is taken in its namespace until the pod's object is gone. *)
Create(p) ==
    /\ api[p] = "none"
    /\ \A q \in Pods \ {p} :
         NsOf[q] = NsOf[p] /\ NameOf[q] = NameOf[p] => api[q] \in {"none", "gone"}
    /\ api' = [api EXCEPT ![p] = "Pending"]
    /\ UNCHANGED <<groups, informerVars, managerVars, pc, cycleVars,
                   frameworkVars, fluxionVars>>

(* The kubelet starts a bound pod. *)
Start(p) ==
    /\ api[p] = "Pending" /\ bind[p] = "bound"
    /\ api' = [api EXCEPT ![p] = "Running"]
    /\ UNCHANGED <<groups, informerVars, managerVars, pc, cycleVars,
                   frameworkVars, fluxionVars>>

Finish(p) ==
    /\ api[p] = "Running"
    /\ \E outcome \in Outcomes : api' = [api EXCEPT ![p] = outcome]
    /\ UNCHANGED <<groups, informerVars, managerVars, pc, cycleVars,
                   frameworkVars, fluxionVars>>

Delete(p) ==
    /\ p \in UserDeletes
    /\ api[p] \in Alive \cup Terminal
    /\ api' = [api EXCEPT ![p] = "gone"]
    /\ UNCHANGED <<groups, informerVars, managerVars, pc, cycleVars,
                   frameworkVars, fluxionVars>>

(* The PodGroup controller, as the scheduler sees it; PodGroupController    *)
(* implements this life of the groups.                                      *)
Life == INSTANCE GroupLifecycle

GroupCreate(g) ==
    /\ Life!Create(g)
    /\ UNCHANGED <<api, informerVars, managerVars, pc, cycleVars,
                   frameworkVars, fluxionVars>>

GroupFinish(g) ==
    /\ g \in GroupsFinish
    /\ Life!Finish(g)
    /\ UNCHANGED <<api, informerVars, managerVars, pc, cycleVars,
                   frameworkVars, fluxionVars>>

-----------------------------------------------------------------------------
(* The shared informer.  Its store is updated first; the handlers get the   *)
(* event later, from a queue.  The framework's own handlers (scheduling     *)
(* queue, cache, waiting pods) are taken with the store.                    *)

Event(p, kind, phase) == [pod |-> p, kind |-> kind, phase |-> phase]

InformerAdd(p) ==
    /\ known[p] = "absent" /\ api[p] \in Alive
    /\ \A q \in Pods \ {p} :
         NsOf[q] = NsOf[p] /\ NameOf[q] = NameOf[p] => known[q] = "absent"
    /\ known' = [known EXCEPT ![p] = "active"]
    /\ UNCHANGED <<apiVars, events, hkey, managerVars, pc, cycleVars,
                   frameworkVars, fluxionVars>>

(* An update to a terminal phase.  Updates to Pending or Running change     *)
(* nothing in UpdatePod and are left out.                                   *)
InformerUpdate(p) ==
    /\ ~FilteredInformer
    /\ known[p] = "active" /\ api[p] \in Terminal
    /\ known' = [known EXCEPT ![p] = "done"]
    /\ events' = Append(events, Event(p, "update", "done"))
    /\ UNCHANGED <<apiVars, hkey, managerVars, pc, cycleVars, frameworkVars,
                   fluxionVars>>

(* The pod leaves the store: deleted, or, for a filtered informer, in a     *)
(* terminal phase.  The event carries the object last stored.  The framework*)
(* rejects the pod if it waits and drops it from its cache if it was bound. *)
InformerDelete(p) ==
    /\ known[p] # "absent"
    /\ api[p] = "gone" \/ (FilteredInformer /\ api[p] \in Terminal)
    /\ known' = [known EXCEPT ![p] = "absent"]
    /\ events' = Append(events, Event(p, "delete", known[p]))
    /\ bind' = [bind EXCEPT ![p] = CASE @ = "waiting" -> "rejected"
                                     [] @ = "bound" -> "idle"
                                     [] OTHER -> @]
    /\ place' = [place EXCEPT ![p] = IF bind[p] = "bound" THEN NoNode ELSE @]
    /\ UNCHANGED <<apiVars, hkey, managerVars, pc, cycleVars, fluxionVars>>

-----------------------------------------------------------------------------
(* cancelFluxJob and cleanup, with the manager's mutex held.                *)

(* cleanup lists pods whose label is the group's name; groupName is         *)
(* "namespace/label" there.                                                 *)
Cleanup(g, ns) ==
    /\ groupToJobId' = [groupToJobId EXCEPT ![g] = NoJob]
    /\ podToNode' = [m \in Names |->
          IF \E q \in Listed(ns, g) : NameOf[q] = m THEN NoNode
                                                     ELSE podToNode[m]]

(* Mutant: the job is forgotten although the call was not made. *)
ForgetWithoutCancel(g, ns) ==
    /\ UNCHANGED fluxionVars
    /\ Cleanup(g, ns)

CancelFluxJob(g, ns) ==
    \/ /\ groupToJobId[g] = NoJob
       /\ UNCHANGED <<groupToJobId, podToNode, fluxionVars>>
    \/ /\ groupToJobId[g] # NoJob
       /\ Cancel(groupToJobId[g])
       /\ Cleanup(g, ns)
    \/ /\ RpcFails /\ groupToJobId[g] # NoJob      \* request or reply lost
       /\ UNCHANGED fluxionVars \/ Cancel(groupToJobId[g])
       /\ UNCHANGED <<groupToJobId, podToNode>>

(* Mutant: only UpdatePod frees. *)
FreeOnUpdateOnly(e) == e.kind = "update" /\ e.phase = "done"

(* UpdatePod frees for a pod that ended, DeletePod for one that had not. *)
Frees(e) == \/ e.kind = "update" /\ e.phase = "done"
            \/ e.kind = "delete" /\ e.phase = "active"

(* Mutant: the group's name lacks the namespace. *)
LookupBareLabel ==
    /\ events # <<>> /\ hkey = NoKey
    /\ hkey' = IF Frees(Head(events)) THEN LabelOf[Head(events).pod] ELSE NoKey
    /\ events' = Tail(events)
    /\ UNCHANGED <<apiVars, known, managerVars, pc, cycleVars, frameworkVars,
                   fluxionVars>>

(* Mutant: every pod gets the name of a fake group. *)
LookupFakeName ==
    /\ events # <<>> /\ hkey = NoKey
    /\ hkey' = IF Frees(Head(events)) THEN Solo ELSE NoKey
    /\ events' = Tail(events)
    /\ UNCHANGED <<apiVars, known, managerVars, pc, cycleVars, frameworkVars,
                   fluxionVars>>

(* UpdatePod and DeletePod, up to the mutex: look the group up in the API.  *)
(* A pod whose PodGroup is gone gets the name of a fake group.              *)
HandlerLookup ==
    /\ events # <<>> /\ hkey = NoKey
    /\ LET e == Head(events)
       IN  hkey' = IF ~Frees(e) THEN NoKey
                   ELSE IF GroupFound(e.pod) THEN GroupOf(e.pod) ELSE Solo
    /\ events' = Tail(events)
    /\ UNCHANGED <<apiVars, known, managerVars, pc, cycleVars, frameworkVars,
                   fluxionVars>>

(* The rest of the handler: cancel the group's job if there is one. *)
HandlerFree ==
    /\ hkey # NoKey
    /\ \/ hkey \in Groups /\ CancelFluxJob(hkey, hkey[1])
       \/ hkey = Solo /\ UNCHANGED <<groupToJobId, podToNode, fluxionVars>>
    /\ hkey' = NoKey
    /\ UNCHANGED <<apiVars, known, events, permitted, pc, cycleVars,
                   frameworkVars>>

-----------------------------------------------------------------------------
(* The scheduling goroutine.                                                *)

Outside == <<apiVars, informerVars>>

(* The end of a cycle: its CycleState and local variables are dropped. *)
EndCycle ==
    /\ pc' = "idle" /\ cur' = NoPod /\ snap' = {} /\ sibs' = {} /\ job' = NoJob
    /\ nodes' = {} /\ written' = NoNode /\ chosen' = NoNode

(* The framework pops a pod and takes a snapshot of the assigned pods. *)
ScheduleOne(p) ==
    /\ pc = "idle"
    /\ known[p] = "active" /\ bind[p] = "idle" /\ place[p] = NoNode
    /\ pc' = "prefilter" /\ cur' = p /\ snap' = Assigned
    /\ UNCHANGED <<Outside, managerVars, sibs, job, nodes, written, chosen,
                   frameworkVars, fluxionVars>>

(* fluence.PreFilter, fast path: the pod has a node already. *)
PreFilterAssigned ==
    /\ pc = "prefilter" /\ podToNode[NameOf[cur]] # NoNode
    /\ chosen' = podToNode[NameOf[cur]]
    /\ pc' = "filter"
    /\ UNCHANGED <<Outside, managerVars, cur, snap, sibs, job, nodes, written,
                   frameworkVars, fluxionVars>>

(* PodGroupManager.PreFilter returns nil without asking: no PodGroup, or a  *)
(* group admitted already.  The pod still has no node.                      *)
PreFilterSkip ==
    /\ pc = "prefilter" /\ podToNode[NameOf[cur]] = NoNode
    /\ \/ ~GroupFound(cur)
       \/ /\ GroupFound(cur) /\ GroupOf(cur) \in permitted
          /\ Cardinality(Listed(NsOf[cur], LabelOf[cur])) >= MinMember[GroupOf(cur)]
    /\ pc' = "filter"
    /\ UNCHANGED <<Outside, managerVars, cycleVars, frameworkVars, fluxionVars>>

(* Fewer pods than minMember are known. *)
PreFilterTooFew ==
    /\ pc = "prefilter" /\ podToNode[NameOf[cur]] = NoNode
    /\ GroupFound(cur)
    /\ Cardinality(Listed(NsOf[cur], LabelOf[cur])) < MinMember[GroupOf(cur)]
    /\ pc' = "postfilter"
    /\ UNCHANGED <<Outside, managerVars, cycleVars, frameworkVars, fluxionVars>>

(* Mutant: the number of pods is not compared with minMember. *)
AskUncounted ==
    /\ pc = "prefilter" /\ podToNode[NameOf[cur]] = NoNode
    /\ GroupFound(cur) /\ GroupOf(cur) \notin permitted
    /\ Listed(NsOf[cur], LabelOf[cur]) # {}
    /\ sibs' = Listed(NsOf[cur], LabelOf[cur])
    /\ pc' = IF groupToJobId[GroupOf(cur)] # NoJob THEN "recancel" ELSE "match"
    /\ UNCHANGED <<Outside, managerVars, cur, snap, job, nodes, written, chosen,
                   frameworkVars, fluxionVars>>

(* The group is to be matched: list its pods, take the first for the others *)
(* (pods[0]) and look for a previous job.                                   *)
PreFilterAsk ==
    /\ pc = "prefilter" /\ podToNode[NameOf[cur]] = NoNode
    /\ GroupFound(cur) /\ GroupOf(cur) \notin permitted
    /\ Cardinality(Listed(NsOf[cur], LabelOf[cur])) >= MinMember[GroupOf(cur)]
    /\ Listed(NsOf[cur], LabelOf[cur]) # {}
    /\ sibs' = Listed(NsOf[cur], LabelOf[cur])
    /\ pc' = IF groupToJobId[GroupOf(cur)] # NoJob THEN "recancel" ELSE "match"
    /\ UNCHANGED <<Outside, managerVars, cur, snap, job, nodes, written, chosen,
                   frameworkVars, fluxionVars>>

(* AskFlux: cancel the previous job; an error is ignored. *)
AskCancel ==
    /\ pc = "recancel"
    /\ CancelFluxJob(GroupOf(cur), NsOf[cur])
    /\ pc' = "match"
    /\ UNCHANGED <<Outside, permitted, cycleVars, frameworkVars>>

RememberedIds == {groupToJobId[g] : g \in Groups}

(* Mutant: the job is for one pod, and the count is forgotten. *)
MatchForOnePod ==
    /\ pc = "match"
    /\ \E id \in FreshIds(RememberedIds), use \in Allocations(1) :
         /\ Match(GroupOf(cur), id, use)
         /\ \/ job' = id /\ nodes' = NodeList(use) /\ pc' = "record"
            \/ RpcFails /\ pc' = "postfilter" /\ UNCHANGED <<job, nodes>>
    /\ UNCHANGED <<Outside, managerVars, cur, snap, sibs, written, chosen,
                   frameworkVars>>

(* AskFlux: the Match call, made without the mutex. *)
AskMatch ==
    /\ pc = "match"
    /\ \E id \in FreshIds(RememberedIds), use \in Allocations(MinMember[GroupOf(cur)]) :
         /\ Match(GroupOf(cur), id, use)
         /\ \/ job' = id /\ nodes' = NodeList(use) /\ pc' = "record"
            \/ RpcFails /\ pc' = "postfilter" /\ UNCHANGED <<job, nodes>>
    /\ UNCHANGED <<Outside, managerVars, cur, snap, sibs, written, chosen,
                   frameworkVars>>

(* AskFlux returns an error: no allocation was possible or the call failed. *)
(* A job specification of no slots may be refused or matched.               *)
AskNoMatch ==
    /\ pc = "match"
    /\ Allocations(MinMember[GroupOf(cur)]) = {} \/ MinMember[GroupOf(cur)] = 0 \/ RpcFails
    /\ pc' = "postfilter"
    /\ UNCHANGED <<Outside, managerVars, cycleVars, frameworkVars, fluxionVars>>

(* Mutant: the key is the namespace only. *)
RecordByNamespace ==
    /\ pc = "record"
    /\ groupToJobId' = [g \in Groups |-> IF g[1] = NsOf[cur] THEN job ELSE groupToJobId[g]]
    /\ job' = NoJob
    /\ pc' = IF Cardinality(nodes) = Cardinality(sibs) THEN "assign" ELSE "resize"
    /\ UNCHANGED <<Outside, podToNode, permitted, cur, snap, sibs, nodes, written,
                   chosen, frameworkVars, fluxionVars>>

(* AskFlux: remember the job id. *)
AskRecord ==
    /\ pc = "record"
    /\ groupToJobId' = [groupToJobId EXCEPT ![GroupOf(cur)] = job]
    /\ job' = NoJob
    /\ pc' = IF Cardinality(nodes) = Cardinality(sibs) THEN "assign" ELSE "resize"
    /\ UNCHANGED <<Outside, podToNode, permitted, cur, snap, sibs, nodes, written,
                   chosen, frameworkVars, fluxionVars>>

(* PreFilter: the wrong number of nodes cancels the job, and goes on. *)
ResizeCancel ==
    /\ pc = "resize"
    /\ CancelFluxJob(GroupOf(cur), NsOf[cur])
    /\ pc' = "assign"
    /\ UNCHANGED <<Outside, permitted, cycleVars, frameworkVars>>

(* The ways to give the nodes, one each, to pods of the list. *)
Assignments ==
    {f \in [sibs -> nodes \cup {NoNode}] :
        \A n \in nodes : Cardinality({q \in sibs : f[q] = n}) = 1}

(* PreFilter: hand the nodes out, admit the group, return the pod's node. *)
Assign ==
    /\ pc = "assign"
    /\ \E f \in Assignments :
         /\ podToNode' = [m \in Names |->
              IF \E q \in sibs : NameOf[q] = m /\ f[q] # NoNode
                THEN f[CHOOSE q \in sibs : NameOf[q] = m /\ f[q] # NoNode]
                ELSE podToNode[m]]
         /\ written' = IF cur \in sibs THEN f[cur] ELSE NoNode
         /\ chosen' = podToNode'[NameOf[cur]]
    /\ permitted' = permitted \cup {GroupOf(cur)}
    /\ pc' = "filter"
    /\ UNCHANGED <<Outside, groupToJobId, cur, snap, sibs, job, nodes,
                   frameworkVars, fluxionVars>>

(* The framework's own filter: the node has room for one more pod. *)
HasRoom(n) ==
    Cardinality({p \in Pods : place[p] = n}) < Cardinality({s \in Slots : HostOf[s] = n})

(* Filter accepts the chosen node, and so do the other plugins; the         *)
(* framework assumes the pod there (Reserve does nothing).                  *)
FilterPass ==
    /\ pc = "filter"
    /\ chosen # NoNode /\ written \in {NoNode, chosen} /\ HasRoom(chosen)
    /\ place' = [place EXCEPT ![cur] = chosen]
    /\ pc' = "permit"
    /\ UNCHANGED <<Outside, managerVars, cycleVars, bind, fluxionVars>>

(* No node is left: none was chosen, or Filter or the framework refuses it. *)
FilterFail ==
    /\ pc = "filter"
    /\ chosen = NoNode \/ written \notin {NoNode, chosen} \/ ~HasRoom(chosen)
    /\ pc' = "postfilter"
    /\ UNCHANGED <<Outside, managerVars, cycleVars, frameworkVars, fluxionVars>>

(* Another plugin (taints, affinity, volumes) refuses the chosen node. *)
FilterRefused ==
    /\ pc = "filter" /\ chosen # NoNode
    /\ pc' = "postfilter"
    /\ UNCHANGED <<Outside, managerVars, cycleVars, frameworkVars, fluxionVars>>

(* Only the first signal a waiting pod gets counts. *)
RejectWaiting(p) ==
    [q \in Pods |-> IF q \in Members(p) /\ bind[q] = "waiting" THEN "rejected"
                                                               ELSE bind[q]]

(* PostFilter returns early: no PodGroup, or enough pods assigned. *)
PostFilterKeep ==
    /\ pc = "postfilter"
    /\ \/ ~GroupFound(cur)
       \/ GroupFound(cur) /\ CalculateAssignedPods(cur) >= MinMember[GroupOf(cur)]
    /\ EndCycle
    /\ UNCHANGED <<Outside, managerVars, frameworkVars, fluxionVars>>

(* PostFilter rejects the waiting pods of the group and its admission. *)
PostFilterReject ==
    /\ pc = "postfilter"
    /\ GroupFound(cur) /\ CalculateAssignedPods(cur) < MinMember[GroupOf(cur)]
    /\ bind' = RejectWaiting(cur)
    /\ permitted' = permitted \ {GroupOf(cur)}
    /\ EndCycle
    /\ UNCHANGED <<Outside, groupToJobId, podToNode, place, fluxionVars>>

(* Permit: no group, or the snapshot's pods and this one reach minMember;   *)
(* the waiting pods of the group are allowed too.                           *)
PermitAllow ==
    /\ pc = "permit"
    /\ \/ ~HasGroup(cur)
       \/ GroupFound(cur) /\ CalculateAssignedPods(cur) + 1 >= MinMember[GroupOf(cur)]
    /\ bind' = [q \in Pods |->
          IF q = cur \/ (HasGroup(cur) /\ q \in Members(cur) /\ bind[q] = "waiting")
          THEN "allowed" ELSE bind[q]]
    /\ EndCycle
    /\ UNCHANGED <<Outside, managerVars, place, fluxionVars>>

PermitWait ==
    /\ pc = "permit"
    /\ GroupFound(cur) /\ CalculateAssignedPods(cur) + 1 < MinMember[GroupOf(cur)]
    /\ bind' = [bind EXCEPT ![cur] = "waiting"]
    /\ EndCycle
    /\ UNCHANGED <<Outside, managerVars, place, fluxionVars>>

(* Permit: the PodGroup is not found.  The scheduling goroutine itself then *)
(* unreserves and forgets the pod.                                          *)
PermitDeny ==
    /\ pc = "permit"
    /\ HasGroup(cur) /\ ~GroupFound(cur)
    /\ bind' = [bind EXCEPT ![cur] = "rejected"]
    /\ pc' = "undo"
    /\ UNCHANGED <<Outside, managerVars, cycleVars, place, fluxionVars>>

-----------------------------------------------------------------------------
(* The binding goroutines.                                                  *)

WaitTimeout(p) ==
    /\ bind[p] = "waiting"
    /\ bind' = [bind EXCEPT ![p] = "rejected"]
    /\ UNCHANGED <<Outside, managerVars, pc, cycleVars, place, fluxionVars>>

BindPod(p) ==
    /\ bind[p] = "allowed" /\ api[p] = "Pending"
    /\ bind' = [bind EXCEPT ![p] = "bound"]
    /\ UNCHANGED <<Outside, managerVars, pc, cycleVars, place, fluxionVars>>

(* The pod to bind is gone. *)
BindMissing(p) ==
    /\ bind[p] = "allowed" /\ api[p] # "Pending"
    /\ bind' = [bind EXCEPT ![p] = "rejected"]
    /\ UNCHANGED <<Outside, managerVars, pc, cycleVars, place, fluxionVars>>

(* Unreserve rejects the waiting pods of the group and its admission. *)
Unreserve(p) ==
    /\ bind[p] = "rejected"
    /\ \/ /\ GroupFound(p)
          /\ bind' = [RejectWaiting(p) EXCEPT ![p] = "forgetting"]
          /\ permitted' = permitted \ {GroupOf(p)}
       \/ /\ ~GroupFound(p)
          /\ bind' = [bind EXCEPT ![p] = "forgetting"]
          /\ UNCHANGED permitted
    /\ UNCHANGED <<Outside, groupToJobId, podToNode, pc, cycleVars, place, fluxionVars>>

(* The framework forgets the assumed pod and queues it again. *)
Forget(p) ==
    /\ bind[p] = "forgetting"
    /\ bind' = [bind EXCEPT ![p] = "idle"]
    /\ place' = [place EXCEPT ![p] = NoNode]
    /\ IF pc = "undo" /\ cur = p THEN EndCycle ELSE UNCHANGED <<pc, cycleVars>>
    /\ UNCHANGED <<Outside, managerVars, fluxionVars>>

(* An admission is cached for scheduleTimeout only. *)
PermittedExpire(g) ==
    /\ g \in permitted
    /\ permitted' = permitted \ {g}
    /\ UNCHANGED <<Outside, groupToJobId, podToNode, pc, cycleVars, frameworkVars,
                   fluxionVars>>

-----------------------------------------------------------------------------
(* Crashes.                                                                 *)

(* A new scheduler process: the maps are empty (New, NewPodGroupManager),   *)
(* the store and the cache are filled from the API server.                  *)
NewScheduler ==
    /\ known' = [p \in Pods |->
          CASE api[p] \in Alive -> "active"
            [] api[p] \in Terminal /\ ~FilteredInformer -> "done"
            [] OTHER -> "absent"]
    /\ events' = <<>> /\ hkey' = NoKey
    /\ groupToJobId' = [g \in Groups |-> NoJob]
    /\ podToNode' = [m \in Names |-> NoNode]
    /\ permitted' = {}
    /\ EndCycle
    /\ LET kept(p) == bind[p] = "bound" /\ known'[p] # "absent"
       IN  /\ place' = [p \in Pods |-> IF kept(p) THEN place[p] ELSE NoNode]
           /\ bind' = [p \in Pods |-> IF kept(p) THEN "bound" ELSE "idle"]
    /\ UNCHANGED <<apiVars, fluxionVars>>

SchedulerRestart == SchedulerCrashes /\ NewScheduler

(* pods[0] of an empty list: minMember is 0 and the pod of the cycle, the   *)
(* last of its group, has left the lister since it was popped.              *)
NoRepresentative ==
    /\ pc = "prefilter" /\ podToNode[NameOf[cur]] = NoNode
    /\ GroupFound(cur) /\ GroupOf(cur) \notin permitted
    /\ Cardinality(Listed(NsOf[cur], LabelOf[cur])) >= MinMember[GroupOf(cur)]
    /\ Listed(NsOf[cur], LabelOf[cur]) = {}

(* The panic of the scheduling goroutine ends the process. *)
PreFilterPanic == NoRepresentative /\ NewScheduler

(* The sidecar counts the pods bound to each node that have not ended. *)
SidecarRestart ==
    /\ SidecarCrashes
    /\ Restart([n \in Nodes |->
          Cardinality({p \in Pods : bind[p] = "bound" /\ place[p] = n
                                    /\ api[p] \in Alive})])
    /\ UNCHANGED <<Outside, managerVars, pc, cycleVars, frameworkVars>>

-----------------------------------------------------------------------------
PreFilterStep == PreFilterAssigned \/ PreFilterSkip \/ PreFilterTooFew \/ PreFilterAsk
AskStep == AskCancel \/ AskMatch \/ AskNoMatch \/ AskRecord \/ ResizeCancel \/ Assign
FilterStep == FilterPass \/ FilterFail
PostFilterStep == PostFilterKeep \/ PostFilterReject
PermitStep == PermitAllow \/ PermitWait \/ PermitDeny

CycleStep == PreFilterStep \/ AskStep \/ FilterStep \/ PostFilterStep \/ PermitStep

BindStep(p) == BindPod(p) \/ BindMissing(p) \/ Unreserve(p) \/ Forget(p)
InformerStep(p) == InformerAdd(p) \/ InformerUpdate(p) \/ InformerDelete(p)
HandlerStep == HandlerLookup \/ HandlerFree

Next ==
    \/ \E p \in Pods : Create(p) \/ Start(p) \/ Finish(p) \/ Delete(p)
    \/ \E g \in Groups : GroupCreate(g) \/ GroupFinish(g) \/ PermittedExpire(g)
    \/ \E p \in Pods : InformerStep(p) \/ BindStep(p) \/ WaitTimeout(p)
    \/ HandlerStep
    \/ \E p \in Pods : ScheduleOne(p)
    \/ CycleStep \/ FilterRefused
    \/ SchedulerRestart \/ PreFilterPanic \/ SidecarRestart

Spec == Init /\ [][Next]_vars

-----------------------------------------------------------------------------
(* A pod never waits at Permit for a gang that is complete: once minMember  *)
(* pods of the group are assumed or bound, Permit has allowed every waiting *)
(* one (fluence.go Permit), although it counts from a snapshot that is as   *)
(* old as the cycle.  The pod inside Permit, or being undone, is not yet    *)
(* counted.                                                                 *)
NoStrandedWaiter ==
    \A p \in Pods : bind[p] = "waiting" =>
        Cardinality({q \in Assigned \cap Members(p) :
                        ~(pc \in {"permit", "undo"} /\ q = cur)})
          < MinMember[GroupOf(p)]

(* PreFilter indexes the list of pods with the positions of the node list   *)
(* (pods[i], core.go:322): there are never more nodes than pods, although   *)
(* the count asked for is minMember and the pods may have changed during    *)
(* the call.                                                                *)
NodesWithinPods ==
    pc \in {"record", "resize", "assign"} => Cardinality(nodes) <= Cardinality(sibs)

(* Both indexes into the list of pods are in bounds: pods[i] above, and     *)
(* pods[0] (core.go:301), taken although the pod of the cycle and all its   *)
(* siblings may have left the lister since the pod was popped.              *)
PodsIndexedInBounds == NodesWithinPods /\ ~NoRepresentative

(* The job remembered for a group is never another group's job, so freeing  *)
(* one group (cancelFluxJob) cannot take the slots of another, as long as   *)
(* the sidecar has not restarted and reissued ids.                          *)
JobOwnership ==
    ~restarted => \A g \in Groups : \A j \in jobs :
        groupToJobId[g] = j.id => j.owner = g

(* Without lost calls and scheduler restarts every live job can be freed:   *)
(* it is the one remembered for its group, or Match has just returned it.   *)
(* A group of size 0 can bring the scheduler down (PreFilterPanic).         *)
NoOrphanJob ==
    ~RpcFails /\ ~SchedulerCrashes /\ PositiveSizes =>
        \A j \in jobs : \/ groupToJobId[j.owner] = j.id
                        \/ pc = "record" /\ job = j.id /\ GroupOf(cur) = j.owner

(* Without lost calls and crashes the manager and the sidecar together      *)
(* allocate whole gangs: a group never holds two jobs, whatever the order of*)
(* events, asks, cancels and records.                                       *)
AllocOf(g) == UNION {j.use : j \in {k \in jobs : k.owner = g}}
groupAlloc == [g \in Groups |-> AllocOf(g)]

WholeGangs == [g \in Groups |-> {use \in SUBSET Slots : Cardinality(use) = MinMember[g]}]

Allocation == INSTANCE GangAllocation
    WITH Gangs <- WholeGangs, alloc <- groupAlloc

AllocatesGangs == Allocation!Spec

(* When every pod has ended, or was never created, and every event has been *)
(* handled, no slot is still allocated (flux.go:184, "Fluence needs to free *)
(* the resources").                                                         *)
FreedWhenDone ==
    (/\ \A p \in Pods : api[p] \in Terminal \cup {"none", "gone"}
     /\ \A p \in Pods : known[p] # "active"
     /\ events = <<>> /\ hkey = NoKey /\ pc = "idle") => jobs = {}

-----------------------------------------------------------------------------
(* Fairness.  Every goroutine that can take a step eventually does; a pod   *)
(* that can be scheduled again and again is: unschedulable pods go back to  *)
(* the queue on every pod or PodGroup event, and after five minutes anyway. *)
(* Pods are created, run and end.                                           *)
Fairness ==
    /\ \A p \in Pods : /\ WF_vars(Create(p)) /\ WF_vars(Start(p))
                       /\ WF_vars(Finish(p)) /\ WF_vars(InformerStep(p))
                       /\ WF_vars(BindStep(p)) /\ WF_vars(WaitTimeout(p))
                       /\ SF_vars(ScheduleOne(p))
    /\ \A g \in Groups :
         WF_vars(GroupCreate(g) /\ \E p \in Pods : GroupOf(p) = g /\ api[p] # "none")
    /\ WF_vars(HandlerStep)
    /\ WF_vars(CycleStep \/ PreFilterPanic)

FairSpec == Spec /\ Fairness

(* Transient trouble: other plugins refuse nodes, admissions expire, and a  *)
(* pod times out at Permit although a sibling is still to be scheduled (the *)
(* wait is minutes, a cycle milliseconds).                                  *)
Disturbance ==
    \/ FilterRefused
    \/ \E g \in Groups : PermittedExpire(g)
    \/ \E p \in Pods : /\ WaitTimeout(p)
                       /\ \E q \in Members(p) : known[q] = "active" /\ bind[q] = "idle"

(* Once such trouble stops no group starves: groups that compete for the    *)
(* same slots are all served, whatever the trouble left in the manager's    *)
(* maps, in the admissions and in the sidecar's jobs.                       *)
EveryGroupServed ==
    <>[][~Disturbance]_vars =>
        \A p \in Pods : <>(\E q \in Members(p) : api[q] \in Terminal)

-----------------------------------------------------------------------------
(* What comments of the code say, and TLC refutes. *)

(* flux.go:32-38: a group that asks again while it has a job has completed; *)
(* "assume the previous pods are no longer running".                        *)
ReaskMeansCompleted ==
    pc = "recancel" => \A p \in Members(cur) : ~(bind[p] = "bound" /\ api[p] = "Running")

(* types.go:137-139: the scheduler starts minMember members or none.  Permit*)
(* lets a pod go only when minMember pods of its group hold a node.         *)
GangStartsTogether ==
    [][\A p \in Pods : bind'[p] = "allowed" /\ bind[p] # "allowed" =>
         Cardinality(Assigned \cap Members(p)) >= MinMember[GroupOf(p)]]_vars

(* flux.go:141-146: when a group's job is cancelled, cleanup removes "pods  *)
(* names from the node lookup" ("Clean up previous pod->node assignments"), *)
(* so the fast path of PreFilter sends a pod only to a node where its group *)
(* has an allocation.                                                       *)
FastPathAllocated ==
    [][PreFilterAssigned =>
         \E j \in jobs : j.owner = GroupOf(cur) /\ chosen' \in NodeList(j.use)]_vars
=============================================================================
