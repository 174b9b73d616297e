# A TLA+ model of Fluence (flux-k8s)

Fluence is a Kubernetes scheduler plugin that places *groups* of pods (gangs)
with the Fluxion resource-graph matcher. The repository holds the plugin, the
controller of the `PodGroup` resource, a mutating webhook that labels pods, and
a sidecar that serves the matcher over gRPC. The modules here describe the
stateful parts, TLC checks them on small instances, and TLAPS proves the main
safety results for every instance.

Paths below are relative to the repository (`src/`); `fluence/` stands for
`sig-scheduler-plugins/pkg/fluence/`.

## 1. The system

| part | source | state | operations |
|---|---|---|---|
| scheduler plugin | `fluence/fluence.go` | none of its own | PreFilter, Filter, PostFilter, Permit, Unreserve, Less |
| PodGroupManager | `fluence/core/core.go`, `core/flux.go` | `groupToJobId`, `podToNode`, `permittedpodGroup` (5 min cache), a mutex | PreFilter, AskFlux, Permit, cancelFluxJob, cleanup, UpdatePod, DeletePod |
| sidecar | `src/fluence/fluxion`, `utils`, `jobspec`, `jgf` | resource graph, allocated jobs, id counter | InitFluxion, Match, Cancel |
| PodGroup controller | `sig-scheduler-plugins/pkg/controllers/podgroup_controller.go` | the PodGroup objects in the API server | ensurePodGroup, Reconcile (setTimeCreated, updatePodGroupSize, updateStatus) |
| webhook | `apis/scheduling/v1alpha1/podgroup_webhook.go` | none | adds the group and size labels to pods and templates |

How they interact. The webhook labels a pod with a group name and a size. The
controller sees the pending pod and creates a PodGroup with
`minMember = size`. The scheduler pops one pod at a time; the first pod of a
group that has no node makes PreFilter ask the sidecar for `minMember` slots,
in one call for the whole group; the nodes of the answer go into `podToNode`,
and the siblings take the fast path. A pod that passes Filter is assumed on its
node and goes to Permit, which makes it wait until `minMember` siblings are
assigned. When a pod ends or is deleted, the informer's handler cancels the
group's job. When `minMember` pods have ended the controller deletes the
PodGroup.

What is hard:

* three kinds of goroutines interleave in the scheduler: the scheduling cycle, a
  binding goroutine for each pod past Permit, the informer's handler. They share
  the manager's maps and the framework's waiting pods. The mutex is not held
  over Match, and Permit counts from a snapshot that is as old as the cycle;
* the manager's maps are lost in a scheduler crash, the jobs in a sidecar crash,
  and neither side learns of the other's;
* calls to the sidecar can fail before or after they take effect, and the error
  of a cancel is ignored;
* the PodGroup is deleted by another process, at any point of a cycle;
* the controller reads caches and ignores refused status updates.

What makes each part correct: a pod list is never indexed beyond its end; a job
belongs to one group, and every live job can still be freed; a group is
allocated all or nothing; nobody waits for a complete gang; slots come back;
competing groups are all served; a PodGroup is deleted when, and only when, its
gang is over; its status follows the pods and its size is set once; the labels a
user writes reach the pods; a pending pod gets a PodGroup, and a PodGroup a size;
the graph in cores and blocks promises no more than the nodes have, whatever is
rounded on the way. `PROJECT.json` lists the hazards, each at its line, with the
properties aimed at it.

## 2. Modules

`Fluxion` - the sidecar. `graph`, `jobs` (id, owner, slots), `restarted`. A
*slot* is what one pod asks for. The matcher itself (fluxion-go) is external: an
allocation takes free slots only, all or nothing, with a fresh id. This is the
sidecar as the scheduler sees it; `ResourceGraph` has the units. `NodeList` is
ParseAllocResult: one entry per *node*, so two slots on one node give a list of
length one. `Restart` is InitFluxion after a crash, with a graph that lacks the
slots used by the pods bound at that moment.

`ResourceGraph` - the sidecar in units of resources: millicores and bytes on the
side of Kubernetes, whole cores and GiB blocks in the graph, cores and megabytes
in the job specification. SkipNode, ReadNode and LoadGraph are the loop of
CreateInClusterJGF, one node at a time, with pods bound and ended in between
(OtherBind, GangBind, End); BuildFails and Restart are InitFluxion; Match goes
through PodSpec (PreparePodJobSpec), SlotSpec and Allocations
(CreateJobSpecYaml), the matcher, and ParseAllocResult. The pod a job is made for
(`pods[0]`) may be any of its group, also one that runs or has ended, as long as
some pod of the group is to be scheduled; a group may hold several jobs, told
apart by their ids, because a cancel may be lost (`core/flux.go:42`); which pod
gets which node of which job is left open (GangBind). Two assumptions about the
matcher: a slot is on one node, and what is under a vertex is printed before it
(as in the sample output in the repository's README). `Fluxion!Restart` does in
one step what this module does node by node. Sums over pods, containers and jobs
are `SumOver` of the small module `Sums`, which the proofs reason about.

`GangAllocation` - the abstract specification: each group holds nothing or the
slots of its gang, acquired and released in single steps.

`Fluence` - plugin, manager and handlers, on top of `Fluxion`.

| actions | code |
|---|---|
| PreFilterAssigned, PreFilterSkip, PreFilterTooFew, PreFilterAsk | `Fluence.PreFilter`, `PodGroupManager.PreFilter` up to AskFlux |
| AskCancel, AskMatch, AskNoMatch, AskRecord | `AskFlux`, split where the mutex is released and at the calls |
| ResizeCancel, Assign | the rest of `PodGroupManager.PreFilter` |
| FilterPass, FilterFail, FilterRefused | `Filter`, with the framework's own filters |
| PostFilterKeep, PostFilterReject | `PostFilter` |
| PermitAllow, PermitWait, PermitDeny | `Permit` of both files |
| Unreserve, WaitTimeout, BindPod, BindMissing, Forget | `Unreserve` and the framework's binding cycle |
| HandlerLookup, HandlerFree | `UpdatePod`, `DeletePod`: the lookup of the PodGroup, then the section under the mutex |
| Create, Start, Finish, Delete, Informer* | the API server and the shared informer (external) |
| GroupCreate, GroupFinish | the PodGroup controller as the scheduler sees it |
| PermittedExpire | expiry of `permittedpodGroup` |
| PreFilterPanic | `pods[0]` of an empty list (`core/core.go:301`): the process ends and starts again |
| SchedulerRestart, SidecarRestart | crashes |

The pod group backoff is zero, so BackoffPodGroup never does anything and has no
state. The order of the scheduling queue is abstracted: ScheduleOne may pop any
pod, which includes every order that Less could give; Less itself is the operator
of `QueueOrder`. That it is a strict total order, with start times of groups or
without, is a theorem (section 5); MCFluence has TLC evaluate the same over
bounded inputs. `podToNode` is keyed by the bare pod name, as in the code. A group
may have minMember 0: neither the schema nor the code asks for more, and the
controller sets the size only after the group's first reconcile. For such a group
PreFilter goes on with an empty list of pods, and PreFilterPanic is reachable: the
last pod of the group is deleted after it was popped. It is enabled by what the
code does, not by the switch for crashes.

`GroupLifecycle` - the abstract specification of PodGroup objects: a group may
appear for any pod of its name, and goes only when enough pods with its label
have ended or vanished. It is the interface between controller and scheduler:
`Fluence`'s GroupCreate and GroupFinish are its two actions, and
`PodGroupController` states that the controller implements it (FollowsLifecycle).

`PodGroupController` - ensurePodGroup and Reconcile, with the API server's
objects and versions, the two caches, the handler's events, the work queue and
the reconcile in progress for each key (read, status update, patch or delete are
separate steps). Versions are drawn from 1..4: they are compared for equality
only, and three copies of a PodGroup exist at most, so a fresh one is always
free.

`Webhook` - the mutating webhook as operators from an object to the object that
is stored, for Jobs, Pods, StatefulSets, ReplicaSets and Deployments, and
PodLabels, which follows an object through the ones that Kubernetes makes from
it. Names are sequences of words, so that the default names collide as they do in
the code. MCPodGroup has TLC evaluate PodLabels against a reference over all
small objects (WebhookKeepsLabels) and shows two collisions
(DefaultNamesCollide). The labels of
MCPodGroup's pods are those the webhook gives to the objects they come from
(AdmissionAssumption).

Theorems: `FluenceProofs` (types, jobs, refinement of GangAllocation),
`FluencePermitProofs` (PreFilter's index, Permit, Less) and `FluenceFreeProofs`
(freeing of slots) about the plugin; `PodGroupProofs` (types, phases) and
`PodGroupLifeProofs` (sizes, deletion, refinement of GroupLifecycle) about the
controller; `SumProofs` (lemmas about sums), `GraphProofs` (capacity) and
`AllocProofs` (reading the allocation back, where gangs fit) about the resource
graph. `MCFluence`, `MCPodGroup`, `MCGraph` - instances.

## 3. Runs

| run | instance | result |
|---|---|---|
| late | 3 pods of a gang of 2 that fail, one of them deleted at any time, a PodGroup that comes and goes, unfiltered informer | PodsIndexedInBounds, NoStrandedWaiter, NoOrphanJob and the refinement of GangAllocation hold |
| crashes | gang of 2 whose PodGroup comes and goes, a group without minMember whose pod is deleted at any time, lost calls, panics, scheduler and sidecar crashes | TypeOK, NoStrandedWaiter hold |
| orderly | gang of 2 and a single pod, no failures, fairness | FreedWhenDone, NoOrphanJob, JobOwnership, EveryGroupServed and the refinement of GangAllocation hold |
| podgroup | 3 pods of a Job of parallelism 2, failing calls, controller crashes | TypeOK, DeletedOnlyWhenBegun, PhaseOrder, SizeSetOnce and the refinement of GroupLifecycle hold |
| podgroup_live | a Job of parallelism 2 with a size label of 1, PodGroups created by users without a size, deletions, fairness | FinishedGroupDeleted, PendingPodGetsGroup, StatusCatchesUp, UnsizedGroupGetsSize hold |
| graph | 3 nodes, one of them skipped; a gang of 2, a pod with a GPU and the zone label, one with an init container, one of another scheduler; two live jobs, of one group or of two | TypeOK, NodeNotOversold, SentWhereItFits, TasksMatchSlots hold |
| reask, gang_start, cleanup, freed_late, podgroup_pruned, podgroup_namespaces | small instances | violated, see section 6 |

Why the bounds are enough to be interesting. Two slots on two nodes and three
pods make groups compete, let a member come late, and let one gang be matched
again after its job was cancelled. A late member makes the sizes of the node list
and of the pod list differ, which leads into ResizeCancel. Job ids: an id in use
is a live job's or a remembered one, plus one in flight; two groups need four, one
group two (Match waits while none is free, which only a restart of the sidecar
brings about). In *graph* two ids let a group hold a second job beside one whose
cancel was lost, and let any two groups share a node; Match waits for an id while
both are live. UserDeletes and GroupsFinish name the pods and groups they apply
to, which keeps the instances small: in *crashes* only the pod without a gang is
deleted and only the gang's PodGroup goes; in *late* one of the three
interchangeable members is deleted, in whatever role it is then. The theorems are
for all such sets.
Job ids, nodes with their slots, and pods of one object or of one
namespace, label, size and name are interchangeable (symmetry), but not in the
runs with liveness. The events queue needs no bound: a pod gives at most two
events. In *graph* the amounts are such that rounding any of them the other way
shows: the two containers of a gang's pod ask for 900 and 1000 millicores, and no
node has a whole number of cores or blocks. Deadlock is not checked: when every
pod has ended the system rests.

The informer of a scheduler omits pods in a terminal phase (`FilteredInformer`),
so pods that end arrive as deletes; *late* uses the other kind, through which
UpdatePod is reached.

## 4. Fairness

`Fluence!Fairness`: weak fairness for each goroutine (cycle, handler, informer,
each binding goroutine; a panic ends a cycle, too), for the wait's timeout, for pods being created, run and
ended, and for the controller creating a group; strong fairness for scheduling a
pod, because the framework returns unschedulable pods to its queue on every pod
or PodGroup event (EventsToRegister) and in any case after five minutes. No
fairness is assumed of deletions, crashes, expiry or of other plugins.
EveryGroupServed assumes in addition that *disturbance* stops: other plugins
stop refusing nodes, admissions stop expiring, and a pod no longer times out at
Permit while a sibling is still to be scheduled (the wait is minutes, a cycle
milliseconds).

`PodGroupController!Fairness`: the caches catch up, handler and workers go on,
and a pending pod is seen again (a status condition changes, or the resync).
Without the last one a pod whose group is deleted just after it was looked up
would never get another.

That a pod gets to run is not claimed for the webhook, controller and scheduler
together. Once a pod of a group of size one has succeeded, every PodGroup created
for the next pod with that label counts as finished and is deleted again, and a
scheduling cycle, which reads the group in PreFilter and again in Permit, has to
fall into the time between. How long a pod is in backoff is up to the queue, and
nothing in the code makes the two meet. Nor does the code claim anything about
the pods left over at the end of a Job whose completions are no multiple of its
parallelism: fewer pods than minMember are alive, and they stay pending.

## 5. Proofs

Every invariant, action property and refinement of the passing runs is also a
theorem, for all constants that satisfy the ASSUMEs (finite sets of pods and
slots, functions of the right type, `minMember` any natural number, a group's
name is no label value, positive units). Crashes, lost calls, stale caches and
deletions are included unless the property or a hypothesis named below excludes
them.

### The scheduler plugin

* `TypeCorrect`: `Spec => []TypeOK`.
* `JobsKeepOwners`: `Spec => []JobOwnership` and `NoJobLeaks`:
  `Spec => []NoOrphanJob` (which speaks of instances without lost calls, scheduler
  crashes and groups of size 0: a panic loses the map as a crash does). They are inductive only together, with two facts
  about the ask in progress (`JobInv`): the job that Match has just returned is
  the asking group's (*InFlightOwner*), and from the moment AskFlux has dealt
  with a previous job the group remembers none until AskRecord, because only the
  cycle adds entries and the handler only removes them (*NothingRemembered*).
* `ImplementsGangAllocation`: without lost calls, crashes and groups of size 0
  (*Reliable*), every step is a
  step of GangAllocation or leaves the allocation unchanged. The mapping gives a
  group the union of the slots of its jobs; by the previous invariant that is
  one job.
* `EndedPodsFreed`: `Undisturbed => (Spec => []FreedWhenDone)`. *Undisturbed*
  says what freeing relies on: no call is lost, the scheduler does not restart,
  no group has size 0, no pod is deleted before it ends, PodGroups stay. The sidecar may restart. A
  lost cancel or a lost map leaves a job that nobody remembers, a pod deleted
  while its cycle is under way may have had its last event before the job exists,
  and the run freed_late shows why PodGroups must stay. The strengthening `FreeInv` says that each live
  job is *due*: the handler is at its group, or an event waits that leads there,
  or a pod of the group is active and will give one. For this the pod that asks
  must be active still, and it is because only bound pods run.
* `NoWaiterStranded`: `Spec => []NoStrandedWaiter`. The strengthening `WaitInv`
  says that every assigned pod but the current one is in the snapshot
  (*SnapCovers*: other goroutines only remove pods during a cycle) and that only
  pods with a group wait. An old snapshot can therefore count too many pods,
  never too few: a waiter is released too early at worst (section 6), never too
  late.
* `IndexInBounds`: `PositiveSizes => (Spec => []PodsIndexedInBounds)`, for
  `pods[i]` and for `pods[0]`. The pod list is taken with at least minMember
  members, and the node list of an allocation of minMember slots has at most that
  many entries. `pods[i]` is in bounds for every size; `pods[0]` is only when
  minMember is at least 1, because the pod of the cycle may itself have left the
  lister. The hypothesis is needed: PreFilterPanic is a step of the run crashes.
* `LessIsTotalOrder`: Less is irreflexive, total and transitive for all
  priorities, times and keys, with start times of groups or without.

### The PodGroup controller

* `ControllerTypes`: `Spec => []TypeOK`; in particular a version is always free.
* `PhasesInOrder`: `Spec => PhaseOrder`. Invariant *Versioned*: a copy with the
  stored version is the stored object, and a status about to be written is one
  step of a group's life away from what it was read as. So an update that is
  taken was made from what is stored, and a stale one is refused.
* `SizeIsSetOnce`: `UniformSizes => (Spec => SizeSetOnce)`. The patch of the size
  carries no version, so versions do not help here; the argument is that all
  writers write the same (*SizesFromLabels*: every size in any copy is zero or on
  a label of the group's pods). *UniformSizes*: pods with one group label have one
  size label, a number, which the webhook sees to for the pods of one object.
* `UnsharedGroupsDeletedWhenBegun` and `DeletedWhenBegun`: a group whose label no
  pod of another namespace has (*Unshared*) is deleted only after minMember of its
  own pods have started. Invariants: *SeenHolds* (pods move forward only, so what
  the pod cache has seen stays true) and *DeleteIsDue* (what Reconcile counted
  when it decided to delete still holds when the delete is made). The run
  podgroup_namespaces shows that Unshared is needed.
* `ImplementsGroupLifecycle`: `UniformSizes /\ GroupsHavePods => (Spec =>
  FollowsLifecycle)`, from the same invariants. *GroupsHavePods*: a group that
  exists is the group of some pod; GroupLifecycle takes minMember from the labels.

### The resource graph

* `NeverOversold`: `Spec => []NodeNotOversold`, without hypotheses. The inductive
  invariant `Books` has the tree of vertices (*GraphShape*), the pods on a node
  within the node (*PodsFit*), what the graph has of a node together with the
  counted pods within the node (*GraphFits*), and what jobs take within the graph
  (*JobsFit*). The property follows by comparing, unit by unit, what a pod
  requests with what its slot asks for: a slot never asks for less than its
  containers request, up to a fraction of a megabyte.
* `ListsAreAllocations`: `Spec => []TasksMatchSlots`, without hypotheses: the loop
  of ParseAllocResult, over the whole of what the matcher prints, gives each node
  with slots once with the cores of its slots, and the division in Match is exact
  (PreparePodJobSpec never gives zero cores).
* `GraphTypes`: `Spec => []TypeOK`, with the shape of the graph after every turn of
  the loop of CreateInClusterJGF.
* `GangsAreSentWhereTheyFit`: `LikeGangs => (Spec => []SentWhereItFits)`, from
  Books and *Gangs* (the pods bound for a job are its group's, each on a node of
  its own). A pod on a node is charged to one of the jobs it is bound for, and no
  two pods there to the same job, so it does not matter how many jobs a group has. *LikeGangs*, the pods of a group request the
  same, is the code's own condition: AskFlux specifies one pod for all of them
  (`core/flux.go:47`). Without it a larger sibling can take the room.

The provers have no induction over data with a parameter. Sums and folds over
finite sets and sequences are nevertheless treated for all sizes: a first-order
lemma (`SubsetInduction`, by a minimal counterexample in the well-founded order of
subsets) replaces the induction rule, and the runs of a fold are given as
functions whose existence is shown first.

### Only model-checked

* Liveness: EveryGroupServed, FinishedGroupDeleted, PendingPodGetsGroup,
  StatusCatchesUp, UnsizedGroupGetsSize. They need fairness and ENABLED, which the prover
  does not support.
* The ASSUMEs of MCPodGroup about the webhook, evaluated over all small objects.

## 6. Where the code and its comments disagree

* *reask*: `core/flux.go:32-40` takes a group that asks again for completed. A
  late member asks after the admission expired, and the running gang's job is
  cancelled.
* *gang_start*: `types.go:137-139` promises all members or none. Permit counts a
  sibling that has timed out since the snapshot, and a pod starts alone.
* *cleanup*: `core/flux.go:141` says pod names are removed from the node lookup.
  A pod event frees the group's job just before PreFilter writes the lookup, and a
  sibling takes the fast path to a node with nothing allocated. Entries written
  earlier stay as well: the selector uses "namespace/label" and never matches.
* *freed_late*: `core/flux.go:184` says the resources are freed. If the PodGroup
  is already deleted the handler looks up a fake group's name and frees nothing.
* *podgroup_pruned*: `podgroup_controller.go:239` deletes finished groups. The
  shipped schema has no `status.creationTime`, so each reconcile ends in
  setTimeCreated. (This also hides *freed_late*.)
* *podgroup_namespaces*: `types.go:102` speaks of the group's own pods.
  The webhook gives pods of the same name in two namespaces the same label, and
  Reconcile counts pods with the same label in all namespaces.

What the graph is known to leave out is written into NodeNotOversold and
SentWhereItFits as an allowance, so that they say nothing else is: GPUs in use
(`utils.go:203`), requests of init containers (`podspec.go:70`), fractions of a
megabyte (`jobspec.go:85`), pods bound after their node was read, and pods that
outlive their job. `utils.go:114` says that a subnet seen twice is not created
again; the lookup is never written, and the model makes one subnet for each node.

## 7. Not modelled

* RegisterExisting (lists pods only), the external gRPC service (empty answers and
  the text of the graph file), generated code, logging, flags, manifests,
  examples: no state of interest.
* The text of documents: names, paths and ranks of vertices, YAML, JSON.
* Torn reads of `podToNode` (read under another mutex than it is written): the
  only writer concurrent with the reader never finds a key to delete.
* The 48 hour timeout of the controller: its field, scheduleStartTime, is never
  stored, because the API server drops a status that is given on creation.
* Groups of unlike pods: the job specification is made from one of them
  (`core/flux.go:47`).
* Changing an object after its creation: the webhook is called on CREATE only.

## 8. Plan

Done: all modules of section 2, the runs of section 3, and theorems for every
safety property and both refinements. Next:

1. The webhook: a theorem that both labels are on every pod PodLabels gives, for
   all objects.
2. Weaker hypotheses where the code allows it: EndedPodsFreed with pods deleted
   outside their own cycle, SizeIsSetOnce for the groups whose labels agree.
