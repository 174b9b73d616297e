------------------------- MODULE PodGroupController -------------------------
(***************************************************************************)
(* The PodGroup controller (pkg/controllers/podgroup_controller.go): its    *)
(* pod handler creates PodGroups, its reconciler fills in their size and    *)
(* status and deletes them when their pods have finished or failed.         *)
(*                                                                          *)
(* Both read PodGroups and pods from caches that follow the API server with *)
(* a delay, and write to the API server.  A status update carries the       *)
(* version that was read and is refused when it is no longer current; the   *)
(* code ignores that error.  The patch that follows carries the difference  *)
(* to the object read: the spec, and the version only when the status update*)
(* got a new one.  A delete carries the name alone.                         *)
(*                                                                          *)
(* External: the API server, the caches and the work queue, which holds a   *)
(* key once and gives it to one worker at a time.  status.scheduleStartTime *)
(* is set on creation only, where the API server drops the status, so the   *)
(* 48 hour timeout never applies and has no state here.                     *)
(***************************************************************************)
EXTENDS Integers, FiniteSets

CONSTANTS
    Pods,
    Namespaces, Labels,
    NsOf, LabelOf,          \* of each pod; pods without a label are ignored
    SizeOf,                 \* the number in its group-size label, or BadSize
    BadSize,                \* no label, or not a number
    NoGroup,
    CreationTimeStored,     \* the PodGroup schema has status.creationTime
    UserDeletes,            \* pods may be deleted at any time
    ApiFails,               \* calls to the API server may fail
    ControllerCrashes

(* Versions are compared for equality only, and three copies of a PodGroup  *)
(* exist at most: stored, cached, and in the reconciler's hands.            *)
Versions == 1..4

Groups == Namespaces \X Labels

ASSUME ControllerAssumption ==
    /\ IsFiniteSet(Pods)
    /\ NsOf \in [Pods -> Namespaces]
    /\ LabelOf \in [Pods -> Labels]
    /\ SizeOf \in [Pods -> Nat \cup {BadSize}]
    /\ BadSize \notin Nat
    /\ CreationTimeStored \in BOOLEAN
    /\ UserDeletes \in BOOLEAN
    /\ ApiFails \in BOOLEAN
    /\ ControllerCrashes \in BOOLEAN

GroupPhases == {"", "Pending", "Scheduling", "Running"}
PodGroup == [version : Versions, size : Nat, timed : BOOLEAN,
             phase : GroupPhases, counts : Nat \X Nat \X Nat]

ASSUME NoGroupAssumption == NoGroup \notin PodGroup

VARIABLES
    pod,        \* phase of each pod in the API server
    group,      \* the PodGroups stored there
    podCache,   \* phases in the controller's cache
    cache,      \* PodGroups in the controller's cache
    events,     \* pod events for ensurePodGroup, as <<pod, what it sees>>
    queue,      \* keys to reconcile
    work        \* the reconcile in progress for each key

apiVars == <<pod, group>>
vars == <<pod, group, podCache, cache, events, queue, work>>

Listed == {"Pending", "Running", "Succeeded", "Failed"}
PodPhases == {"none", "gone"} \cup Listed

(* A reconcile holds its copy "pg" of the PodGroup and the size it read.    *)
(* "bumped" says that the status update gave the object a new version.      *)
Idle == [step |-> "idle"]
Work == [step : {"status", "patch", "delete"}, pg : PodGroup, read : Nat,
         bumped : BOOLEAN]

GroupOf(p) == <<NsOf[p], LabelOf[p]>>

TypeOK ==
    /\ pod \in [Pods -> PodPhases]
    /\ group \in [Groups -> PodGroup \cup {NoGroup}]
    /\ podCache \in [Pods -> PodPhases]
    /\ cache \in [Groups -> PodGroup \cup {NoGroup}]
    /\ events \subseteq Pods \X {"pending", "deleted"}
    /\ queue \subseteq Groups
    /\ work \in [Groups -> Work \cup {Idle}]

Init ==
    /\ pod = [p \in Pods |-> "none"]
    /\ group = [g \in Groups |-> NoGroup]
    /\ podCache = pod
    /\ cache = group
    /\ events = {}
    /\ queue = {}
    /\ work = [g \in Groups |-> Idle]

-----------------------------------------------------------------------------
(* The API server: pods, users and versions.                                *)

SetPod(p, phase) ==
    /\ pod' = [pod EXCEPT ![p] = phase]
    /\ UNCHANGED <<group, podCache, cache, events, queue, work>>

Create(p) == pod[p] = "none" /\ SetPod(p, "Pending")
Run(p) == pod[p] = "Pending" /\ SetPod(p, "Running")
Finish(p) == pod[p] = "Running" /\ \E phase \in {"Succeeded", "Failed"} : SetPod(p, phase)
Delete(p) == UserDeletes /\ pod[p] \in Listed /\ SetPod(p, "gone")

InUse(g) ==
    {c.version : c \in {group[g], cache[g]} \ {NoGroup}}
      \cup (IF work[g] = Idle THEN {} ELSE {work[g].pg.version})

NewVersion(g) == CHOOSE v \in Versions : v \notin InUse(g)

NewGroup(g, size) ==
    [version |-> NewVersion(g), size |-> size, timed |-> FALSE, phase |-> "",
     counts |-> <<0, 0, 0>>]

(* A user creates a PodGroup without minMember before its pods. *)
UserCreate(g) ==
    /\ group[g] = NoGroup
    /\ \A p \in Pods : GroupOf(p) = g => pod[p] = "none"
    /\ group' = [group EXCEPT ![g] = NewGroup(g, 0)]
    /\ UNCHANGED <<pod, podCache, cache, events, queue, work>>

(* Store "pg", with a new version if anything changed. *)
Store(g, pg) ==
    group' = IF pg = group[g] THEN group
             ELSE [group EXCEPT ![g] = [pg EXCEPT !.version = NewVersion(g)]]

-----------------------------------------------------------------------------
(* The caches.  An update event shows the handler the old and the new pod.  *)

CachePod(p) ==
    /\ podCache[p] # pod[p]
    /\ podCache' = [podCache EXCEPT ![p] = pod[p]]
    /\ events' = events
         \cup (IF "Pending" \in {podCache[p], pod[p]} THEN {<<p, "pending">>} ELSE {})
         \cup (IF pod[p] = "gone" THEN {<<p, "deleted">>} ELSE {})
    /\ UNCHANGED <<pod, group, cache, queue, work>>

(* A pending pod is seen again: its conditions change, or a resync. *)
SeeAgain(p) ==
    /\ podCache[p] = "Pending" /\ <<p, "pending">> \notin events
    /\ events' = events \cup {<<p, "pending">>}
    /\ UNCHANGED <<pod, group, podCache, cache, queue, work>>

CacheGroup(g) ==
    /\ cache[g] # group[g]
    /\ cache' = [cache EXCEPT ![g] = group[g]]
    /\ queue' = queue \cup {g}
    /\ UNCHANGED <<pod, group, podCache, events, work>>

-----------------------------------------------------------------------------
(* ensurePodGroup, in the goroutine of the pod informer.                    *)

(* A pending pod's group is created when the cache does not have it and the *)
(* size label is a number; the call may find that it exists after all.      *)
EnsureCreate(p) ==
    /\ <<p, "pending">> \in events
    /\ cache[GroupOf(p)] = NoGroup /\ SizeOf[p] # BadSize
    /\ \/ /\ group[GroupOf(p)] = NoGroup
          /\ group' = [group EXCEPT ![GroupOf(p)] = NewGroup(GroupOf(p), SizeOf[p])]
          /\ queue' = queue \cup {GroupOf(p)}
       \/ /\ group[GroupOf(p)] # NoGroup \/ ApiFails
          /\ UNCHANGED <<group, queue>>
    /\ events' = events \ {<<p, "pending">>}
    /\ UNCHANGED <<pod, podCache, cache, work>>

(* Mutant: any answer to the lookup counts as found. *)
EnsureNothingEver(p) ==
    /\ <<p, "pending">> \in events
    /\ events' = events \ {<<p, "pending">>}
    /\ UNCHANGED <<pod, group, podCache, cache, queue, work>>

(* The cache has the group, or the label is not a number. *)
EnsureNothing(p) ==
    /\ <<p, "pending">> \in events
    /\ cache[GroupOf(p)] # NoGroup \/ SizeOf[p] = BadSize
    /\ events' = events \ {<<p, "pending">>}
    /\ UNCHANGED <<pod, group, podCache, cache, queue, work>>

(* A deleted pod: the group is deleted only when it was not found, which    *)
(* deletes nothing.                                                         *)
EnsureDeleted(p) ==
    /\ <<p, "deleted">> \in events
    /\ events' = events \ {<<p, "deleted">>}
    /\ UNCHANGED <<pod, group, podCache, cache, queue, work>>

-----------------------------------------------------------------------------
(* Reconcile.                                                               *)

(* The pods with the group's label, whatever their namespace. *)
PodList(g) == {p \in Pods : LabelOf[p] = g[2] /\ podCache[p] \in Listed}

In(pods, phase) == Cardinality({p \in pods : podCache[p] = phase})

(* getCurrentPodStats *)
Stats(pods) == <<In(pods, "Running"), In(pods, "Succeeded"), In(pods, "Failed")>>

(* Mutants: one failed pod fails the group whatever the rest does; more than*)
(* minMember pods have to succeed.                                          *)
PhaseFailsEarly(size, c) ==
    IF c[2] >= size THEN "Finished"
    ELSE IF c[3] # 0 THEN "Failed"
    ELSE IF c[1] + c[2] >= size THEN "Running" ELSE "Scheduling"

PhaseOffByOne(size, c) ==
    IF c[2] > size THEN "Finished"
    ELSE IF c[3] # 0 /\ c[1] + c[2] + c[3] >= size THEN "Failed"
    ELSE IF c[1] + c[2] >= size THEN "Running" ELSE "Scheduling"

(* updateStatus, the phase for the counts of running, succeeded and failed  *)
(* pods.                                                                    *)
PhaseFor(size, c) ==
    IF c[2] >= size THEN "Finished"
    ELSE IF c[3] # 0 /\ c[1] + c[2] + c[3] >= size THEN "Failed"
    ELSE IF c[1] + c[2] >= size THEN "Running" ELSE "Scheduling"

(* Mutant: no case of its own for a pending group. *)
StatusWithoutPending(pg, pods) ==
    IF pg.phase = "" THEN [pg EXCEPT !.phase = "Pending"]
    ELSE IF Cardinality(pods) < pg.size THEN [pg EXCEPT !.phase = "Pending"]
    ELSE [pg EXCEPT !.phase = PhaseFor(pg.size, Stats(pods)), !.counts = Stats(pods)]

(* updateStatus, the phase and the counts. *)
UpdatedStatus(pg, pods) ==
    IF pg.phase = "" THEN [pg EXCEPT !.phase = "Pending"]
    ELSE IF pg.phase = "Pending"
      THEN [pg EXCEPT !.phase = IF Cardinality(pods) >= pg.size THEN "Scheduling" ELSE @]
    ELSE IF Cardinality(pods) < pg.size THEN [pg EXCEPT !.phase = "Pending"]
    ELSE [pg EXCEPT !.phase = PhaseFor(pg.size, Stats(pods)), !.counts = Stats(pods)]

Over == {"Finished", "Failed"}

(* A reconcile of g begins: the key leaves the queue. *)
Begin(g) ==
    /\ g \in queue /\ work[g] = Idle
    /\ queue' = queue \ {g}
    /\ UNCHANGED <<apiVars, podCache, cache, events>>

Do(g, step, pg) ==
    work' = [work EXCEPT ![g] = [step |-> step, pg |-> pg, read |-> cache[g].size,
                                 bumped |-> FALSE]]

ReconcileGone(g) ==
    /\ Begin(g)
    /\ cache[g] # NoGroup => cache[g].phase \in Over
    /\ UNCHANGED work

(* setTimeCreated *)
ReconcileTime(g) ==
    /\ Begin(g)
    /\ cache[g] # NoGroup /\ ~cache[g].timed
    /\ Do(g, "status", [cache[g] EXCEPT !.timed = TRUE])

(* Mutant: the label is ignored. *)
CountSizes(pods) == {Cardinality(pods)}

(* updatePodGroupSize: the size label of the first pod listed, which may be *)
(* any of them, or else the number of pods.                                 *)
FoundSizes(pods) ==
    {IF SizeOf[p] = BadSize THEN Cardinality(pods) ELSE SizeOf[p] : p \in pods}
      \cup (IF pods = {} THEN {0} ELSE {})

(* Mutant: the base of the patch is copied after the size is set. *)
SizeInPatchBase(g) ==
    /\ Begin(g)
    /\ cache[g] # NoGroup /\ cache[g].timed /\ cache[g].size = 0
    /\ \E size \in FoundSizes(PodList(g)) :
         work' = [work EXCEPT ![g] = [step |-> "status", pg |-> [cache[g] EXCEPT !.size = size],
                                      read |-> size, bumped |-> FALSE]]

ReconcileSize(g) ==
    /\ Begin(g)
    /\ cache[g] # NoGroup /\ cache[g].timed /\ cache[g].size = 0
    /\ \E size \in FoundSizes(PodList(g)) :
         Do(g, "status", [cache[g] EXCEPT !.size = size])

(* Mutant: a finished group is stored as such. *)
StatusKeepsOver(g) ==
    /\ Begin(g)
    /\ cache[g] # NoGroup /\ cache[g].timed /\ cache[g].size # 0
    /\ Do(g, "status", UpdatedStatus(cache[g], PodList(g)))

(* updateStatus *)
ReconcileStatus(g) ==
    /\ Begin(g)
    /\ cache[g] # NoGroup /\ cache[g].timed /\ cache[g].size # 0
    /\ UpdatedStatus(cache[g], PodList(g)).phase \notin Over
    /\ Do(g, "status", UpdatedStatus(cache[g], PodList(g)))

ReconcileOver(g) ==
    /\ Begin(g)
    /\ cache[g] # NoGroup /\ cache[g].timed /\ cache[g].size # 0
    /\ UpdatedStatus(cache[g], PodList(g)).phase \in Over
    /\ Do(g, "delete", cache[g])

(* r.Status().Update, whose error is ignored.  The API server takes the     *)
(* status only, and what the schema knows of it.                            *)
Current(g) == group[g] # NoGroup /\ group[g].version = work[g].pg.version

StatusUpdate(g) ==
    /\ work[g] # Idle /\ work[g].step = "status"
    /\ LET pg == work[g].pg
           new == [group[g] EXCEPT !.phase = pg.phase, !.counts = pg.counts,
                                   !.timed = pg.timed /\ CreationTimeStored]
       IN  \/ /\ Current(g)
              /\ Store(g, new)
              /\ work' = [work EXCEPT ![g].step = "patch",
                                      ![g].pg.version = group'[g].version,
                                      ![g].bumped = (group'[g] # group[g])]
           \/ /\ ~Current(g) \/ ApiFails
              /\ work' = [work EXCEPT ![g].step = "patch"]
              /\ UNCHANGED group
    /\ UNCHANGED <<pod, podCache, cache, events, queue>>

(* Mutant: the key is not queued again. *)
PatchAndRest(g) ==
    /\ work[g] # Idle /\ work[g].step = "patch"
    /\ \/ /\ group[g] # NoGroup /\ (work[g].bumped => Current(g))
          /\ Store(g, [group[g] EXCEPT !.size =
                         IF work[g].pg.size # work[g].read THEN work[g].pg.size ELSE @])
       \/ /\ group[g] = NoGroup \/ (work[g].bumped /\ ~Current(g)) \/ ApiFails
          /\ UNCHANGED group
    /\ work' = [work EXCEPT ![g] = Idle]
    /\ UNCHANGED <<pod, podCache, cache, events, queue>>

(* r.Patch: the size, if this reconcile changed it.  With or without an     *)
(* error the key is queued again.                                           *)
Patch(g) ==
    /\ work[g] # Idle /\ work[g].step = "patch"
    /\ \/ /\ group[g] # NoGroup /\ (work[g].bumped => Current(g))
          /\ Store(g, [group[g] EXCEPT !.size =
                         IF work[g].pg.size # work[g].read THEN work[g].pg.size ELSE @])
       \/ /\ group[g] = NoGroup \/ (work[g].bumped /\ ~Current(g)) \/ ApiFails
          /\ UNCHANGED group
    /\ work' = [work EXCEPT ![g] = Idle]
    /\ queue' = queue \cup {g}
    /\ UNCHANGED <<pod, podCache, cache, events>>

(* r.Delete, by name: it is queued again only when the call fails. *)
DeleteGroup(g) ==
    /\ work[g] # Idle /\ work[g].step = "delete"
    /\ \/ /\ group[g] # NoGroup
          /\ group' = [group EXCEPT ![g] = NoGroup]
          /\ UNCHANGED queue
       \/ /\ group[g] = NoGroup \/ ApiFails
          /\ queue' = queue \cup {g}
          /\ UNCHANGED group
    /\ work' = [work EXCEPT ![g] = Idle]
    /\ UNCHANGED <<pod, podCache, cache, events>>

(* A new controller process lists everything: each object is an event. *)
ControllerRestart ==
    /\ ControllerCrashes
    /\ podCache' = pod /\ cache' = group
    /\ events' = {p \in Pods : pod[p] = "Pending"} \X {"pending"}
    /\ queue' = {g \in Groups : group[g] # NoGroup}
    /\ work' = [g \in Groups |-> Idle]
    /\ UNCHANGED <<pod, group>>

-----------------------------------------------------------------------------
Ensure(p) == EnsureCreate(p) \/ EnsureNothing(p) \/ EnsureDeleted(p)

Reconcile(g) == \/ ReconcileGone(g) \/ ReconcileTime(g) \/ ReconcileSize(g)
                \/ ReconcileStatus(g) \/ ReconcileOver(g)
                \/ StatusUpdate(g) \/ Patch(g) \/ DeleteGroup(g)

Next ==
    \/ \E p \in Pods : Create(p) \/ Run(p) \/ Finish(p) \/ Delete(p)
    \/ \E g \in Groups : UserCreate(g)
    \/ \E p \in Pods : CachePod(p) \/ SeeAgain(p) \/ Ensure(p)
    \/ \E g \in Groups : CacheGroup(g) \/ Reconcile(g)
    \/ ControllerRestart

Spec == Init /\ [][Next]_vars

-----------------------------------------------------------------------------
(* A group's own pods that have got beyond Pending. *)
Begun(g) == {p \in Pods : GroupOf(p) = g /\ pod[p] \notin {"none", "Pending"}}

(* A PodGroup is deleted only after minMember of its own pods have been     *)
(* started ("spec.minMember pods of the pod group are successfully finished"*)
(* or failed, types.go:102-106), although Reconcile works from old copies of*)
(* the group and of the pods and deletes by name.                           *)
DeletedOnlyWhenBegun ==
    [][\A g \in Groups : group[g] # NoGroup /\ group'[g] = NoGroup =>
          Cardinality(Begun(g)) >= work[g].pg.size]_vars

(* The life of a group: Pending before Scheduling before Running. *)
PhaseSteps ==
    {<<x, x>> : x \in GroupPhases}
      \cup {<<"", "Pending">>, <<"Pending", "Scheduling">>,
            <<"Scheduling", "Running">>, <<"Running", "Scheduling">>,
            <<"Scheduling", "Pending">>, <<"Running", "Pending">>}

(* The stored phase moves along the life of a group, whatever old copy      *)
(* updateStatus worked on.                                                  *)
PhaseOrder ==
    [][\A g \in Groups : group[g] # NoGroup /\ group'[g] # NoGroup =>
          <<group[g].phase, group'[g].phase>> \in PhaseSteps]_vars

(* minMember is set once ("set on the group if not done yet",               *)
(* podgroup_controller.go:123), although the patch that sets it carries no  *)
(* version when the status update changed nothing or was refused.           *)
SizeSetOnce ==
    [][\A g \in Groups : group[g] # NoGroup /\ group'[g] # NoGroup /\ group[g].size # 0 =>
          group'[g].size = group[g].size]_vars

-----------------------------------------------------------------------------
(* The controller keeps its promise to the scheduler: PodGroups come and go *)
(* as GroupLifecycle says, which is how module Fluence sees them.           *)
storedGroups == {g \in Groups : group[g] # NoGroup}

(* The size on the labels of the group's pods, which all have the same. *)
MinMember ==
    [g \in Groups |->
        LET own == {p \in Pods : GroupOf(p) = g}
        IN  IF own = {} THEN 0 ELSE SizeOf[CHOOSE p \in own : TRUE]]

Life == INSTANCE GroupLifecycle WITH api <- pod, groups <- storedGroups

(* Seen through the stored PodGroups alone, the caches, the retries and the *)
(* refused updates of the controller make no difference: a group appears    *)
(* for pods of its name, and goes only when minMember of its pods have      *)
(* succeeded, or have begun and one has failed (types.go:102-106).          *)
FollowsLifecycle == Life!Spec

-----------------------------------------------------------------------------
(* Fairness: the caches catch up, the handler and the workers go on, and a  *)
(* pending pod is seen again (at the latest by the informer's resync).      *)
Fairness ==
    /\ \A p \in Pods : /\ WF_vars(CachePod(p)) /\ WF_vars(SeeAgain(p))
                       /\ WF_vars(Ensure(p))
    /\ \A g \in Groups : WF_vars(CacheGroup(g)) /\ WF_vars(Reconcile(g))

FairSpec == Spec /\ Fairness

(* minMember pods of the group have succeeded and the group is still there. *)
Overdue(g) ==
    /\ group[g] # NoGroup /\ group[g].size > 0
    /\ Cardinality({p \in Pods : GroupOf(p) = g /\ pod[p] = "Succeeded"}) >= group[g].size

(* A group whose pods have finished does not stay ("Delete the group if it  *)
(* is finished or failed", podgroup_controller.go:239).                     *)
FinishedGroupDeleted == \A g \in Groups : []<>~Overdue(g)

(* A pending pod does not stay without its PodGroup, without which it is    *)
(* never scheduled, even when the group of earlier pods with its label is   *)
(* being deleted.                                                           *)
PendingPodGetsGroup ==
    \A p \in Pods : SizeOf[p] # BadSize =>
        []<>~(pod[p] = "Pending" /\ group[GroupOf(p)] = NoGroup)

(* The stored status catches up with the pods, although pod events do not   *)
(* queue the group: reconciling goes on by itself.                          *)
StatusCatchesUp ==
    \A g \in Groups : []<>(
        \/ group[g] = NoGroup \/ group[g].size = 0
        \/ podCache = pod /\ UpdatedStatus(group[g], PodList(g)) = group[g])

(* The group has no size, and each pod with its label, one at least, says   *)
(* more than 0.                                                             *)
Unsized(g) ==
    LET labelled == {p \in Pods : LabelOf[p] = g[2] /\ pod[p] \in Listed}
    IN  /\ group[g] # NoGroup /\ group[g].size = 0
        /\ labelled # {} /\ \A p \in labelled : SizeOf[p] # 0

(* A group that its owner created without minMember does not stay without   *)
(* one once it has pods ("set on the group if not done yet",                *)
(* podgroup_controller.go:123), although the status update that goes before *)
(* the patch cannot store it and may be refused, and a first reconcile found*)
(* no pods.  The scheduler takes such a group for one of size 0 until then. *)
UnsizedGroupGetsSize == \A g \in Groups : []<>~Unsized(g)
=============================================================================
