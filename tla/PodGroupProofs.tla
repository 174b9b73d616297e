--------------------------- MODULE PodGroupProofs ---------------------------
(***************************************************************************)
(* Proofs about PodGroupController for any pods, namespaces, labels and     *)
(* sizes, with stale caches, failing calls, deletions and crashes: the types*)
(* of its state, and the order of a group's phases.                         *)
(***************************************************************************)
EXTENDS PodGroupController, FiniteSetTheorems, TLAPS

(* Copies of a PodGroup with the same version are the same: the cached one, *)
(* and the one that a reconcile has read and changed along the group's life.*)
Versioned ==
    \A g \in Groups : group[g] # NoGroup =>
        /\ cache[g] # NoGroup /\ cache[g].version = group[g].version => cache[g] = group[g]
        /\ work[g] # Idle /\ work[g].step = "status" /\ Current(g) =>
             <<group[g].phase, work[g].pg.phase>> \in PhaseSteps

-----------------------------------------------------------------------------
(* Types.                                                                   *)

(* Of four versions one is free: at most three are in use. *)
LEMMA FreeVersion ==
    ASSUME NEW a, NEW b, NEW c PROVE \E v \in Versions : v \notin {a, b, c}
<1>1. {1, 2, 3, 4} \subseteq Versions
  BY DEF Versions
<1>2. \E v \in {1, 2, 3, 4} : v \notin {a, b, c}
  OBVIOUS
<1> QED BY <1>1, <1>2

LEMMA NewVersionIsFree ==
    ASSUME NEW g
    PROVE  NewVersion(g) \in Versions /\ NewVersion(g) \notin InUse(g)
<1>1. \E a, b, c : InUse(g) \subseteq {a, b, c}
  <2>1. {x.version : x \in {group[g], cache[g]} \ {NoGroup}}
          \subseteq {group[g].version, cache[g].version}
    OBVIOUS
  <2>2. InUse(g) \subseteq {group[g].version, cache[g].version, work[g].pg.version}
    BY <2>1 DEF InUse
  <2> QED BY <2>2
<1>2. \E v \in Versions : v \notin InUse(g)
  BY <1>1, FreeVersion
<1> QED BY <1>2 DEF NewVersion

LEMMA NewGroupType ==
    ASSUME NEW g, NEW size \in Nat
    PROVE  /\ NewGroup(g, size) \in PodGroup
           /\ NewGroup(g, size) # NoGroup
           /\ NewGroup(g, size).size = size
           /\ NewGroup(g, size).version \notin InUse(g)
<1>1. NewVersion(g) \in Versions /\ NewVersion(g) \notin InUse(g)
  BY NewVersionIsFree
<1>2. <<0, 0, 0>> \in Nat \X Nat \X Nat
  OBVIOUS
<1>3. NewGroup(g, size) \in PodGroup
  BY <1>1, <1>2 DEF NewGroup, PodGroup, GroupPhases
<1>4. NewGroup(g, size).size = size /\ NewGroup(g, size).version = NewVersion(g)
  BY DEF NewGroup
<1> QED BY <1>1, <1>3, <1>4, NoGroupAssumption

LEMMA PodsCount ==
    ASSUME NEW S \in SUBSET Pods PROVE IsFiniteSet(S) /\ Cardinality(S) \in Nat
BY ControllerAssumption, FS_Subset, FS_CardinalityType

LEMMA StatsType ==
    ASSUME NEW S \in SUBSET Pods PROVE Stats(S) \in Nat \X Nat \X Nat
<1>1. \A phase : In(S, phase) \in Nat
  BY PodsCount DEF In
<1> QED BY <1>1 DEF Stats

LEMMA StatusType ==
    ASSUME NEW pg \in PodGroup, NEW S \in SUBSET Pods,
           UpdatedStatus(pg, S).phase \notin Over
    PROVE  /\ UpdatedStatus(pg, S) \in PodGroup
           /\ UpdatedStatus(pg, S).version = pg.version
           /\ UpdatedStatus(pg, S).size = pg.size
           /\ <<pg.phase, UpdatedStatus(pg, S).phase>> \in PhaseSteps
<1> DEFINE size == pg.size
           c == Stats(S)
           ph == PhaseFor(size, c)
<1>1. ph \in {"Finished", "Failed", "Running", "Scheduling"}
  BY DEF PhaseFor
<1>2. c \in Nat \X Nat \X Nat
  BY StatsType
<1>3. CASE pg.phase = ""
  BY <1>3 DEF UpdatedStatus, PodGroup, GroupPhases, PhaseSteps
<1>4. CASE pg.phase = "Pending"
  BY <1>4 DEF UpdatedStatus, PodGroup, GroupPhases, PhaseSteps
<1>5. CASE pg.phase \in {"Scheduling", "Running"} /\ Cardinality(S) < pg.size
  BY <1>5 DEF UpdatedStatus, PodGroup, GroupPhases, PhaseSteps
<1>6. CASE pg.phase \in {"Scheduling", "Running"} /\ ~(Cardinality(S) < pg.size)
  <2> HIDE DEF ph, c, size
  <2>1. UpdatedStatus(pg, S) = [pg EXCEPT !.phase = ph, !.counts = c]
    BY <1>6 DEF UpdatedStatus, ph, c, size
  <2>2. ph \in {"Running", "Scheduling"}
    BY <1>1, <2>1 DEF Over, PodGroup
  <2> QED BY <1>2, <1>6, <2>1, <2>2 DEF PodGroup, GroupPhases, PhaseSteps
<1> QED BY <1>3, <1>4, <1>5, <1>6 DEF PodGroup, GroupPhases

LEMMA FoundSizesType ==
    ASSUME NEW S \in SUBSET Pods, NEW size \in FoundSizes(S) PROVE size \in Nat
BY PodsCount, ControllerAssumption DEF FoundSizes

LEMMA GroupOfType ==
    ASSUME NEW p \in Pods PROVE GroupOf(p) \in Groups
BY ControllerAssumption DEF GroupOf, Groups

LEMMA WorkType ==
    ASSUME TypeOK, NEW g \in Groups, work[g] # Idle
    PROVE  /\ work[g] \in Work /\ work[g].pg \in PodGroup /\ work[g].pg # NoGroup
           /\ work[g].read \in Nat /\ work[g].bumped \in BOOLEAN
BY NoGroupAssumption DEF TypeOK, Work

(* What a reconcile starts with. *)
LEMMA DoType ==
    ASSUME TypeOK, NEW g \in Groups, cache[g] # NoGroup,
           NEW step \in {"status", "patch", "delete"}, NEW pg \in PodGroup, Do(g, step, pg)
    PROVE  /\ work' \in [Groups -> Work \cup {Idle}]
           /\ work'[g] # Idle
           /\ work'[g].step = step /\ work'[g].pg = pg /\ work'[g].read = cache[g].size
           /\ work'[g].bumped = FALSE
           /\ \A h \in Groups : h # g => work'[h] = work[h]
<1> DEFINE w == [step |-> step, pg |-> pg, read |-> cache[g].size, bumped |-> FALSE]
<1>1. cache[g].size \in Nat
  BY DEF TypeOK, PodGroup
<1>2. w \in Work /\ w # Idle
  BY <1>1 DEF Work, Idle
<1>3. w.step = step /\ w.pg = pg /\ w.read = cache[g].size /\ w.bumped = FALSE
  OBVIOUS
<1> HIDE DEF w
<1> QED BY <1>2, <1>3 DEF Do, TypeOK, w

(* Storing keeps the object or gives it a version that is not in use. *)
LEMMA StoreType ==
    ASSUME TypeOK, NEW g \in Groups, group[g] # NoGroup, NEW pg \in PodGroup, Store(g, pg)
    PROVE  /\ group' \in [Groups -> PodGroup \cup {NoGroup}]
           /\ group'[g] \in PodGroup /\ group'[g] # NoGroup
           /\ group'[g].phase = pg.phase /\ group'[g].size = pg.size
           /\ group'[g] = group[g] \/ group'[g].version \notin InUse(g)
           /\ \A h \in Groups : h # g => group'[h] = group[h]
<1>1. NewVersion(g) \in Versions /\ NewVersion(g) \notin InUse(g)
  BY NewVersionIsFree
<1>2. CASE pg = group[g]
  BY <1>2, NoGroupAssumption DEF Store, TypeOK
<1>3. CASE pg # group[g]
  <2> DEFINE new == [pg EXCEPT !.version = NewVersion(g)]
  <2>1. /\ new \in PodGroup /\ new.phase = pg.phase /\ new.size = pg.size
        /\ new.version = NewVersion(g)
    BY <1>1 DEF PodGroup
  <2> HIDE DEF new
  <2>2. group' = [group EXCEPT ![g] = new]
    BY <1>3 DEF Store, new
  <2> QED BY <1>1, <2>1, <2>2, NoGroupAssumption DEF TypeOK
<1> QED BY <1>2, <1>3

(* The reconcile that begins has read the cached group. *)
LEMMA BeginType ==
    ASSUME TypeOK, NEW g \in Groups,
           ReconcileTime(g) \/ ReconcileSize(g) \/ ReconcileStatus(g) \/ ReconcileOver(g)
    PROVE  \E step \in {"status", "delete"}, pg \in PodGroup :
             /\ cache[g] # NoGroup /\ Do(g, step, pg)
             /\ pg.version = cache[g].version
             /\ step = "status" => <<cache[g].phase, pg.phase>> \in PhaseSteps
             /\ step = "delete" => /\ pg = cache[g] /\ pg.size # 0
                                  /\ UpdatedStatus(pg, PodList(g)).phase \in Over
             /\ \/ pg.size = cache[g].size
                \/ cache[g].size = 0 /\ pg.size \in FoundSizes(PodList(g))
<1>0. PodList(g) \in SUBSET Pods
  BY DEF PodList
<1>1. cache[g] # NoGroup /\ cache[g] \in PodGroup
      /\ <<cache[g].phase, cache[g].phase>> \in PhaseSteps
  <2>1. cache[g] # NoGroup /\ cache[g] \in PodGroup
    BY DEF TypeOK, ReconcileTime, ReconcileSize, ReconcileStatus, ReconcileOver
  <2>2. cache[g].phase \in GroupPhases
    BY <2>1 DEF PodGroup
  <2> QED BY <2>1, <2>2 DEF PhaseSteps
<1>2. CASE ReconcileTime(g)
  <2> DEFINE pg == [cache[g] EXCEPT !.timed = TRUE]
  <2>1. /\ pg \in PodGroup /\ pg.version = cache[g].version
        /\ pg.phase = cache[g].phase /\ pg.size = cache[g].size
    BY <1>1 DEF PodGroup
  <2>2. Do(g, "status", pg)
    BY <1>2 DEF ReconcileTime
  <2> HIDE DEF pg
  <2> QED BY <1>1, <2>1, <2>2
<1>3. CASE ReconcileSize(g)
  <2>1. PICK size \in FoundSizes(PodList(g)) :
          Do(g, "status", [cache[g] EXCEPT !.size = size]) /\ cache[g].size = 0
    BY <1>3 DEF ReconcileSize
  <2> DEFINE pg == [cache[g] EXCEPT !.size = size]
  <2>2. /\ pg \in PodGroup /\ pg.version = cache[g].version
        /\ pg.phase = cache[g].phase /\ pg.size = size
    BY <1>0, <1>1, FoundSizesType DEF PodGroup
  <2>3. Do(g, "status", pg)
    BY <2>1
  <2> HIDE DEF pg
  <2> QED BY <1>1, <2>1, <2>2, <2>3
<1>4. CASE ReconcileStatus(g)
  <2> DEFINE pg == UpdatedStatus(cache[g], PodList(g))
  <2>1. pg.phase \notin Over /\ Do(g, "status", pg)
    BY <1>4 DEF ReconcileStatus
  <2>2. /\ pg \in PodGroup /\ pg.version = cache[g].version /\ pg.size = cache[g].size
        /\ <<cache[g].phase, pg.phase>> \in PhaseSteps
    BY <1>0, <1>1, <2>1, StatusType
  <2> HIDE DEF pg
  <2> QED BY <1>1, <2>1, <2>2
<1>5. CASE ReconcileOver(g)
  BY <1>1, <1>5 DEF ReconcileOver
<1> QED BY <1>2, <1>3, <1>4, <1>5

(* StatusUpdate succeeds, or changes only the reconcile's step. *)
LEMMA StatusUpdateType ==
    ASSUME TypeOK, NEW g \in Groups, StatusUpdate(g)
    PROVE  /\ group' \in [Groups -> PodGroup \cup {NoGroup}]
           /\ work' \in [Groups -> Work \cup {Idle}]
           /\ \A h \in Groups : h # g => group'[h] = group[h] /\ work'[h] = work[h]
           /\ work[g] # Idle /\ work[g].step = "status"
           /\ work'[g] # Idle /\ work'[g].step = "patch"
           /\ work'[g].pg.size = work[g].pg.size /\ work'[g].read = work[g].read
           /\ \/ group' = group
              \/ /\ Current(g)
                 /\ group'[g] # NoGroup
                 /\ group'[g].phase = work[g].pg.phase /\ group'[g].size = group[g].size
                 /\ group'[g] = group[g] \/ group'[g].version \notin InUse(g)
<1> DEFINE w == work[g]
           pg == work[g].pg
           new == [group[g] EXCEPT !.phase = pg.phase, !.counts = pg.counts,
                                   !.timed = pg.timed /\ CreationTimeStored]
<1>1. w # Idle /\ w.step = "status"
  BY DEF StatusUpdate
<1>2. w \in Work /\ pg \in PodGroup
  BY <1>1, WorkType
<1>3. CASE /\ Current(g) /\ Store(g, new)
           /\ work' = [work EXCEPT ![g].step = "patch",
                                   ![g].pg.version = group'[g].version,
                                   ![g].bumped = (group'[g] # group[g])]
  <2>1. group[g] # NoGroup /\ group[g] \in PodGroup
    BY <1>3 DEF Current, TypeOK
  <2>2. (pg.timed /\ CreationTimeStored) \in BOOLEAN
    OBVIOUS
  <2>3. new \in PodGroup /\ new.phase = pg.phase /\ new.size = group[g].size
    <3> DEFINE t == pg.timed /\ CreationTimeStored
    <3> HIDE DEF t
    <3>1. t \in BOOLEAN
      BY <2>2 DEF t
    <3>2. [group[g] EXCEPT !.phase = pg.phase, !.counts = pg.counts, !.timed = t] \in PodGroup
      BY <1>2, <2>1, <3>1 DEF PodGroup
    <3>3. /\ [group[g] EXCEPT !.phase = pg.phase, !.counts = pg.counts, !.timed = t].phase = pg.phase
          /\ [group[g] EXCEPT !.phase = pg.phase, !.counts = pg.counts, !.timed = t].size = group[g].size
      BY <2>1 DEF PodGroup
    <3> QED BY <3>2, <3>3 DEF t
  <2> HIDE DEF new
  <2>4. /\ group' \in [Groups -> PodGroup \cup {NoGroup}]
        /\ group'[g] \in PodGroup /\ group'[g] # NoGroup
        /\ group'[g].phase = pg.phase /\ group'[g].size = group[g].size
        /\ group'[g] = group[g] \/ group'[g].version \notin InUse(g)
        /\ \A h \in Groups : h # g => group'[h] = group[h]
    BY <1>3, <2>1, <2>3, StoreType
  <2> DEFINE v == group'[g].version
             b == group'[g] # group[g]
             u == [[[w EXCEPT !.step = "patch"] EXCEPT !.pg.version = v] EXCEPT !.bumped = b]
  <2>5. v \in Versions /\ b \in BOOLEAN
    BY <2>4 DEF PodGroup
  <2>6. work' = [work EXCEPT ![g] = u]
    BY <1>3 DEF TypeOK
  <2> HIDE DEF v, b
  <2>7. u \in Work /\ u # Idle /\ u.step = "patch" /\ u.pg.size = pg.size /\ u.read = w.read
    BY <1>2, <2>5 DEF Work, PodGroup, Idle
  <2> HIDE DEF u
  <2>8. /\ work' \in [Groups -> Work \cup {Idle}] /\ work'[g] = u
        /\ \A h \in Groups : h # g => work'[h] = work[h]
    BY <2>6, <2>7 DEF TypeOK
  <2>9. /\ work'[g] # Idle /\ work'[g].step = "patch"
        /\ work'[g].pg.size = work[g].pg.size /\ work'[g].read = work[g].read
    BY <2>7, <2>8
  <2>10. /\ Current(g) /\ group'[g] # NoGroup
         /\ group'[g].phase = work[g].pg.phase /\ group'[g].size = group[g].size
         /\ group'[g] = group[g] \/ group'[g].version \notin InUse(g)
    BY <1>3, <2>4
  <2> HIDE DEF w, pg
  <2> QED BY <1>1, <2>4, <2>8, <2>9, <2>10 DEF w
<1>4. CASE work' = [work EXCEPT ![g].step = "patch"] /\ group' = group
  <2> DEFINE u == [w EXCEPT !.step = "patch"]
  <2>1. u \in Work /\ u # Idle /\ u.step = "patch" /\ u.pg.size = pg.size /\ u.read = w.read
    BY <1>2 DEF Work, Idle
  <2>2. work' = [work EXCEPT ![g] = u]
    BY <1>4 DEF TypeOK
  <2> HIDE DEF u
  <2> QED BY <1>1, <1>4, <2>1, <2>2 DEF TypeOK
<1> QED BY <1>3, <1>4 DEF StatusUpdate

(* Patch writes the size, if the reconcile has changed it. *)
LEMMA PatchType ==
    ASSUME TypeOK, NEW g \in Groups, Patch(g)
    PROVE  /\ group' \in [Groups -> PodGroup \cup {NoGroup}]
           /\ work' = [work EXCEPT ![g] = Idle]
           /\ work[g] # Idle
           /\ \A h \in Groups : h # g => group'[h] = group[h]
           /\ \/ group' = group
              \/ /\ group[g] # NoGroup /\ group'[g] # NoGroup
                 /\ group'[g].phase = group[g].phase
                 /\ \/ group'[g].size = group[g].size
                    \/ group'[g].size = work[g].pg.size /\ work[g].pg.size # work[g].read
                 /\ group'[g] = group[g] \/ group'[g].version \notin InUse(g)
<1>1. work[g] # Idle /\ work' = [work EXCEPT ![g] = Idle]
  BY DEF Patch
<1>2. work[g].pg.size \in Nat
  BY <1>1, WorkType DEF PodGroup
<1>3. CASE group' = group
  BY <1>1, <1>3 DEF TypeOK
<1>4. CASE /\ group[g] # NoGroup
           /\ Store(g, [group[g] EXCEPT !.size =
                          IF work[g].pg.size # work[g].read THEN work[g].pg.size ELSE @])
  <2> DEFINE size == IF work[g].pg.size # work[g].read THEN work[g].pg.size ELSE group[g].size
             pg == [group[g] EXCEPT !.size = size]
  <2>1. group[g] \in PodGroup /\ size \in Nat
    BY <1>2, <1>4 DEF TypeOK, PodGroup
  <2>2. Store(g, pg)
    BY <1>4
  <2>3. \/ size = group[g].size
        \/ size = work[g].pg.size /\ work[g].pg.size # work[g].read
    OBVIOUS
  <2> HIDE DEF size
  <2>4. pg \in PodGroup /\ pg.phase = group[g].phase /\ pg.size = size
    BY <2>1 DEF PodGroup
  <2> HIDE DEF pg
  <2> QED BY <1>1, <1>4, <2>2, <2>3, <2>4, StoreType
<1> QED BY <1>3, <1>4 DEF Patch

LEMMA TypeInit == Init => TypeOK
BY DEF Init, TypeOK, PodPhases

LEMMA TypeNext == TypeOK /\ [Next]_vars => TypeOK'
<1> SUFFICES ASSUME TypeOK, [Next]_vars PROVE TypeOK'
  OBVIOUS
<1>1. ASSUME NEW p \in Pods, NEW phase \in PodPhases, SetPod(p, phase) PROVE TypeOK'
  BY <1>1 DEF SetPod, TypeOK
<1>2. ASSUME NEW p \in Pods, Create(p) \/ Run(p) \/ Finish(p) \/ Delete(p) PROVE TypeOK'
  BY <1>1, <1>2 DEF Create, Run, Finish, Delete, PodPhases, Listed
<1>3. ASSUME NEW g \in Groups, UserCreate(g) PROVE TypeOK'
  BY <1>3, NewGroupType DEF UserCreate, TypeOK
<1>4. ASSUME NEW p \in Pods, CachePod(p) PROVE TypeOK'
  <2>1. pod[p] \in PodPhases
    BY DEF TypeOK
  <2>2. events' \subseteq events \cup {<<p, "pending">>, <<p, "deleted">>}
    BY <1>4 DEF CachePod
  <2> QED BY <1>4, <2>1, <2>2 DEF CachePod, TypeOK
<1>5. ASSUME NEW p \in Pods, SeeAgain(p) PROVE TypeOK'
  BY <1>5 DEF SeeAgain, TypeOK
<1>6. ASSUME NEW p \in Pods, EnsureCreate(p) PROVE TypeOK'
  <2>1. SizeOf[p] \in Nat /\ GroupOf(p) \in Groups
    BY <1>6, GroupOfType, ControllerAssumption DEF EnsureCreate
  <2>2. NewGroup(GroupOf(p), SizeOf[p]) \in PodGroup
    BY <2>1, NewGroupType
  <2>3. group' \in [Groups -> PodGroup \cup {NoGroup}] /\ queue' \subseteq Groups
    BY <1>6, <2>1, <2>2 DEF EnsureCreate, TypeOK
  <2> QED BY <1>6, <2>3 DEF EnsureCreate, TypeOK
<1>7. ASSUME NEW p \in Pods, EnsureNothing(p) \/ EnsureDeleted(p) PROVE TypeOK'
  BY <1>7 DEF EnsureNothing, EnsureDeleted, TypeOK
<1>8. ASSUME NEW g \in Groups, CacheGroup(g) PROVE TypeOK'
  BY <1>8 DEF CacheGroup, TypeOK
<1>9. ASSUME NEW g \in Groups, Begin(g), work' \in [Groups -> Work \cup {Idle}] PROVE TypeOK'
  BY <1>9 DEF Begin, apiVars, TypeOK
<1>10. ASSUME NEW g \in Groups, ReconcileGone(g) PROVE TypeOK'
  BY <1>9, <1>10 DEF ReconcileGone, TypeOK
<1>11. ASSUME NEW g \in Groups,
              ReconcileTime(g) \/ ReconcileSize(g) \/ ReconcileStatus(g) \/ ReconcileOver(g)
       PROVE  TypeOK'
  <2>1. Begin(g)
    BY <1>11 DEF ReconcileTime, ReconcileSize, ReconcileStatus, ReconcileOver
  <2>2. work' \in [Groups -> Work \cup {Idle}]
    <3>1. PICK step \in {"status", "delete"}, pg \in PodGroup :
            cache[g] # NoGroup /\ Do(g, step, pg)
      BY <1>11, BeginType
    <3> QED BY <3>1, DoType
  <2> QED BY <1>9, <2>1, <2>2
<1>12. ASSUME NEW g \in Groups, StatusUpdate(g) PROVE TypeOK'
  BY <1>12, StatusUpdateType DEF StatusUpdate, TypeOK
<1>13. ASSUME NEW g \in Groups, Patch(g) PROVE TypeOK'
  BY <1>13, PatchType DEF Patch, TypeOK
<1>14. ASSUME NEW g \in Groups, DeleteGroup(g) PROVE TypeOK'
  BY <1>14 DEF DeleteGroup, TypeOK
<1>15. ASSUME ControllerRestart PROVE TypeOK'
  BY <1>15 DEF ControllerRestart, TypeOK
<1>16. ASSUME UNCHANGED vars PROVE TypeOK'
  BY <1>16 DEF vars, TypeOK
<1> QED BY <1>2, <1>3, <1>4, <1>5, <1>6, <1>7, <1>8, <1>10, <1>11, <1>12, <1>13, <1>14,
           <1>15, <1>16 DEF Next, Ensure, Reconcile

(* The controller's state has its type in every reachable state: in         *)
(* particular a version is always free, and a status that says Finished or  *)
(* Failed is never stored.                                                  *)
THEOREM ControllerTypes == Spec => []TypeOK
BY TypeInit, TypeNext, PTL DEF Spec

-----------------------------------------------------------------------------
(* Versions, and the order of phases.                                       *)

(* What a step does to a stored group. *)
LEMMA GroupChanges ==
    ASSUME [Next]_vars, NEW g \in Groups, group'[g] # group[g], TypeOK
    PROVE  \/ UserCreate(g)
           \/ \E p \in Pods : GroupOf(p) = g /\ EnsureCreate(p) /\ group[g] = NoGroup
           \/ StatusUpdate(g) \/ Patch(g) \/ DeleteGroup(g)
<1>1. ASSUME NEW p \in Pods, Create(p) \/ Run(p) \/ Finish(p) \/ Delete(p) PROVE group' = group
  BY <1>1 DEF Create, Run, Finish, Delete, SetPod
<1>2. ASSUME NEW h \in Groups, UserCreate(h) PROVE h = g
  BY <1>2 DEF UserCreate, TypeOK
<1>3. ASSUME NEW p \in Pods, CachePod(p) \/ SeeAgain(p) \/ EnsureNothing(p) \/ EnsureDeleted(p)
      PROVE  group' = group
  BY <1>3 DEF CachePod, SeeAgain, EnsureNothing, EnsureDeleted
<1>4. ASSUME NEW p \in Pods, EnsureCreate(p) PROVE GroupOf(p) = g /\ group[g] = NoGroup
  BY <1>4, GroupOfType DEF EnsureCreate, TypeOK
<1>5. ASSUME NEW h \in Groups, CacheGroup(h) \/ Begin(h) PROVE group' = group
  BY <1>5 DEF CacheGroup, Begin, apiVars
<1>6. ASSUME NEW h \in Groups, StatusUpdate(h) PROVE h = g
  BY <1>6, StatusUpdateType
<1>7. ASSUME NEW h \in Groups, Patch(h) PROVE h = g
  BY <1>7, PatchType
<1>8. ASSUME NEW h \in Groups, DeleteGroup(h) PROVE h = g
  BY <1>8 DEF DeleteGroup, TypeOK
<1>9. ASSUME ControllerRestart \/ UNCHANGED vars PROVE group' = group
  BY <1>9 DEF ControllerRestart, vars
<1> QED BY <1>1, <1>2, <1>3, <1>4, <1>5, <1>6, <1>7, <1>8, <1>9
        DEF Next, Ensure, Reconcile, ReconcileGone, ReconcileTime, ReconcileSize,
            ReconcileStatus, ReconcileOver

LEMMA NotInUse ==
    ASSUME NEW g, NEW v, v \notin InUse(g)
    PROVE  /\ cache[g] # NoGroup => cache[g].version # v
           /\ work[g] # Idle => work[g].pg.version # v
BY DEF InUse

Starts(g) == ReconcileTime(g) \/ ReconcileSize(g) \/ ReconcileStatus(g) \/ ReconcileOver(g)

(* What a step does to a cached group and to a reconcile. *)
LEMMA CacheChanges ==
    ASSUME [Next]_vars, NEW g \in Groups, cache'[g] # cache[g], TypeOK
    PROVE  cache'[g] = group[g] /\ group' = group
<1>1. ASSUME NEW p \in Pods, Create(p) \/ Run(p) \/ Finish(p) \/ Delete(p) PROVE cache' = cache
  BY <1>1 DEF Create, Run, Finish, Delete, SetPod
<1>2. ASSUME NEW p \in Pods, CachePod(p) \/ SeeAgain(p) \/ Ensure(p) PROVE cache' = cache
  BY <1>2 DEF CachePod, SeeAgain, Ensure, EnsureCreate, EnsureNothing, EnsureDeleted
<1>3. ASSUME NEW h \in Groups, UserCreate(h) \/ Reconcile(h) PROVE cache' = cache
  BY <1>3 DEF UserCreate, Reconcile, ReconcileGone, ReconcileTime, ReconcileSize,
              ReconcileStatus, ReconcileOver, Begin, StatusUpdate, Patch, DeleteGroup
<1>4. ASSUME NEW h \in Groups, CacheGroup(h) PROVE cache'[g] = group[g] /\ group' = group
  BY <1>4 DEF CacheGroup, TypeOK
<1>5. ASSUME ControllerRestart PROVE cache'[g] = group[g] /\ group' = group
  BY <1>5 DEF ControllerRestart
<1> QED BY <1>1, <1>2, <1>3, <1>4, <1>5 DEF Next, vars

LEMMA WorkChanges ==
    ASSUME [Next]_vars, NEW g \in Groups, work'[g] # work[g], TypeOK
    PROVE  Starts(g) \/ StatusUpdate(g) \/ work'[g] = Idle
<1>1. ASSUME NEW p \in Pods, Create(p) \/ Run(p) \/ Finish(p) \/ Delete(p) PROVE work' = work
  BY <1>1 DEF Create, Run, Finish, Delete, SetPod
<1>2. ASSUME NEW p \in Pods, CachePod(p) \/ SeeAgain(p) \/ Ensure(p) PROVE work' = work
  BY <1>2 DEF CachePod, SeeAgain, Ensure, EnsureCreate, EnsureNothing, EnsureDeleted
<1>3. ASSUME NEW h \in Groups, UserCreate(h) \/ CacheGroup(h) \/ ReconcileGone(h)
      PROVE  work' = work
  BY <1>3 DEF UserCreate, CacheGroup, ReconcileGone
<1>4. ASSUME NEW h \in Groups, Starts(h) PROVE h = g
  <2>1. PICK step \in {"status", "delete"}, pg \in PodGroup : cache[h] # NoGroup /\ Do(h, step, pg)
    BY <1>4, BeginType DEF Starts
  <2> QED BY <2>1, DoType
<1>5. ASSUME NEW h \in Groups, StatusUpdate(h) PROVE h = g
  BY <1>5, StatusUpdateType
<1>6. ASSUME NEW h \in Groups, Patch(h) \/ DeleteGroup(h) PROVE work'[g] = Idle
  BY <1>6 DEF Patch, DeleteGroup, TypeOK
<1>7. ASSUME ControllerRestart PROVE work'[g] = Idle
  BY <1>7 DEF ControllerRestart
<1> QED BY <1>1, <1>2, <1>3, <1>4, <1>5, <1>6, <1>7
        DEF Next, Reconcile, Starts, vars

(* A group that is created or changed gets a version that no copy has. *)
LEMMA ChangeIsNew ==
    ASSUME [Next]_vars, NEW g \in Groups, group'[g] # group[g], group'[g] # NoGroup, TypeOK
    PROVE  /\ group'[g].version \notin InUse(g) /\ cache'[g] = cache[g]
           /\ \/ work'[g] = work[g] \/ work'[g] = Idle
              \/ work'[g] # Idle /\ work'[g].step = "patch"
<1>1. CASE UserCreate(g)
  <2>1. group'[g] = NewGroup(g, 0)
    BY <1>1 DEF UserCreate, TypeOK
  <2> QED BY <1>1, <2>1, NewGroupType DEF UserCreate
<1>2. ASSUME NEW p \in Pods, GroupOf(p) = g, EnsureCreate(p)
      PROVE  /\ group'[g].version \notin InUse(g) /\ cache'[g] = cache[g]
             /\ work'[g] = work[g]
  <2>1. group'[g] = NewGroup(g, SizeOf[p]) /\ SizeOf[p] \in Nat
    BY <1>2, ControllerAssumption DEF EnsureCreate, TypeOK
  <2> QED BY <1>2, <2>1, NewGroupType DEF EnsureCreate
<1>3. CASE StatusUpdate(g)
  <2>1. group'[g].version \notin InUse(g) /\ work'[g] # Idle /\ work'[g].step = "patch"
    BY <1>3, StatusUpdateType
  <2> QED BY <1>3, <2>1 DEF StatusUpdate
<1>4. CASE Patch(g)
  <2>1. group'[g].version \notin InUse(g) /\ work'[g] = Idle
    BY <1>4, PatchType DEF TypeOK
  <2> QED BY <1>4, <2>1 DEF Patch
<1>5. CASE DeleteGroup(g)
  BY <1>5 DEF DeleteGroup, TypeOK
<1> QED BY <1>1, <1>2, <1>3, <1>4, <1>5, GroupChanges

LEMMA VersionedInit == Init => Versioned
BY DEF Init, Versioned

LEMMA VersionedNext == TypeOK /\ Versioned /\ [Next]_vars => Versioned'
<1> SUFFICES ASSUME TypeOK, Versioned, [Next]_vars, NEW g \in Groups, group'[g] # NoGroup
             PROVE  /\ cache'[g] # NoGroup /\ cache'[g].version = group'[g].version
                         => cache'[g] = group'[g]
                    /\ work'[g] # Idle /\ work'[g].step = "status"
                         /\ work'[g].pg.version = group'[g].version
                         => <<group'[g].phase, work'[g].pg.phase>> \in PhaseSteps
  BY DEF Versioned, Current
<1>1. CASE group'[g] # group[g]
  BY <1>1, ChangeIsNew, NotInUse
<1>2. CASE group'[g] = group[g]
  <2>1. cache'[g] # NoGroup /\ cache'[g].version = group'[g].version => cache'[g] = group'[g]
    BY <1>2, CacheChanges DEF Versioned
  <2>2. CASE work'[g] = work[g]
    BY <1>2, <2>1, <2>2 DEF Versioned, Current
  <2>3. CASE work'[g] = Idle
    BY <2>1, <2>3
  <2>4. CASE StatusUpdate(g)
    BY <2>1, <2>4, StatusUpdateType
  <2>5. CASE Starts(g)
    <3>1. PICK step \in {"status", "delete"}, pg \in PodGroup :
            /\ cache[g] # NoGroup /\ Do(g, step, pg)
            /\ pg.version = cache[g].version
            /\ step = "status" => <<cache[g].phase, pg.phase>> \in PhaseSteps
      BY <2>5, BeginType DEF Starts
    <3>2. work'[g].step = step /\ work'[g].pg = pg
      BY <3>1, DoType
    <3>3. cache[g].version = group[g].version => cache[g] = group[g]
      BY <1>2, <3>1 DEF Versioned
    <3> QED BY <1>2, <2>1, <3>1, <3>2, <3>3
  <2> QED BY <2>2, <2>3, <2>4, <2>5, WorkChanges
<1> QED BY <1>1, <1>2

LEMMA PhaseStep ==
    ASSUME TypeOK, Versioned, [Next]_vars, NEW g \in Groups,
           group[g] # NoGroup, group'[g] # NoGroup
    PROVE  <<group[g].phase, group'[g].phase>> \in PhaseSteps
<1>1. CASE group'[g].phase = group[g].phase
  <2>1. group[g].phase \in GroupPhases
    BY DEF TypeOK, PodGroup
  <2> QED BY <1>1, <2>1 DEF PhaseSteps
<1>2. CASE group'[g].phase # group[g].phase
  <2>1. StatusUpdate(g)
    BY <1>2, GroupChanges, PatchType DEF UserCreate, DeleteGroup, TypeOK
  <2>2. Current(g) /\ work[g] # Idle /\ work[g].step = "status"
        /\ group'[g].phase = work[g].pg.phase
    BY <1>2, <2>1, StatusUpdateType
  <2> QED BY <2>2 DEF Versioned
<1> QED BY <1>1, <1>2

(* The stored phase of a group moves along the group's life, although       *)
(* updateStatus works on an old copy and its refused updates are ignored:   *)
(* an update that is taken was made from the object that is stored.         *)
THEOREM PhasesInOrder == Spec => PhaseOrder
<1> DEFINE Inv == TypeOK /\ Versioned
<1>1. Init => Inv
  BY TypeInit, VersionedInit
<1>2. Inv /\ [Next]_vars => Inv'
  BY TypeNext, VersionedNext
<1>3. Inv /\ [Next]_vars =>
        [\A g \in Groups : group[g] # NoGroup /\ group'[g] # NoGroup =>
            <<group[g].phase, group'[g].phase>> \in PhaseSteps]_vars
  BY PhaseStep
<1> QED BY <1>1, <1>2, <1>3, PTL DEF Spec, PhaseOrder
=============================================================================
