------------------------- MODULE PodGroupLifeProofs -------------------------
(***************************************************************************)
(* Proofs about the sizes that PodGroupController stores and about the      *)
(* deletion of groups, up to the promise that the scheduler relies on:      *)
(* the controller implements GroupLifecycle.                                *)
(***************************************************************************)
EXTENDS PodGroupProofs

(* The group-size labels are numbers. *)
GoodSizes == \A p \in Pods : SizeOf[p] # BadSize

(* Pods with the same group label agree on the size, as the webhook sees to *)
(* for the pods of one object.                                              *)
UniformSizes == GoodSizes /\ \A p, q \in Pods : LabelOf[p] = LabelOf[q] => SizeOf[p] = SizeOf[q]

(* Users create PodGroups for pods that they create too. *)
GroupsHavePods == \A g \in Groups : \E p \in Pods : GroupOf(p) = g

(* No pod of another namespace has the group's label. *)
Unshared(g) == \A p \in Pods : LabelOf[p] = g[2] => NsOf[p] = g[1]

(* Every size is zero or on a label of the group's pods; a reconcile changes*)
(* only a size of zero.                                                     *)
LabelSizes(g) == {0} \cup {SizeOf[p] : p \in {q \in Pods : LabelOf[q] = g[2]}}

SizesFromLabels ==
    \A g \in Groups :
        /\ group[g] # NoGroup => group[g].size \in LabelSizes(g)
        /\ cache[g] # NoGroup => cache[g].size \in LabelSizes(g)
        /\ work[g] # Idle => /\ work[g].pg.size \in LabelSizes(g)
                             /\ work[g].read \in {0, work[g].pg.size}

(* Pods move forward only, so what the cache has seen of a pod stays true. *)
Since == [none |-> PodPhases, Pending |-> PodPhases \ {"none"},
          Running |-> PodPhases \ {"none", "Pending"},
          Succeeded |-> {"Succeeded", "gone"}, Failed |-> {"Failed", "gone"},
          gone |-> {"gone"}]

SeenHolds == \A p \in Pods : pod[p] \in Since[podCache[p]]

(* The pods with the group's label, in all namespaces, have ended as far as *)
(* GroupLifecycle asks for a group of the size.                             *)
Ended == {"Succeeded", "gone"}
Broken == {"Failed", "gone"}
Started == {"Succeeded", "Failed", "Running", "gone"}

EndedFor(g, size) ==
    \/ Cardinality(Life!Labelled(g, Ended)) >= size
    \/ /\ Life!Labelled(g, Broken) # {}
       /\ Cardinality(Life!Labelled(g, Started)) >= size

DeleteIsDue ==
    \A g \in Groups : work[g] # Idle /\ work[g].step = "delete" =>
        work[g].pg.size # 0 /\ EndedFor(g, work[g].pg.size)

-----------------------------------------------------------------------------
(* Sizes.                                                                   *)

LEMMA SizesInit == Init => SizesFromLabels
BY DEF Init, SizesFromLabels

LEMMA FoundOnLabels ==
    ASSUME GoodSizes, NEW g \in Groups, NEW size \in FoundSizes(PodList(g))
    PROVE  size \in LabelSizes(g)
BY DEF GoodSizes, FoundSizes, PodList, LabelSizes

LEMMA SizesNext == GoodSizes /\ TypeOK /\ SizesFromLabels /\ [Next]_vars => SizesFromLabels'
<1> SUFFICES ASSUME GoodSizes, TypeOK, SizesFromLabels, [Next]_vars, NEW g \in Groups
             PROVE  /\ group'[g] # NoGroup => group'[g].size \in LabelSizes(g)
                    /\ cache'[g] # NoGroup => cache'[g].size \in LabelSizes(g)
                    /\ work'[g] # Idle => /\ work'[g].pg.size \in LabelSizes(g)
                                          /\ work'[g].read \in {0, work'[g].pg.size}
  BY DEF SizesFromLabels, LabelSizes
<1>1. group'[g] # NoGroup => group'[g].size \in LabelSizes(g)
  <2>1. CASE group'[g] = group[g]
    BY <2>1 DEF SizesFromLabels
  <2>2. CASE UserCreate(g)
    <3>1. group'[g] = NewGroup(g, 0)
      BY <2>2 DEF UserCreate, TypeOK
    <3> QED BY <3>1, NewGroupType DEF LabelSizes
  <2>3. ASSUME NEW p \in Pods, GroupOf(p) = g, EnsureCreate(p), group[g] = NoGroup,
               group'[g] # group[g]
        PROVE  group'[g].size \in LabelSizes(g)
    <3>1. group'[g] = NewGroup(g, SizeOf[p]) /\ SizeOf[p] \in Nat
      BY <2>3, ControllerAssumption DEF EnsureCreate, TypeOK
    <3>2. group'[g].size = SizeOf[p] /\ LabelOf[p] = g[2]
      BY <2>3, <3>1, NewGroupType DEF GroupOf
    <3> QED BY <3>2 DEF LabelSizes
  <2>4. CASE StatusUpdate(g)
    BY <2>4, StatusUpdateType DEF Current, SizesFromLabels
  <2>5. CASE Patch(g)
    BY <2>5, PatchType DEF SizesFromLabels
  <2>6. CASE DeleteGroup(g)
    BY <2>6 DEF DeleteGroup, TypeOK, SizesFromLabels
  <2> QED BY <2>1, <2>2, <2>3, <2>4, <2>5, <2>6, GroupChanges
<1>2. cache'[g] # NoGroup => cache'[g].size \in LabelSizes(g)
  BY CacheChanges DEF SizesFromLabels
<1>3. work'[g] # Idle => /\ work'[g].pg.size \in LabelSizes(g)
                         /\ work'[g].read \in {0, work'[g].pg.size}
  <2>1. CASE work'[g] = work[g]
    BY <2>1 DEF SizesFromLabels
  <2>2. CASE StatusUpdate(g)
    BY <2>2, StatusUpdateType DEF SizesFromLabels
  <2>3. CASE Starts(g)
    <3>1. PICK step \in {"status", "delete"}, pg \in PodGroup :
            /\ cache[g] # NoGroup /\ Do(g, step, pg)
            /\ \/ pg.size = cache[g].size
               \/ cache[g].size = 0 /\ pg.size \in FoundSizes(PodList(g))
      BY <2>3, BeginType DEF Starts
    <3>2. work'[g].pg = pg /\ work'[g].read = cache[g].size
      BY <3>1, DoType
    <3> QED BY <3>1, <3>2, FoundOnLabels DEF SizesFromLabels
  <2> QED BY <2>1, <2>2, <2>3, WorkChanges
<1> QED BY <1>1, <1>2, <1>3

LEMMA SizeStep ==
    ASSUME UniformSizes, TypeOK, SizesFromLabels, [Next]_vars, NEW g \in Groups,
           group[g] # NoGroup, group'[g] # NoGroup, group[g].size # 0
    PROVE  group'[g].size = group[g].size
<1> SUFFICES ASSUME group'[g].size # group[g].size PROVE FALSE
  OBVIOUS
<1>1. Patch(g)
  BY GroupChanges, StatusUpdateType DEF UserCreate, DeleteGroup, TypeOK
<1>2. /\ work[g] # Idle /\ group'[g].size = work[g].pg.size
      /\ work[g].pg.size # work[g].read
  BY <1>1, PatchType
<1>3. /\ work[g].pg.size # 0
      /\ work[g].pg.size \in LabelSizes(g) /\ group[g].size \in LabelSizes(g)
  BY <1>2 DEF SizesFromLabels
<1> QED BY <1>2, <1>3 DEF LabelSizes, UniformSizes

(* A group's size is set once for all pods and interleavings, although the  *)
(* patch that sets it carries no version: two reconciles that both found    *)
(* minMember unset write the same number, when the labels agree.            *)
THEOREM SizeIsSetOnce == UniformSizes => (Spec => SizeSetOnce)
<1> SUFFICES ASSUME UniformSizes PROVE Spec => SizeSetOnce
  OBVIOUS
<1> DEFINE Inv == TypeOK /\ SizesFromLabels
<1>1. Init => Inv
  BY TypeInit, SizesInit
<1>2. Inv /\ [Next]_vars => Inv'
  BY TypeNext, SizesNext DEF UniformSizes
<1>3. Inv /\ [Next]_vars =>
        [\A g \in Groups : group[g] # NoGroup /\ group'[g] # NoGroup /\ group[g].size # 0 =>
            group'[g].size = group[g].size]_vars
  BY SizeStep
<1> QED BY <1>1, <1>2, <1>3, PTL DEF Spec, SizeSetOnce

-----------------------------------------------------------------------------
(* Deletions.                                                               *)

(* Pods move forward only. *)
LEMMA PodsMoveOn ==
    ASSUME TypeOK, [Next]_vars, NEW p \in Pods
    PROVE  /\ pod'[p] \in PodPhases
           /\ pod'[p] # pod[p] =>
                \/ pod[p] = "none" /\ pod'[p] = "Pending"
                \/ pod[p] = "Pending" /\ pod'[p] = "Running"
                \/ pod[p] = "Running" /\ pod'[p] \in {"Succeeded", "Failed"}
                \/ pod[p] \in Listed /\ pod'[p] = "gone"
<1>1. pod' \in [Pods -> PodPhases]
  BY TypeNext DEF TypeOK
<1>2. CASE pod' = pod
  BY <1>1, <1>2
<1>3. ASSUME NEW q \in Pods, Create(q) \/ Run(q) \/ Finish(q) \/ Delete(q)
      PROVE  pod'[p] # pod[p] =>
                \/ pod[p] = "none" /\ pod'[p] = "Pending"
                \/ pod[p] = "Pending" /\ pod'[p] = "Running"
                \/ pod[p] = "Running" /\ pod'[p] \in {"Succeeded", "Failed"}
                \/ pod[p] \in Listed /\ pod'[p] = "gone"
  BY <1>3 DEF Create, Run, Finish, Delete, SetPod, TypeOK
<1>4. CASE \E q \in Pods : CachePod(q) \/ SeeAgain(q) \/ Ensure(q)
  BY <1>2, <1>4 DEF CachePod, SeeAgain, Ensure, EnsureCreate, EnsureNothing, EnsureDeleted
<1>5. CASE \E g \in Groups : UserCreate(g) \/ CacheGroup(g) \/ Reconcile(g)
  BY <1>2, <1>5 DEF UserCreate, CacheGroup, Reconcile, ReconcileGone, ReconcileTime,
                    ReconcileSize, ReconcileStatus, ReconcileOver, Begin, apiVars,
                    StatusUpdate, Patch, DeleteGroup
<1>6. CASE ControllerRestart \/ UNCHANGED vars
  BY <1>2, <1>6 DEF ControllerRestart, vars
<1> QED BY <1>1, <1>3, <1>4, <1>5, <1>6 DEF Next

LEMMA PodCacheChanges ==
    ASSUME TypeOK, [Next]_vars, NEW p \in Pods, podCache'[p] # podCache[p]
    PROVE  podCache'[p] = pod[p] /\ pod' = pod
<1>1. CASE \E q \in Pods : Create(q) \/ Run(q) \/ Finish(q) \/ Delete(q)
  BY <1>1 DEF Create, Run, Finish, Delete, SetPod
<1>2. CASE \E q \in Pods : SeeAgain(q) \/ Ensure(q)
  BY <1>2 DEF SeeAgain, Ensure, EnsureCreate, EnsureNothing, EnsureDeleted
<1>3. CASE \E q \in Pods : CachePod(q)
  BY <1>3 DEF CachePod, TypeOK
<1>4. CASE \E g \in Groups : UserCreate(g) \/ CacheGroup(g) \/ Reconcile(g)
  BY <1>4 DEF UserCreate, CacheGroup, Reconcile, ReconcileGone, ReconcileTime,
              ReconcileSize, ReconcileStatus, ReconcileOver, Begin, apiVars,
              StatusUpdate, Patch, DeleteGroup
<1>5. CASE ControllerRestart \/ UNCHANGED vars
  BY <1>5 DEF ControllerRestart, vars
<1> QED BY <1>1, <1>2, <1>3, <1>4, <1>5 DEF Next

LEMMA SeenInit == Init => SeenHolds
BY DEF Init, SeenHolds, Since, PodPhases

LEMMA SeenNext == TypeOK /\ SeenHolds /\ [Next]_vars => SeenHolds'
<1> SUFFICES ASSUME TypeOK, SeenHolds, [Next]_vars, NEW p \in Pods
             PROVE  pod'[p] \in Since[podCache'[p]]
  BY DEF SeenHolds, Since, PodPhases
<1>1. pod[p] \in PodPhases /\ podCache[p] \in PodPhases /\ pod[p] \in Since[podCache[p]]
  BY DEF TypeOK, SeenHolds
<1>2. CASE podCache'[p] # podCache[p]
  BY <1>1, <1>2, PodCacheChanges DEF Since, PodPhases, Listed
<1>3. CASE podCache'[p] = podCache[p]
  BY <1>1, <1>3, PodsMoveOn DEF Since, PodPhases, Listed
<1> QED BY <1>2, <1>3

LEMMA LabelledCount ==
    ASSUME NEW g, NEW phases
    PROVE  /\ Life!Labelled(g, phases) \in SUBSET Pods
           /\ IsFiniteSet(Life!Labelled(g, phases))
           /\ Cardinality(Life!Labelled(g, phases)) \in Nat
<1>1. Life!Labelled(g, phases) \in SUBSET Pods
  BY DEF Life!Labelled
<1> QED BY <1>1, PodsCount

LEMMA SubsetCount ==
    ASSUME NEW S \in SUBSET Pods, NEW T \in SUBSET S
    PROVE  Cardinality(T) \in Nat /\ Cardinality(S) \in Nat /\ Cardinality(T) <= Cardinality(S)
BY PodsCount, FS_Subset

LEMMA DisjointCount ==
    ASSUME NEW S, NEW T, IsFiniteSet(S), IsFiniteSet(T), S \cap T = {}
    PROVE  IsFiniteSet(S \cup T) /\ Cardinality(S \cup T) = Cardinality(S) + Cardinality(T)
<1>1. /\ IsFiniteSet(S \cup T)
      /\ Cardinality(S \cup T) = Cardinality(S) + Cardinality(T) - Cardinality(S \cap T)
  BY FS_Union
<1>2. Cardinality(S \cap T) = 0
  BY FS_EmptySet
<1>3. Cardinality(S) \in Nat /\ Cardinality(T) \in Nat
  BY FS_CardinalityType
<1> QED BY <1>1, <1>2, <1>3

(* Once the pods have ended for a size they stay so. *)
LEMMA EndedStays ==
    ASSUME TypeOK, [Next]_vars, NEW g \in Groups, NEW size \in Nat, EndedFor(g, size)
    PROVE  EndedFor(g, size)'
<1>1. ASSUME NEW phases \in {Ended, Broken, Started}
      PROVE  /\ Life!Labelled(g, phases) \subseteq Life!Labelled(g, phases)'
             /\ Cardinality(Life!Labelled(g, phases)) \in Nat
             /\ Cardinality(Life!Labelled(g, phases)') \in Nat
             /\ Cardinality(Life!Labelled(g, phases)) <= Cardinality(Life!Labelled(g, phases)')
  <2>1. ASSUME NEW p \in Pods, pod[p] \in phases PROVE pod'[p] \in phases
    BY <2>1, PodsMoveOn DEF Ended, Broken, Started, Listed
  <2> DEFINE S == {p \in Pods : LabelOf[p] = g[2] /\ pod[p] \in phases}
             T == {p \in Pods : LabelOf[p] = g[2] /\ pod'[p] \in phases}
  <2>2. S \subseteq T /\ T \in SUBSET Pods
    BY <2>1
  <2>3. Life!Labelled(g, phases) = S /\ Life!Labelled(g, phases)' = T
    BY DEF Life!Labelled, Ended, Broken, Started
  <2> HIDE DEF S, T
  <2>4. Cardinality(S) \in Nat /\ Cardinality(T) \in Nat /\ Cardinality(S) <= Cardinality(T)
    BY <2>2, SubsetCount
  <2> QED BY <2>2, <2>3, <2>4
<1> QED BY <1>1 DEF EndedFor, Ended, Broken, Started

(* updateStatus counts what the cache has seen: enough for Finished or      *)
(* Failed is enough still.                                                  *)
LEMMA OverIsEnded ==
    ASSUME TypeOK, SeenHolds, NEW g \in Groups, NEW pg \in PodGroup,
           UpdatedStatus(pg, PodList(g)).phase \in Over
    PROVE  EndedFor(g, pg.size)
<1> DEFINE L == PodList(g)
           seen(phase) == {p \in L : podCache[p] = phase}
           R == seen("Running")
           S == seen("Succeeded")
           F == seen("Failed")
           c == Stats(L)
<1>1. pg.size \in Nat /\ pg.phase \in GroupPhases
  BY DEF PodGroup
<1>2. PhaseFor(pg.size, c) \in Over
  <2> HIDE DEF c
  <2>1. pg.phase \notin {"", "Pending"}
    BY DEF UpdatedStatus, PodGroup, Over
  <2>2. ~(Cardinality(L) < pg.size)
    BY <2>1 DEF UpdatedStatus, PodGroup, Over
  <2>3. UpdatedStatus(pg, L) = [pg EXCEPT !.phase = PhaseFor(pg.size, c), !.counts = c]
    BY <2>1, <2>2 DEF UpdatedStatus, c
  <2> DEFINE ph == PhaseFor(pg.size, c)
  <2> HIDE DEF ph
  <2>4. [pg EXCEPT !.phase = ph, !.counts = c].phase = ph
    BY DEF PodGroup
  <2> QED BY <2>3, <2>4 DEF ph
<1>3. c[1] = Cardinality(R) /\ c[2] = Cardinality(S) /\ c[3] = Cardinality(F)
  BY DEF Stats, In
<1>4. /\ S \subseteq Life!Labelled(g, Ended) /\ F \subseteq Life!Labelled(g, Broken)
      /\ (R \cup S) \cup F \subseteq Life!Labelled(g, Started)
  <2>1. ASSUME NEW p \in L, podCache[p] \in {"Running", "Succeeded", "Failed"}
        PROVE  /\ p \in Pods /\ LabelOf[p] = g[2] /\ pod[p] \in Started
               /\ podCache[p] = "Succeeded" => pod[p] \in Ended
               /\ podCache[p] = "Failed" => pod[p] \in Broken
    BY <2>1 DEF PodList, SeenHolds, Since, PodPhases, Listed, Started, Ended, Broken
  <2> QED BY <2>1 DEF Life!Labelled
<1>5. /\ IsFiniteSet(R) /\ IsFiniteSet(S) /\ IsFiniteSet(F)
      /\ Cardinality(R) \in Nat /\ Cardinality(S) \in Nat /\ Cardinality(F) \in Nat
  BY PodsCount DEF PodList
<1>6. Cardinality((R \cup S) \cup F) = Cardinality(R) + Cardinality(S) + Cardinality(F)
  <2>1. R \cap S = {} /\ (R \cup S) \cap F = {}
    OBVIOUS
  <2> HIDE DEF R, S, F
  <2>2. IsFiniteSet(R \cup S) /\ Cardinality(R \cup S) = Cardinality(R) + Cardinality(S)
    BY <1>5, <2>1, DisjointCount
  <2>3. Cardinality((R \cup S) \cup F) = Cardinality(R \cup S) + Cardinality(F)
    BY <1>5, <2>1, <2>2, DisjointCount
  <2> QED BY <2>2, <2>3
<1>7. Cardinality(F) # 0 => F # {}
  BY FS_EmptySet
<1> HIDE DEF R, S, F, c
<1>8. \/ Cardinality(S) >= pg.size
      \/ F # {} /\ Cardinality((R \cup S) \cup F) >= pg.size
  BY <1>1, <1>2, <1>3, <1>5, <1>6, <1>7 DEF PhaseFor, Over
<1>9. /\ Cardinality(S) <= Cardinality(Life!Labelled(g, Ended))
      /\ Cardinality((R \cup S) \cup F) <= Cardinality(Life!Labelled(g, Started))
      /\ Cardinality((R \cup S) \cup F) \in Nat
      /\ Cardinality(Life!Labelled(g, Ended)) \in Nat
      /\ Cardinality(Life!Labelled(g, Started)) \in Nat
  BY <1>4, LabelledCount, SubsetCount
<1> QED BY <1>1, <1>4, <1>5, <1>8, <1>9 DEF EndedFor

LEMMA DueInit == Init => DeleteIsDue
BY DEF Init, DeleteIsDue

LEMMA DueNext == TypeOK /\ SeenHolds /\ DeleteIsDue /\ [Next]_vars => DeleteIsDue'
<1> SUFFICES ASSUME TypeOK, SeenHolds, DeleteIsDue, [Next]_vars, NEW g \in Groups,
                    work'[g] # Idle, work'[g].step = "delete"
             PROVE  (work[g].pg.size # 0 /\ EndedFor(g, work[g].pg.size))'
  BY DEF DeleteIsDue
<1>1. /\ work'[g].pg.size \in Nat /\ work'[g].pg.size # 0
      /\ EndedFor(g, work'[g].pg.size)
  <2>1. CASE work'[g] = work[g]
    BY <2>1, WorkType DEF DeleteIsDue, PodGroup
  <2>2. CASE Starts(g)
    <3>1. PICK step \in {"status", "delete"}, pg \in PodGroup :
            /\ cache[g] # NoGroup /\ Do(g, step, pg)
            /\ step = "delete" => /\ pg = cache[g] /\ pg.size # 0
                                  /\ UpdatedStatus(pg, PodList(g)).phase \in Over
      BY <2>2, BeginType DEF Starts
    <3>2. step = "delete" /\ work'[g].pg = pg
      BY <3>1, DoType
    <3>3. EndedFor(g, pg.size)
      BY <3>1, <3>2, OverIsEnded
    <3> QED BY <3>1, <3>2, <3>3 DEF PodGroup
  <2>3. CASE StatusUpdate(g)
    BY <2>3, StatusUpdateType
  <2> QED BY <2>1, <2>2, <2>3, WorkChanges
<1>2. PICK size \in Nat : size = work'[g].pg.size
  BY <1>1
<1>3. EndedFor(g, size)
  BY <1>1, <1>2
<1>4. EndedFor(g, size)'
  BY <1>3, EndedStays
<1> QED BY <1>1, <1>2, <1>4 DEF EndedFor

DeleteInv == TypeOK /\ SeenHolds /\ DeleteIsDue

LEMMA DeleteInvariant == Spec => []DeleteInv
<1>1. Init => DeleteInv
  BY TypeInit, SeenInit, DueInit DEF DeleteInv
<1>2. DeleteInv /\ [Next]_vars => DeleteInv'
  BY TypeNext, SeenNext, DueNext DEF DeleteInv
<1> QED BY <1>1, <1>2, PTL DEF Spec

LEMMA DeleteStep ==
    ASSUME DeleteInv, [Next]_vars, NEW g \in Groups, group[g] # NoGroup, group'[g] = NoGroup
    PROVE  /\ DeleteGroup(g) /\ work[g] # Idle
           /\ work[g].pg.size \in Nat /\ work[g].pg.size # 0
           /\ EndedFor(g, work[g].pg.size)
<1>1. TypeOK
  BY DEF DeleteInv
<1>2. DeleteGroup(g)
  BY <1>1, GroupChanges, StatusUpdateType, PatchType DEF UserCreate
<1>3. work[g] # Idle /\ work[g].step = "delete"
  BY <1>2 DEF DeleteGroup
<1> QED BY <1>1, <1>2, <1>3, WorkType DEF DeleteInv, DeleteIsDue, PodGroup

LEMMA EndedHasBegun ==
    ASSUME NEW g \in Groups, Unshared(g), NEW size \in Nat, EndedFor(g, size)
    PROVE  Cardinality(Begun(g)) >= size
<1>1. g = <<g[1], g[2]>>
  BY DEF Groups
<1>2. \A p \in Pods : LabelOf[p] = g[2] => GroupOf(p) = g
  BY <1>1 DEF Unshared, GroupOf
<1>3. /\ Life!Labelled(g, Ended) \subseteq Begun(g)
      /\ Life!Labelled(g, Started) \subseteq Begun(g)
  BY <1>2 DEF Life!Labelled, Begun, Ended, Started
<1>4. Begun(g) \in SUBSET Pods
  BY DEF Begun
<1>5. /\ Cardinality(Begun(g)) \in Nat
      /\ Cardinality(Life!Labelled(g, Ended)) \in Nat
      /\ Cardinality(Life!Labelled(g, Started)) \in Nat
      /\ Cardinality(Life!Labelled(g, Ended)) <= Cardinality(Begun(g))
      /\ Cardinality(Life!Labelled(g, Started)) <= Cardinality(Begun(g))
  BY <1>3, <1>4, SubsetCount
<1> QED BY <1>5 DEF EndedFor

(* A group whose label no pod of another namespace has is deleted only after*)
(* minMember of its own pods have started, although the delete goes by name *)
(* and was decided from old copies of the group and of the pods: what was   *)
(* true of the pods when Reconcile counted them stays true.                 *)
THEOREM UnsharedGroupsDeletedWhenBegun ==
    Spec => [][\A g \in Groups : Unshared(g) /\ group[g] # NoGroup /\ group'[g] = NoGroup =>
                  Cardinality(Begun(g)) >= work[g].pg.size]_vars
<1>1. DeleteInv /\ [Next]_vars =>
        [\A g \in Groups : Unshared(g) /\ group[g] # NoGroup /\ group'[g] = NoGroup =>
            Cardinality(Begun(g)) >= work[g].pg.size]_vars
  <2> SUFFICES ASSUME DeleteInv, [Next]_vars, NEW g \in Groups, Unshared(g),
                      group[g] # NoGroup, group'[g] = NoGroup
               PROVE  Cardinality(Begun(g)) >= work[g].pg.size
    OBVIOUS
  <2>1. PICK size \in Nat : size = work[g].pg.size
    BY DeleteStep
  <2>2. EndedFor(g, size)
    BY <2>1, DeleteStep
  <2> QED BY <2>1, <2>2, EndedHasBegun
<1> QED BY <1>1, DeleteInvariant, PTL DEF Spec

(* So the property that the runs check holds when labels are not shared     *)
(* between namespaces; run podgroup_namespaces shows what happens when they *)
(* are.                                                                     *)
THEOREM DeletedWhenBegun == (\A g \in Groups : Unshared(g)) => (Spec => DeletedOnlyWhenBegun)
<1> SUFFICES ASSUME \A g \in Groups : Unshared(g) PROVE Spec => DeletedOnlyWhenBegun
  OBVIOUS
<1>1. [\A g \in Groups : Unshared(g) /\ group[g] # NoGroup /\ group'[g] = NoGroup =>
            Cardinality(Begun(g)) >= work[g].pg.size]_vars
        => [\A g \in Groups : group[g] # NoGroup /\ group'[g] = NoGroup =>
                Cardinality(Begun(g)) >= work[g].pg.size]_vars
  OBVIOUS
<1> QED BY <1>1, UnsharedGroupsDeletedWhenBegun, PTL DEF DeletedOnlyWhenBegun

-----------------------------------------------------------------------------
(* The controller implements GroupLifecycle.                                *)

(* GroupLifecycle counts with its own instance of FiniteSets. *)
LEMMA SameCardinality == \A S : Life!Cardinality(S) = Cardinality(S)
BY DEF Life!Cardinality, Cardinality

LEMMA MinMemberIsSize ==
    ASSUME UniformSizes, GroupsHavePods, NEW g \in Groups,
           NEW size \in LabelSizes(g), size # 0
    PROVE  MinMember[g] = size
<1> DEFINE own == {p \in Pods : GroupOf(p) = g}
           q == CHOOSE p \in own : TRUE
<1>1. own # {}
  BY DEF GroupsHavePods
<1>2. q \in own
  BY <1>1
<1>3. MinMember[g] = SizeOf[q]
  BY <1>1 DEF MinMember
<1>4. LabelOf[q] = g[2] /\ q \in Pods
  BY <1>2 DEF GroupOf
<1>5. PICK p \in Pods : LabelOf[p] = g[2] /\ SizeOf[p] = size
  BY DEF LabelSizes
<1> HIDE DEF q, own
<1> QED BY <1>3, <1>4, <1>5 DEF UniformSizes

LEMMA LifeStep ==
    ASSUME UniformSizes, GroupsHavePods, DeleteInv, SizesFromLabels, [Next]_vars
    PROVE  [Life!Next]_storedGroups
<1>0. TypeOK
  BY DEF DeleteInv
<1> SUFFICES ASSUME storedGroups' # storedGroups PROVE Life!Next
  BY DEF Life!Next
<1>1. PICK g \in Groups : (group[g] = NoGroup) # (group'[g] = NoGroup)
  BY DEF storedGroups
<1>2. \A h \in Groups : h # g => group'[h] = group[h]
  <2>1. CASE UserCreate(g) \/ DeleteGroup(g)
    BY <1>0, <2>1 DEF UserCreate, DeleteGroup, TypeOK
  <2>2. CASE \E p \in Pods : GroupOf(p) = g /\ EnsureCreate(p)
    BY <1>0, <2>2, GroupOfType DEF EnsureCreate, TypeOK
  <2>3. CASE StatusUpdate(g)
    BY <1>0, <2>3, StatusUpdateType
  <2>4. CASE Patch(g)
    BY <1>0, <2>4, PatchType
  <2> QED BY <1>0, <1>1, <2>1, <2>2, <2>3, <2>4, GroupChanges
<1>3. CASE group[g] = NoGroup
  <2>1. g \notin storedGroups /\ storedGroups' = storedGroups \cup {g}
    BY <1>1, <1>2, <1>3 DEF storedGroups
  <2>2. \E p \in Pods : <<NsOf[p], LabelOf[p]>> = g
    BY DEF GroupsHavePods, GroupOf
  <2> QED BY <2>1, <2>2 DEF Life!Next, Life!Create
<1>4. CASE group[g] # NoGroup
  <2>1. g \in storedGroups /\ storedGroups' = storedGroups \ {g}
    BY <1>1, <1>2, <1>4 DEF storedGroups
  <2>2. work[g].pg.size # 0 /\ work[g].pg.size \in LabelSizes(g)
        /\ EndedFor(g, work[g].pg.size)
    BY <1>1, <1>4, DeleteStep DEF SizesFromLabels
  <2>3. PICK size \in LabelSizes(g) : size = work[g].pg.size
    BY <2>2
  <2>4. MinMember[g] = size
    BY <2>2, <2>3, MinMemberIsSize
  <2>5. EndedFor(g, MinMember[g])
    BY <2>2, <2>3, <2>4
  <2>6. Started = Life!Terminal \cup {"Running", "gone"}
    BY DEF Started, Life!Terminal
  <2>7. \/ Cardinality(Life!Labelled(g, {"Succeeded", "gone"})) >= MinMember[g]
        \/ /\ Life!Labelled(g, {"Failed", "gone"}) # {}
           /\ Cardinality(Life!Labelled(g, Life!Terminal \cup {"Running", "gone"})) >= MinMember[g]
    BY <2>5, <2>6 DEF EndedFor, Ended, Broken
  <2>8. Life!Finish(g)
    BY <2>1, <2>7, SameCardinality DEF Life!Finish
  <2> QED BY <2>8 DEF Life!Next
<1> QED BY <1>3, <1>4

(* Seen through the stored PodGroups the controller is GroupLifecycle, the  *)
(* specification that the scheduler's module uses, with stale caches, failed*)
(* calls, deleted pods and restarts: a group goes only when as many pods as *)
(* the labels say have succeeded, or have begun and one has failed.         *)
THEOREM ImplementsGroupLifecycle ==
    UniformSizes /\ GroupsHavePods => (Spec => FollowsLifecycle)
<1> SUFFICES ASSUME UniformSizes, GroupsHavePods PROVE Spec => FollowsLifecycle
  OBVIOUS
<1>1. Init => Life!Init
  BY DEF Init, Life!Init, storedGroups
<1>2. Init => TypeOK /\ SizesFromLabels
  BY TypeInit, SizesInit
<1>3. TypeOK /\ SizesFromLabels /\ [Next]_vars => (TypeOK /\ SizesFromLabels)'
  BY TypeNext, SizesNext DEF UniformSizes
<1>4. DeleteInv /\ SizesFromLabels /\ [Next]_vars => [Life!Next]_storedGroups
  BY LifeStep
<1> QED BY <1>1, <1>2, <1>3, <1>4, DeleteInvariant, PTL
        DEF Spec, FollowsLifecycle, Life!Spec
=============================================================================
