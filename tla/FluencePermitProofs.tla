------------------------ MODULE FluencePermitProofs ------------------------
(***************************************************************************)
(* Proofs about the gang at PreFilter and Permit, for any number of pods,   *)
(* groups and nodes: what PreFilter indexes, who waits, and who comes first.*)
(***************************************************************************)
EXTENDS FluenceProofs, QueueOrder

(* The snapshot of the cycle is old, but only pods have left since: every   *)
(* pod that has a node, but the one being scheduled, is in it.              *)
SnapCovers ==
    pc # "idle" => \A q \in Pods : place[q] # NoNode /\ q # cur => q \in snap

WaitersHaveGroup == \A p \in Pods : bind[p] = "waiting" => HasGroup(p)

WaitInv == SnapCovers /\ WaitersHaveGroup /\ NoStrandedWaiter

(* The pods that NoStrandedWaiter counts. *)
Counted(p) == {q \in Assigned \cap Members(p) :
                  ~(pc \in {"permit", "undo"} /\ q = cur)}

LEMMA SubsetCount ==
    ASSUME NEW S \in SUBSET Pods, NEW T \in SUBSET S
    PROVE  Cardinality(S) \in Nat /\ Cardinality(T) \in Nat /\ Cardinality(T) <= Cardinality(S)
<1>1. IsFiniteSet(S) /\ IsFiniteSet(T)
  BY PodsAssumption, FS_Subset
<1> QED BY <1>1, FS_Subset, FS_CardinalityType

LEMMA OneMoreCount ==
    ASSUME NEW S \in SUBSET Pods, NEW x
    PROVE  Cardinality(S \cup {x}) \in Nat /\ Cardinality(S \cup {x}) <= Cardinality(S) + 1
<1>1. IsFiniteSet(S) /\ Cardinality(S) \in Nat
  BY PodsAssumption, FS_Subset, FS_CardinalityType
<1>2. Cardinality(S \cup {x}) = IF x \in S THEN Cardinality(S) ELSE Cardinality(S) + 1
  BY <1>1, FS_AddElement
<1> QED BY <1>1, <1>2

(* Steps after which nobody new waits, nobody new has a node, and the pod   *)
(* in Permit is not left behind with one.                                   *)
NobodyJoins ==
    /\ \A q \in Pods : bind'[q] = "waiting" => bind[q] = "waiting"
    /\ \A q \in Pods : place'[q] # NoNode => place[q] # NoNode
    /\ \/ UNCHANGED <<pc, cur>>
       \/ pc \notin {"permit", "undo"}
       \/ pc = "permit" /\ pc' = "undo" /\ cur' = cur
       \/ pc = "undo" /\ place'[cur] = NoNode
    /\ \/ UNCHANGED <<pc, cur, snap>>
       \/ pc # "idle" /\ UNCHANGED <<cur, snap>>
       \/ pc' = "idle"

(* A pod that waited before still waits for a gang that is not complete,    *)
(* when no pod of its group was added to the count.                         *)
LEMMA FewerCounted ==
    ASSUME WaitInv, NEW p \in Pods, bind[p] = "waiting",
           \A q \in Pods : q \in Counted(p)' => q \in Counted(p)
    PROVE  Cardinality(Counted(p)') < MinMember[GroupOf(p)]
<1>1. Counted(p) \in SUBSET Pods /\ Counted(p)' \in SUBSET Counted(p)
  <2>1. Counted(p)' \subseteq Pods
    BY DEF Counted, Assigned
  <2> QED BY <2>1 DEF Counted, Assigned
<1>2. Cardinality(Counted(p)) < MinMember[GroupOf(p)]
  BY DEF WaitInv, NoStrandedWaiter, Counted
<1>3. Cardinality(Counted(p)') <= Cardinality(Counted(p))
      /\ Cardinality(Counted(p)) \in Nat /\ Cardinality(Counted(p)') \in Nat
  BY <1>1, SubsetCount
<1>4. MinMember[GroupOf(p)] \in Nat
  BY MinMemberAssumption, GroupOfType DEF WaitInv, WaitersHaveGroup
<1> QED BY <1>2, <1>3, <1>4

LEMMA NobodyJoinsKeeps ==
    ASSUME TypeInv, WaitInv, NobodyJoins PROVE WaitInv'
<1>1. SnapCovers'
  BY DEF WaitInv, SnapCovers, NobodyJoins
<1>2. WaitersHaveGroup'
  BY DEF WaitInv, WaitersHaveGroup, NobodyJoins, HasGroup
<1>3. NoStrandedWaiter'
  <2> SUFFICES ASSUME NEW p \in Pods, bind'[p] = "waiting"
               PROVE  Cardinality(Counted(p)') < MinMember[GroupOf(p)]
    BY DEF NoStrandedWaiter, Counted, GroupOf
  <2>1. ASSUME NEW q \in Pods, q \in Counted(p)' PROVE q \in Counted(p)
    <3>1. place'[q] # NoNode /\ q \in Members(p)
      BY <2>1 DEF Counted, Assigned, Members
    <3>2. ~(pc' \in {"permit", "undo"} /\ q = cur')
      BY <2>1 DEF Counted
    <3>3. ~(pc \in {"permit", "undo"} /\ q = cur)
      BY <3>1, <3>2 DEF NobodyJoins
    <3> QED BY <3>1, <3>3 DEF NobodyJoins, Counted, Assigned
  <2>2. bind[p] = "waiting"
    BY DEF NobodyJoins
  <2> QED BY <2>1, <2>2, FewerCounted
<1> QED BY <1>1, <1>2, <1>3 DEF WaitInv

LEMMA NobodyJoinsSteps ==
    ASSUME TypeInv,
           \/ UNCHANGED vars
           \/ \E p \in Pods : Create(p) \/ Start(p) \/ Finish(p) \/ Delete(p)
           \/ \E g \in Groups : GroupCreate(g) \/ GroupFinish(g) \/ PermittedExpire(g)
           \/ \E p \in Pods : InformerStep(p) \/ BindStep(p) \/ WaitTimeout(p)
           \/ HandlerStep \/ PreFilterStep \/ AskStep
           \/ FilterFail \/ FilterRefused \/ PostFilterStep \/ PermitDeny
           \/ SidecarRestart
    PROVE  NobodyJoins
<1> USE DEF TypeInv, TypeOK, NobodyJoins, apiVars, informerVars, managerVars, cycleVars,
            frameworkVars, fluxionVars, Outside, vars, EndCycle
<1>1. CASE UNCHANGED vars
  BY <1>1
<1>2. CASE \E p \in Pods : Create(p) \/ Start(p) \/ Finish(p) \/ Delete(p)
  BY <1>2 DEF Create, Start, Finish, Delete
<1>3. CASE \E g \in Groups : GroupCreate(g) \/ GroupFinish(g) \/ PermittedExpire(g)
  BY <1>3 DEF GroupCreate, GroupFinish, PermittedExpire
<1>4. CASE \E p \in Pods : InformerStep(p)
  BY <1>4 DEF InformerStep, InformerAdd, InformerUpdate, InformerDelete
<1>5. CASE \E p \in Pods : BindPod(p) \/ BindMissing(p) \/ WaitTimeout(p)
  BY <1>5 DEF BindPod, BindMissing, WaitTimeout
<1>6. ASSUME NEW p \in Pods, Unreserve(p) PROVE NobodyJoins
  <2>1. \A q \in Pods : RejectWaiting(p)[q] = "waiting" => bind[q] = "waiting"
    BY DEF RejectWaiting
  <2>2. \A q \in Pods : bind'[q] = "waiting" => bind[q] = "waiting"
    <3>1. DOMAIN RejectWaiting(p) = Pods
      BY DEF RejectWaiting
    <3> QED BY <1>6, <2>1, <3>1 DEF Unreserve
  <2> QED BY <1>6, <2>2 DEF Unreserve
<1>7. ASSUME NEW p \in Pods, Forget(p) PROVE NobodyJoins
  BY <1>7 DEF Forget
<1>8. CASE HandlerStep
  BY <1>8 DEF HandlerStep, HandlerLookup, HandlerFree
<1>9. CASE PreFilterStep
  BY <1>9 DEF PreFilterStep, PreFilterAssigned, PreFilterSkip, PreFilterTooFew, PreFilterAsk
<1>10. CASE AskStep
  BY <1>10 DEF AskStep, AskCancel, AskMatch, AskNoMatch, AskRecord, ResizeCancel, Assign
<1>11. CASE FilterFail \/ FilterRefused \/ PostFilterKeep
  BY <1>11 DEF FilterFail, FilterRefused, PostFilterKeep
<1>12. CASE PostFilterReject
  BY <1>12 DEF PostFilterReject, RejectWaiting
<1>13. CASE PermitDeny \/ SidecarRestart
  BY <1>13 DEF PermitDeny, SidecarRestart
<1> QED
  BY <1>1, <1>2, <1>3, <1>4, <1>5, <1>6, <1>7, <1>8, <1>9, <1>10, <1>11, <1>12, <1>13
  DEF BindStep, PostFilterStep

(* FilterPass gives the current pod a node, but it is not counted before    *)
(* Permit has answered; ScheduleOne takes the snapshot.                     *)
LEMMA WaitPlace ==
    ASSUME TypeInv, WaitInv, FilterPass \/ \E p \in Pods : ScheduleOne(p)
    PROVE  WaitInv'
<1> USE DEF TypeInv, TypeOK, WaitInv
<1>1. CASE FilterPass
  <2>1. pc = "filter" /\ pc' = "permit" /\ UNCHANGED <<cur, snap, bind>>
        /\ \A q \in Pods : q # cur => place'[q] = place[q]
    BY <1>1 DEF FilterPass, cycleVars
  <2>2. SnapCovers' /\ WaitersHaveGroup'
    BY <2>1 DEF SnapCovers, WaitersHaveGroup, HasGroup
  <2>3. ASSUME NEW p \in Pods, bind'[p] = "waiting"
        PROVE  Cardinality(Counted(p)') < MinMember[GroupOf(p)]
    <3>1. \A q \in Pods : q \in Counted(p)' => q \in Counted(p)
      BY <2>1 DEF Counted, Assigned, Members
    <3> QED BY <2>1, <2>3, <3>1, FewerCounted
  <2> QED BY <2>2, <2>3 DEF NoStrandedWaiter, Counted, GroupOf
<1>2. CASE \E p \in Pods : ScheduleOne(p)
  <2>1. pc = "idle" /\ pc' = "prefilter" /\ snap' = Assigned /\ UNCHANGED <<place, bind>>
    BY <1>2 DEF ScheduleOne, frameworkVars
  <2>2. SnapCovers' /\ WaitersHaveGroup'
    BY <2>1 DEF SnapCovers, WaitersHaveGroup, HasGroup, Assigned
  <2>3. ASSUME NEW p \in Pods, bind'[p] = "waiting"
        PROVE  Cardinality(Counted(p)') < MinMember[GroupOf(p)]
    <3>1. \A q \in Pods : q \in Counted(p)' => q \in Counted(p)
      BY <2>1 DEF Counted, Assigned, Members
    <3> QED BY <2>1, <2>3, <3>1, FewerCounted
  <2> QED BY <2>2, <2>3 DEF NoStrandedWaiter, Counted, GroupOf
<1> QED BY <1>1, <1>2

(* Permit's answer is right although its snapshot is old: the pods assigned *)
(* now are among those of the snapshot, and the current one.                *)
LEMMA WaitPermit ==
    ASSUME TypeInv, WaitInv, PermitAllow \/ PermitWait
    PROVE  WaitInv'
<1> USE DEF TypeInv, TypeOK, WaitInv
<1>1. pc = "permit" /\ pc' = "idle" /\ cur \in Pods /\ place' = place
  BY DEF PermitAllow, PermitWait, EndCycle
<1>2. SnapCovers'
  BY <1>1 DEF SnapCovers
<1>3. WaitersHaveGroup'
  BY <1>1 DEF PermitAllow, PermitWait, WaitersHaveGroup, HasGroup, GroupFound
<1>4. ASSUME NEW p \in Pods, bind[p] = "waiting", cur \notin Members(p)
      PROVE  Cardinality(Counted(p)') < MinMember[GroupOf(p)]
  <2>1. \A q \in Pods : q \in Counted(p)' => q \in Counted(p)
    BY <1>1, <1>4 DEF Counted, Assigned, Members
  <2> QED BY <1>4, <2>1, FewerCounted
<1>5. CASE PermitAllow
  <2> SUFFICES ASSUME NEW p \in Pods, bind'[p] = "waiting"
               PROVE  Cardinality(Counted(p)') < MinMember[GroupOf(p)]
    BY <1>2, <1>3 DEF NoStrandedWaiter, Counted, GroupOf
  <2>1. bind[p] = "waiting" /\ ~(HasGroup(cur) /\ p \in Members(cur))
    BY <1>5 DEF PermitAllow
  <2>2. cur \notin Members(p)
    BY <1>1, <2>1 DEF WaitersHaveGroup, HasGroup, Members
  <2> QED BY <1>4, <2>1, <2>2
<1>6. CASE PermitWait
  <2> SUFFICES ASSUME NEW p \in Pods, bind'[p] = "waiting"
               PROVE  Cardinality(Counted(p)') < MinMember[GroupOf(p)]
    BY <1>2, <1>3 DEF NoStrandedWaiter, Counted, GroupOf
  <2>1. CASE cur \notin Members(p)
    <3>1. cur \in Members(cur)
      BY <1>1 DEF Members
    <3>2. bind[p] = "waiting"
      BY <1>1, <1>6, <2>1, <3>1 DEF PermitWait
    <3> QED BY <1>4, <2>1, <3>2
  <2>2. CASE cur \in Members(p)
    <3>1. Members(p) = Members(cur) /\ GroupOf(p) = GroupOf(cur)
      BY <1>1, <2>2 DEF Members, GroupOf
    <3> DEFINE old == snap \cap Members(cur)
    <3>2. Counted(p)' \subseteq old \cup {cur}
      BY <1>1, <3>1 DEF Counted, Assigned, Members, SnapCovers
    <3>3. old \in SUBSET Pods /\ old \cup {cur} \in SUBSET Pods
          /\ Counted(p)' \in SUBSET (old \cup {cur})
      BY <1>1, <3>2
    <3>4. Cardinality(old \cup {cur}) <= Cardinality(old) + 1
          /\ Cardinality(old \cup {cur}) \in Nat
      BY <3>3, OneMoreCount
    <3>5. Cardinality(old) \in Nat
      BY <3>3, SubsetCount
    <3>6. Cardinality(Counted(p)') <= Cardinality(old \cup {cur})
          /\ Cardinality(Counted(p)') \in Nat
      BY <3>3, SubsetCount
    <3>7. Cardinality(old) + 1 < MinMember[GroupOf(p)]
      BY <1>6, <3>1 DEF PermitWait, CalculateAssignedPods
    <3>8. MinMember[GroupOf(p)] \in Nat
      BY <1>3, MinMemberAssumption, GroupOfType DEF WaitersHaveGroup, HasGroup
    <3> HIDE DEF old
    <3> QED BY <3>4, <3>5, <3>6, <3>7, <3>8
  <2> QED BY <2>1, <2>2
<1> QED BY <1>5, <1>6

LEMMA WaitNext ==
    ASSUME TypeInv, WaitInv, [Next]_vars PROVE WaitInv'
<1>1. CASE SchedulerRestart \/ PreFilterPanic
  <2>1. pc' = "idle" /\ \A p \in Pods : bind'[p] # "waiting"
    BY <1>1 DEF SchedulerRestart, PreFilterPanic, NewScheduler, EndCycle
  <2> QED BY <2>1 DEF WaitInv, SnapCovers, WaitersHaveGroup, NoStrandedWaiter
<1>2. CASE FilterPass \/ \E p \in Pods : ScheduleOne(p)
  BY <1>2, WaitPlace
<1>3. CASE PermitAllow \/ PermitWait
  BY <1>3, WaitPermit
<1>4. CASE ~SchedulerRestart /\ ~PreFilterPanic /\ ~FilterPass /\ ~PermitAllow /\ ~PermitWait
           /\ ~\E p \in Pods : ScheduleOne(p)
  <2>1. NobodyJoins
    BY <1>4, NobodyJoinsSteps DEF Next, CycleStep, FilterStep, PermitStep
  <2> QED BY <2>1, NobodyJoinsKeeps
<1> QED BY <1>1, <1>2, <1>3, <1>4

LEMMA WaitInit ==
    ASSUME Init PROVE WaitInv
BY DEF Init, CycleInit, WaitInv, SnapCovers, WaitersHaveGroup, NoStrandedWaiter

(* For every number of pods, groups and nodes, with crashes and lost calls: *)
(* no pod waits at Permit for a gang that is complete (fluence.go Permit,   *)
(* core.go Permit and CalculateAssignedPods).                               *)
THEOREM NoWaiterStranded == Spec => []NoStrandedWaiter
<1>1. Init => TypeInv /\ WaitInv
  BY TypeInit, WaitInit
<1>2. TypeInv /\ WaitInv /\ [Next]_vars => TypeInv' /\ WaitInv'
  BY TypeNext, WaitNext
<1>3. WaitInv => NoStrandedWaiter
  BY DEF WaitInv
<1> QED BY <1>1, <1>2, <1>3, PTL DEF Spec

-----------------------------------------------------------------------------
(* What PreFilter indexes.                                                  *)

(* The list made before the ask has minMember pods at least, and the node   *)
(* list that came back is no longer than it.                                *)
ListInv ==
    /\ pc \in AskingPCs => MinMember[GroupOf(cur)] <= Cardinality(sibs)
    /\ NodesWithinPods

(* A node is named once however many of its slots are allocated. *)
LEMMA NodeListShort ==
    ASSUME NEW use \in SUBSET Slots
    PROVE  Cardinality(NodeList(use)) \in Nat /\ Cardinality(use) \in Nat
           /\ Cardinality(NodeList(use)) <= Cardinality(use)
<1> DEFINE f == [s \in use |-> HostOf[s]]
<1>1. IsFiniteSet(use)
  BY SlotsAssumption, FS_Subset
<1>2. f \in Surjection(use, NodeList(use))
  BY DEF Surjection, NodeList
<1>3. IsFiniteSet(NodeList(use)) /\ Cardinality(NodeList(use)) <= Cardinality(use)
  BY <1>1, <1>2, FS_Surjection
<1> QED BY <1>1, <1>3, FS_CardinalityType

LEMMA ListMatch ==
    ASSUME TypeInv, ListInv, AskMatch PROVE ListInv'
<1> PICK id \in FreshIds(RememberedIds), use \in Allocations(MinMember[GroupOf(cur)]) :
        \/ job' = id /\ nodes' = NodeList(use) /\ pc' = "record"
        \/ RpcFails /\ pc' = "postfilter" /\ UNCHANGED <<job, nodes>>
  BY DEF AskMatch
<1>1. pc = "match" /\ UNCHANGED <<cur, sibs>>
  BY DEF AskMatch
<1>2. use \in SUBSET Slots /\ Cardinality(use) = MinMember[GroupOf(cur)]
  BY DEF Allocations, FreeSlots, TypeInv, TypeOK
<1>3. MinMember[GroupOf(cur)] <= Cardinality(sibs)
  BY <1>1 DEF ListInv, AskingPCs
<1>4. Cardinality(NodeList(use)) <= Cardinality(sibs)
  <2>1. Cardinality(sibs) \in Nat
    BY SubsetCount DEF TypeInv, TypeOK
  <2> QED BY <1>2, <1>3, <2>1, NodeListShort
<1>5. MinMember[GroupOf(cur)]' = MinMember[GroupOf(cur)]
  BY <1>1 DEF GroupOf
<1> QED BY <1>1, <1>3, <1>4, <1>5 DEF ListInv, NodesWithinPods, AskingPCs

(* Steps that leave the ask where it is, end it or carry it on with the     *)
(* same lists.                                                              *)
SameLists ==
    \/ pc' \notin AskingPCs
    \/ pc \in AskingPCs /\ UNCHANGED <<cur, sibs, nodes>>
       /\ (pc' \in {"record", "resize", "assign"} => pc \in {"record", "resize", "assign"})

LEMMA SameListsKeep ==
    ASSUME ListInv, SameLists PROVE ListInv'
BY DEF ListInv, SameLists, NodesWithinPods, AskingPCs, GroupOf

LEMMA SameListsSteps ==
    ASSUME TypeInv, [Next]_vars, ~PreFilterAsk, ~AskMatch PROVE SameLists
<1> USE DEF TypeInv, TypeOK, SameLists, AskingPCs, apiVars, informerVars, managerVars,
            cycleVars, frameworkVars, fluxionVars, Outside, vars, EndCycle
<1>1. CASE UNCHANGED vars
  BY <1>1
<1>2. CASE \E p \in Pods : Create(p) \/ Start(p) \/ Finish(p) \/ Delete(p)
  BY <1>2 DEF Create, Start, Finish, Delete
<1>3. CASE \E g \in Groups : GroupCreate(g) \/ GroupFinish(g) \/ PermittedExpire(g)
  BY <1>3 DEF GroupCreate, GroupFinish, PermittedExpire
<1>4. CASE \E p \in Pods : InformerStep(p)
  BY <1>4 DEF InformerStep, InformerAdd, InformerUpdate, InformerDelete
<1>5. CASE \E p \in Pods : BindStep(p) \/ WaitTimeout(p)
  BY <1>5 DEF BindStep, BindPod, BindMissing, Unreserve, Forget, WaitTimeout
<1>6. CASE HandlerStep
  BY <1>6 DEF HandlerStep, HandlerLookup, HandlerFree
<1>7. CASE \E p \in Pods : ScheduleOne(p)
  BY <1>7 DEF ScheduleOne
<1>8. CASE PreFilterStep
  BY <1>8 DEF PreFilterStep, PreFilterAssigned, PreFilterSkip, PreFilterTooFew
<1>9. CASE AskStep
  BY <1>9 DEF AskStep, AskCancel, AskNoMatch, AskRecord, ResizeCancel, Assign
<1>10. CASE FilterStep \/ FilterRefused \/ PostFilterStep \/ PermitStep
  BY <1>10 DEF FilterStep, FilterPass, FilterFail, FilterRefused, PostFilterStep,
     PostFilterKeep, PostFilterReject, PermitStep, PermitAllow, PermitWait, PermitDeny
<1>11. CASE SchedulerRestart \/ PreFilterPanic \/ SidecarRestart
  BY <1>11 DEF SchedulerRestart, PreFilterPanic, NewScheduler, SidecarRestart
<1> QED
  BY <1>1, <1>2, <1>3, <1>4, <1>5, <1>6, <1>7, <1>8, <1>9, <1>10, <1>11 DEF Next, CycleStep

LEMMA ListNext ==
    ASSUME TypeInv, ListInv, [Next]_vars PROVE ListInv'
<1>1. CASE PreFilterAsk
  BY <1>1 DEF PreFilterAsk, ListInv, NodesWithinPods, AskingPCs, GroupOf
<1>2. CASE AskMatch
  BY <1>2, ListMatch
<1>3. CASE ~PreFilterAsk /\ ~AskMatch
  BY <1>3, SameListsSteps, SameListsKeep
<1> QED BY <1>1, <1>2, <1>3

LEMMA ListInvariant == Spec => [](TypeInv /\ ListInv)
<1>1. Init => TypeInv /\ ListInv
  <2>1. Init => ListInv
    BY DEF Init, CycleInit, ListInv, NodesWithinPods, AskingPCs
  <2> QED BY <2>1, TypeInit
<1>2. TypeInv /\ ListInv /\ [Next]_vars => TypeInv' /\ ListInv'
  BY TypeNext, ListNext
<1> QED BY <1>1, <1>2, PTL DEF Spec

(* When no group has size 0, PreFilter never indexes the list of pods out of*)
(* range, for any number of slots per node and pods that come and go while  *)
(* the cycle runs: neither pods[i] (core.go:322) nor pods[0] (core.go:301). *)
(* For pods[i] alone every minMember would do (ListInv); for pods[0] the    *)
(* hypothesis is needed, the run of crashes reaches the panic without it.   *)
THEOREM IndexInBounds == PositiveSizes => (Spec => []PodsIndexedInBounds)
<1> SUFFICES ASSUME PositiveSizes PROVE Spec => []PodsIndexedInBounds
  OBVIOUS
<1>1. TypeInv /\ ListInv => PodsIndexedInBounds
  BY PanicNeedsZero DEF ListInv, PodsIndexedInBounds
<1> QED BY <1>1, ListInvariant, PTL

-----------------------------------------------------------------------------
(* The order of the scheduling queue, for any priorities, names and times.  *)

(* What Less reads of a pod in the queue. *)
QueuedPods == [priority : Int, key : Nat, first : Nat, start : Nat]

LEMMA TimestampType == ASSUME NEW a \in QueuedPods PROVE GetCreationTimestamp(a) \in Nat
BY DEF QueuedPods, GetCreationTimestamp

(* Less is a strict total order on pods of different names, as the heap of  *)
(* the scheduling queue needs, although it compares the start time of a     *)
(* PodGroup with the first attempt of a pod (fluence.go Less): of two pods  *)
(* exactly one comes first, and the order is transitive.                    *)
THEOREM LessIsTotalOrder ==
    \A a, b, c \in QueuedPods :
        /\ ~Less(a, a)
        /\ a.key # b.key => (Less(a, b) <=> ~Less(b, a))
        /\ Less(a, b) /\ Less(b, c) => Less(a, c)
<1> SUFFICES ASSUME NEW a \in QueuedPods, NEW b \in QueuedPods, NEW c \in QueuedPods
             PROVE  /\ ~Less(a, a)
                    /\ a.key # b.key => (Less(a, b) <=> ~Less(b, a))
                    /\ Less(a, b) /\ Less(b, c) => Less(a, c)
  OBVIOUS
<1>1. \A x \in {a, b, c} : x.priority \in Int /\ x.key \in Nat /\ GetCreationTimestamp(x) \in Nat
  BY TimestampType DEF QueuedPods
<1> QED BY <1>1 DEF Less
=============================================================================
