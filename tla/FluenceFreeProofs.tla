------------------------- MODULE FluenceFreeProofs -------------------------
(***************************************************************************)
(* Proof that the slots of ended pods are freed, for any number of pods,    *)
(* groups, nodes and slots.                                                 *)
(***************************************************************************)
EXTENDS FluenceProofs

(* What the freeing of slots relies on: no call is lost, the scheduler does *)
(* not restart or panic, no pod is deleted before it ends, and PodGroups    *)
(* stay.  (The run freed_late shows that the last one is needed.)  The      *)
(* sidecar may restart.                                                     *)
Undisturbed ==
    /\ ~RpcFails /\ ~SchedulerCrashes /\ PositiveSizes
    /\ UserDeletes = {} /\ GroupsFinish = {}

(* A pod that runs, or that has ended unseen, is bound. *)
RunningIsBound ==
    \A p \in Pods :
        /\ api[p] # "gone"
        /\ known[p] # "absent" => api[p] # "none"
        /\ api[p] = "Running" => bind[p] = "bound"
        /\ api[p] \in Terminal /\ known[p] = "active" => bind[p] = "bound"

(* So the pod in a cycle has not run yet and its end is still to be seen. *)
CurrentIsActive ==
    pc \notin {"idle", "undo"} => known[cur] = "active" /\ bind[cur] = "idle"

OwnersExist ==
    /\ pc \in AskingPCs => GroupOf(cur) \in groups
    /\ \A j \in jobs : j.owner \in groups

(* The handler is about to free the slots of the group, or has an event to  *)
(* handle that leads to it, or will get one when an active pod ends.        *)
Due(g) ==
    \/ hkey = g
    \/ \E p \in Pods :
         /\ GroupOf(p) = g
         /\ \/ known[p] = "active"
            \/ \E i \in DOMAIN events : events[i].pod = p /\ Frees(events[i])

JobsDue == \A j \in jobs : Due(j.owner)

FreeInv == RunningIsBound /\ CurrentIsActive /\ OwnersExist /\ JobsDue

LEMMA FreeInit == Init => FreeInv
BY DEF Init, CycleInit, FluxionInit, FreeInv, RunningIsBound, CurrentIsActive, OwnersExist,
       JobsDue, AskingPCs, Terminal

(* A group stays due while its pods stay active, its events wait and the    *)
(* handler is not done with it.                                             *)
LEMMA DueStays ==
    ASSUME NEW g, Due(g), hkey' = hkey,
           \A p \in Pods : known[p] = "active" =>
               \/ known'[p] = "active"
               \/ \E i \in DOMAIN events' : events'[i].pod = p /\ Frees(events'[i]),
           \A i \in DOMAIN events : i \in DOMAIN events' /\ events'[i] = events[i]
    PROVE  Due(g)'
BY DEF Due, Frees, GroupOf

(* Steps that leave alone what the invariant speaks of, or end the cycle.   *)
Bystander ==
    /\ UNCHANGED <<api, groups, known, events, hkey>>
    /\ jobs' \subseteq jobs
    /\ \A p \in Pods : bind[p] = "bound" => bind'[p] = "bound"
    /\ \/ pc' \in {"idle", "undo"}
       \/ /\ cur' = cur /\ bind'[cur] = bind[cur]
          /\ pc' \notin {"idle", "undo"} => pc \notin {"idle", "undo"}
          /\ pc' \in AskingPCs => pc \in AskingPCs

LEMMA BystanderKeeps ==
    ASSUME TypeInv, FreeInv, Bystander PROVE FreeInv'
<1> USE DEF FreeInv, Bystander
<1>1. RunningIsBound'
  BY DEF RunningIsBound
<1>2. CurrentIsActive'
  BY DEF CurrentIsActive
<1>3. OwnersExist'
  BY DEF OwnersExist, GroupOf, AskingPCs
<1>4. JobsDue'
  BY DueStays DEF JobsDue
<1> QED BY <1>1, <1>2, <1>3, <1>4

LEMMA BystanderSteps ==
    ASSUME TypeInv, FreeInv, Undisturbed,
           \/ UNCHANGED vars
           \/ \E g \in Groups : PermittedExpire(g)
           \/ \E p \in Pods : BindStep(p) \/ WaitTimeout(p)
           \/ PreFilterAssigned \/ PreFilterSkip \/ PreFilterTooFew
           \/ AskCancel \/ AskNoMatch \/ AskRecord \/ ResizeCancel \/ Assign
           \/ FilterStep \/ FilterRefused \/ PostFilterStep \/ PermitStep
           \/ SidecarRestart
    PROVE  Bystander
<1> USE DEF TypeInv, TypeOK, Bystander, AskingPCs, apiVars, informerVars, managerVars,
            cycleVars, frameworkVars, fluxionVars, Outside, vars, EndCycle
<1>1. CASE UNCHANGED vars \/ \E g \in Groups : PermittedExpire(g)
  BY <1>1 DEF PermittedExpire
<1>a. pc \notin {"idle", "undo"} => bind[cur] = "idle"
  BY DEF FreeInv, CurrentIsActive
<1>2. ASSUME NEW p \in Pods, BindPod(p) \/ BindMissing(p) \/ WaitTimeout(p) PROVE Bystander
  BY <1>2, <1>a DEF BindPod, BindMissing, WaitTimeout
<1>3. ASSUME NEW p \in Pods, Unreserve(p) PROVE Bystander
  <2>1. \A q \in Pods : /\ bind[q] \in {"bound", "idle"} => bind'[q] = bind[q]
    <3>1. \A q \in Pods : bind[q] \in {"bound", "idle"} => RejectWaiting(p)[q] = bind[q]
      BY DEF RejectWaiting
    <3>2. RejectWaiting(p) \in [Pods -> {"idle", "waiting", "rejected", "forgetting",
                                         "allowed", "bound"}]
      BY DEF RejectWaiting
    <3> QED BY <1>3, <3>1, <3>2 DEF Unreserve
  <2> QED BY <1>3, <1>a, <2>1 DEF Unreserve
<1>4. ASSUME NEW p \in Pods, Forget(p) PROVE Bystander
  BY <1>4, <1>a DEF Forget
<1>5. CASE PreFilterAssigned \/ PreFilterSkip \/ PreFilterTooFew \/ AskNoMatch \/ AskRecord
  BY <1>5 DEF PreFilterAssigned, PreFilterSkip, PreFilterTooFew, AskNoMatch, AskRecord
<1>6. CASE AskCancel \/ ResizeCancel
  <2>1. GroupOf(cur) \in Groups /\ CancelFluxJob(GroupOf(cur), NsOf[cur])
    BY <1>6, AskerInGroup DEF AskCancel, ResizeCancel
  <2> QED BY <1>6, <2>1, CancelType DEF AskCancel, ResizeCancel
<1>7. CASE Assign
  BY <1>7 DEF Assign
<1>8. CASE FilterStep \/ FilterRefused
  BY <1>8 DEF FilterStep, FilterPass, FilterFail, FilterRefused
<1>9. CASE PostFilterStep
  BY <1>9 DEF PostFilterStep, PostFilterKeep, PostFilterReject, RejectWaiting
<1>10. CASE PermitStep
  BY <1>10, <1>a DEF PermitStep, PermitAllow, PermitWait, PermitDeny
<1>11. CASE SidecarRestart
  BY <1>11 DEF SidecarRestart, Restart
<1> QED
  BY <1>1, <1>2, <1>3, <1>4, <1>5, <1>6, <1>7, <1>8, <1>9, <1>10, <1>11 DEF BindStep

(* Pods and PodGroups in the API server. *)
LEMMA FreeApi ==
    ASSUME TypeInv, FreeInv, Undisturbed,
           \/ \E p \in Pods : Create(p) \/ Start(p) \/ Finish(p) \/ Delete(p)
           \/ \E g \in Groups : GroupCreate(g) \/ GroupFinish(g)
    PROVE  FreeInv'
<1> USE DEF TypeInv, TypeOK, FreeInv, apiVars, informerVars, managerVars, cycleVars,
            frameworkVars, fluxionVars
<1>1. /\ UNCHANGED <<known, events, hkey, pc, cur, bind, jobs>>
      /\ groups \subseteq groups'
  BY DEF Undisturbed, Create, Start, Finish, Delete, GroupCreate, GroupFinish, Life!Create
<1>2. RunningIsBound'
  <2>1. CASE \E g \in Groups : GroupCreate(g) \/ GroupFinish(g)
    BY <1>1, <2>1 DEF GroupCreate, GroupFinish, RunningIsBound
  <2>2. ASSUME NEW p \in Pods, Create(p) \/ Start(p) \/ Finish(p) PROVE RunningIsBound'
    BY <1>1, <2>2, PodsAssumption
    DEF Create, Start, Finish, RunningIsBound, Terminal
  <2> QED BY <2>1, <2>2 DEF Undisturbed, Delete
<1>3. CurrentIsActive' /\ OwnersExist'
  BY <1>1 DEF CurrentIsActive, OwnersExist, GroupOf
<1>4. JobsDue'
  BY <1>1, DueStays DEF JobsDue
<1> QED BY <1>2, <1>3, <1>4

(* The informer.  A pod that ends leaves an event that frees. *)
LEMMA FreeInformer ==
    ASSUME TypeInv, FreeInv, Undisturbed, NEW p \in Pods, InformerStep(p)
    PROVE  FreeInv'
<1> USE DEF TypeInv, TypeOK, FreeInv, apiVars, informerVars, managerVars, cycleVars,
            frameworkVars, fluxionVars
<1> DEFINE Ev == [pod : Pods, kind : {"update", "delete"}, phase : {"active", "done"}]
<1>1. UNCHANGED <<api, groups, hkey, pc, cur, jobs>>
  BY DEF InformerStep, InformerAdd, InformerUpdate, InformerDelete
<1>2. CASE InformerAdd(p)
  <2>1. known' = [known EXCEPT ![p] = "active"] /\ UNCHANGED <<events, bind>>
        /\ api[p] \in Alive /\ known[p] = "absent"
    BY <1>2 DEF InformerAdd
  <2>2. RunningIsBound'
    BY <1>1, <2>1 DEF RunningIsBound, Alive, Terminal
  <2>3. CurrentIsActive' /\ OwnersExist'
    BY <1>1, <2>1 DEF CurrentIsActive, OwnersExist, GroupOf
  <2>4. JobsDue'
    BY <1>1, <2>1, DueStays DEF JobsDue
  <2> QED BY <2>2, <2>3, <2>4
<1>3. CASE InformerUpdate(p) \/ InformerDelete(p)
  <2>1. PICK e \in Ev : /\ events' = Append(events, e) /\ e.pod = p
                        /\ known[p] = "active" => Frees(e)
    <3>1. CASE InformerUpdate(p)
      <4> DEFINE e == Event(p, "update", "done")
      <4>1. e \in Ev /\ e.pod = p /\ Frees(e)
        BY DEF Event, Frees
      <4> QED BY <3>1, <4>1 DEF InformerUpdate
    <3>2. CASE InformerDelete(p)
      <4> DEFINE e == Event(p, "delete", known[p])
      <4>1. known[p] \in {"active", "done"}
        BY <3>2 DEF InformerDelete, Stored
      <4>2. e \in Ev /\ e.pod = p /\ (known[p] = "active" => Frees(e))
        BY <4>1 DEF Event, Frees
      <4> QED BY <3>2, <4>2 DEF InformerDelete
    <3> QED BY <1>3, <3>1, <3>2
  <2>2. /\ known'[p] # "active" /\ api[p] \in Terminal
        /\ \A q \in Pods : q # p => known'[q] = known[q] /\ bind'[q] = bind[q]
    BY <1>3, Undisturbed DEF InformerUpdate, InformerDelete, Undisturbed, RunningIsBound
  <2>3. RunningIsBound'
    BY <1>1, <2>2 DEF RunningIsBound, Terminal
  <2>4. CurrentIsActive'
    <3>1. pc \notin {"idle", "undo"} => cur # p
      BY <2>2 DEF CurrentIsActive, RunningIsBound
    <3> QED BY <1>1, <2>2, <3>1 DEF CurrentIsActive
  <2>5. OwnersExist'
    BY <1>1 DEF OwnersExist, GroupOf
  <2>6. JobsDue'
    <3>1. /\ \A i \in DOMAIN events : i \in DOMAIN events' /\ events'[i] = events[i]
          /\ Len(events) + 1 \in DOMAIN events' /\ events'[Len(events) + 1] = e
      <4> HIDE DEF Ev
      <4>1. events \in Seq(Ev)
        BY DEF Ev
      <4> QED BY <2>1, <4>1
    <3> QED BY <1>1, <2>1, <2>2, <3>1, DueStays DEF JobsDue
  <2> QED BY <2>3, <2>4, <2>5, <2>6
<1> QED BY <1>2, <1>3 DEF InformerStep

(* The handler takes an event off the queue: its group is looked up and,    *)
(* because it still exists, found.                                          *)
LEMMA FreeLookup ==
    ASSUME TypeInv, FreeInv, HandlerLookup PROVE FreeInv'
<1> USE DEF TypeInv, TypeOK, FreeInv, apiVars, managerVars, cycleVars, frameworkVars,
            fluxionVars
<1> DEFINE Ev == [pod : Pods, kind : {"update", "delete"}, phase : {"active", "done"}]
<1>1. UNCHANGED <<api, groups, known, bind, pc, cur, jobs>>
  BY DEF HandlerLookup
<1>2. RunningIsBound' /\ CurrentIsActive' /\ OwnersExist'
  BY <1>1 DEF RunningIsBound, CurrentIsActive, OwnersExist, GroupOf
<1>3. ASSUME NEW j \in jobs PROVE Due(j.owner)'
  <2>1. j.owner \in groups /\ j.owner \in Groups /\ Due(j.owner) /\ hkey = NoKey
    BY DEF OwnersExist, JobsDue, HandlerLookup
  <2>2. PICK p \in Pods :
          /\ GroupOf(p) = j.owner
          /\ \/ known[p] = "active"
             \/ \E i \in DOMAIN events : events[i].pod = p /\ Frees(events[i])
    BY <2>1, PodsAssumption DEF Due
  <2>3. CASE known[p] = "active"
    BY <1>1, <2>2, <2>3 DEF Due, GroupOf
  <2>4. ASSUME NEW i \in DOMAIN events, events[i].pod = p, Frees(events[i])
        PROVE  Due(j.owner)'
    <3>1. CASE i = 1
      <4>1. Head(events) = events[i]
        BY <3>1
      <4>2. GroupFound(p)
        BY <2>1, <2>2, PodsAssumption DEF GroupFound, HasGroup, GroupOf, Groups
      <4>3. hkey' = GroupOf(p)
        BY <2>4, <4>1, <4>2 DEF HandlerLookup
      <4> QED BY <2>2, <4>3 DEF Due
    <3>2. CASE i # 1
      <4>1. i - 1 \in DOMAIN events' /\ events'[i - 1] = events[i]
        <5> HIDE DEF Ev
        <5>1. events \in Seq(Ev)
          BY DEF Ev
        <5> QED BY <3>2, <5>1 DEF HandlerLookup
      <4> QED BY <1>1, <2>2, <2>4, <4>1 DEF Due, GroupOf, Frees
    <3> QED BY <3>1, <3>2
  <2> QED BY <2>2, <2>3, <2>4
<1> QED BY <1>1, <1>2, <1>3 DEF JobsDue

(* The handler frees: what is left of the group is the job that a cycle is  *)
(* about to record, and the pod of that cycle is active.                    *)
LEMMA FreeHandler ==
    ASSUME TypeInv, JobInv, FreeInv, Undisturbed, HandlerFree PROVE FreeInv'
<1> USE DEF TypeInv, TypeOK, FreeInv, apiVars, managerVars, cycleVars, frameworkVars,
            fluxionVars
<1>1. UNCHANGED <<api, groups, known, events, bind, pc, cur>> /\ jobs' \subseteq jobs
  BY CancelType DEF HandlerFree
<1>2. RunningIsBound' /\ CurrentIsActive' /\ OwnersExist'
  BY <1>1 DEF RunningIsBound, CurrentIsActive, OwnersExist, GroupOf
<1>3. ASSUME NEW j \in jobs' PROVE Due(j.owner)'
  <2>1. j \in jobs /\ Due(j.owner) /\ j.owner \in Groups /\ j.id \in JobIds
    BY <1>1 DEF JobsDue, Job
  <2>2. CASE hkey = j.owner
    <3>1. CancelFluxJob(j.owner, hkey[1])
      BY <2>1, <2>2, PodsAssumption DEF HandlerFree
    <3>2. groupToJobId[j.owner] # j.id
      BY <2>1, <3>1, SlotsAssumption DEF CancelFluxJob, Cancel, Undisturbed
    <3>3. pc = "record" /\ GroupOf(cur) = j.owner
      BY <2>1, <3>2 DEF JobInv, NoOrphanJob, Undisturbed
    <3> QED BY <1>1, <3>3 DEF CurrentIsActive, Due, GroupOf
  <2>3. CASE hkey # j.owner
    BY <1>1, <2>1, <2>3 DEF Due, GroupOf, Frees
  <2> QED BY <2>2, <2>3
<1> QED BY <1>2, <1>3 DEF JobsDue

(* The steps of PreFilter towards a new job. *)
LEMMA FreeAsk ==
    ASSUME TypeInv, FreeInv, (\E p \in Pods : ScheduleOne(p)) \/ PreFilterAsk \/ AskMatch
    PROVE  FreeInv'
<1> USE DEF TypeInv, TypeOK, FreeInv, apiVars, informerVars, managerVars, cycleVars,
            frameworkVars, fluxionVars, Outside
<1>1. UNCHANGED <<api, groups, known, events, hkey, bind>>
  BY DEF ScheduleOne, PreFilterAsk, AskMatch
<1>2. RunningIsBound'
  BY <1>1 DEF RunningIsBound
<1>3. CASE \E p \in Pods : ScheduleOne(p)
  <2>1. CurrentIsActive' /\ OwnersExist'
    BY <1>1, <1>3 DEF ScheduleOne, CurrentIsActive, OwnersExist, AskingPCs
  <2>2. JobsDue'
    BY <1>1, <1>3, DueStays DEF ScheduleOne, JobsDue
  <2> QED BY <1>2, <2>1, <2>2
<1>4. CASE PreFilterAsk
  <2>1. CurrentIsActive' /\ OwnersExist'
    BY <1>1, <1>4 DEF PreFilterAsk, CurrentIsActive, OwnersExist, AskingPCs, GroupFound, GroupOf
  <2>2. JobsDue'
    BY <1>1, <1>4, DueStays DEF PreFilterAsk, JobsDue
  <2> QED BY <1>2, <2>1, <2>2
<1>5. CASE AskMatch
  <2>1. PICK id \in FreshIds(RememberedIds), use \in Allocations(MinMember[GroupOf(cur)]) :
          /\ jobs' = jobs \cup {[id |-> id, owner |-> GroupOf(cur), use |-> use]}
          /\ pc = "match" /\ pc' \in {"record", "postfilter"} /\ cur' = cur
    BY <1>5 DEF AskMatch, Match
  <2>a. PICK new : jobs' = jobs \cup {new} /\ new.owner = GroupOf(cur)
    <3> DEFINE new == [id |-> id, owner |-> GroupOf(cur), use |-> use]
    <3>1. new.owner = GroupOf(cur)
      OBVIOUS
    <3> HIDE DEF new
    <3> QED BY <2>1, <3>1 DEF new
  <2>b. GroupOf(cur)' = GroupOf(cur)
    BY <2>1 DEF GroupOf
  <2>c. CurrentIsActive'
    BY <1>1, <2>1 DEF CurrentIsActive
  <2>2. OwnersExist'
    BY <1>1, <2>1, <2>a, <2>b DEF OwnersExist, AskingPCs
  <2>3. Due(GroupOf(cur))'
    BY <1>1, <2>1 DEF CurrentIsActive, Due, GroupOf
  <2>d. Due(new.owner)'
    BY <2>a, <2>b, <2>3 DEF Due
  <2>4. \A j \in jobs : Due(j.owner)'
    BY <1>1, DueStays DEF JobsDue
  <2>5. JobsDue'
    BY <2>a, <2>d, <2>4 DEF JobsDue
  <2> QED BY <1>2, <2>c, <2>2, <2>5
<1> QED BY <1>3, <1>4, <1>5

LEMMA FreeNext ==
    ASSUME TypeInv, JobInv, FreeInv, Undisturbed, [Next]_vars PROVE FreeInv'
<1>1. ~SchedulerRestart /\ ~PreFilterPanic
  BY PanicNeedsZero DEF SchedulerRestart, PreFilterPanic, Undisturbed
<1> QED
  BY <1>1, BystanderSteps, BystanderKeeps, FreeApi, FreeInformer, FreeLookup, FreeHandler, FreeAsk
  DEF Next, CycleStep, PreFilterStep, AskStep, HandlerStep

(* When the pods have ended and their events are handled, every slot is free*)
(* again (UpdatePod, DeletePod, cancelFluxJob), whatever the order in which *)
(* events, cycles, expiries and restarts of the sidecar came: no ask in     *)
(* progress and no late member leaves a job behind, as long as no call is   *)
(* lost, pods are not deleted before they end, their PodGroups stay and no  *)
(* size is 0.                                                               *)
THEOREM EndedPodsFreed == Undisturbed => (Spec => []FreedWhenDone)
<1> SUFFICES ASSUME Undisturbed PROVE Spec => []FreedWhenDone
  OBVIOUS
<1>1. Init => TypeInv /\ JobInv /\ FreeInv
  BY TypeInit, JobInit, FreeInit
<1>2. TypeInv /\ JobInv /\ FreeInv /\ [Next]_vars => TypeInv' /\ JobInv' /\ FreeInv'
  BY TypeNext, JobNext, FreeNext
<1>3. TypeInv /\ FreeInv => FreedWhenDone
  <2> SUFFICES ASSUME TypeInv, FreeInv,
                      \A p \in Pods : known[p] # "active",
                      events = <<>>, hkey = NoKey
               PROVE  jobs = {}
    BY DEF FreedWhenDone
  <2>1. \A j \in jobs : j.owner \in Groups
    BY DEF TypeInv, TypeOK, Job
  <2>2. \A g \in Groups : ~Due(g)
    BY PodsAssumption DEF Due
  <2> QED BY <2>1, <2>2 DEF FreeInv, JobsDue
<1> QED BY <1>1, <1>2, <1>3, PTL DEF Spec
=============================================================================
