------------------------------- MODULE Webhook -------------------------------
(***************************************************************************)
(* The mutating webhook (podgroup_webhook.go): what the group name and the  *)
(* group size of a pod become on the way from the object a user writes to   *)
(* the pod.  It is called when an object is created, also for the objects   *)
(* that Kubernetes' own controllers create from others.                     *)
(*                                                                          *)
(* An object is a record of its kind, namespace, name, labels, the labels of*)
(* its pod template and its number of replicas (parallelism of a Job).  The *)
(* labels are functions on a subset of {"group", "size"}; the text of a size*)
(* stands for its number.  Namespaces and names are sequences of words, so  *)
(* that joining two names by a dash is what it is in the code: the border   *)
(* between them is lost.                                                    *)
(***************************************************************************)
EXTENDS Integers, Sequences, TLC

Prefix == <<"fluence", "group">>

(* Sprintf("fluence-group-%s-%s", namespace, name) *)
DefaultName(obj) == Prefix \o obj.ns \o obj.name

(* A size of zero is made one. *)
DefaultSize(obj) == IF obj.count = 0 THEN 1 ELSE obj.count

(* EnsureGroup.  A pod's default group has no namespace in its name; a pod  *)
(* whose name is to be generated has no name yet.                           *)
EnsureGroup(obj) ==
    [obj EXCEPT !.labels = @ @@ ("group" :> (Prefix \o obj.name)) @@ ("size" :> 1)]

(* getJobLabel: the job's own label, or else the template's, or the default.*)
getJobLabel(job, label, default) ==
    (job.labels @@ job.template @@ (label :> default))[label]

EnsureGroupOnJob(job) ==
    [job EXCEPT !.template = ("group" :> getJobLabel(job, "group", DefaultName(job)))
                          @@ ("size" :> getJobLabel(job, "size", DefaultSize(job)))
                          @@ @]

(* EnsureGroupStatefulSet, EnsureGroupReplicaSet, EnsureGroupDeployment: the*)
(* template's own labels are not read but overwritten.                      *)
EnsureGroupOnSet(set) ==
    LET top == set.labels @@ ("group" :> DefaultName(set)) @@ ("size" :> DefaultSize(set))
    IN  [set EXCEPT !.template = ("group" :> top["group"]) @@ ("size" :> top["size"]) @@ @]

(* Handle, and Default, which does the same for an object already decoded.  *)
Handle(obj) ==
    CASE obj.kind = "Job" -> EnsureGroupOnJob(obj)
      [] obj.kind = "Pod" -> EnsureGroup(obj)
      [] obj.kind \in {"StatefulSet", "Deployment", "ReplicaSet"} -> EnsureGroupOnSet(obj)
      [] OTHER -> obj

-----------------------------------------------------------------------------
(* External: the pods of a workload.  They have the template's labels; only *)
(* a StatefulSet names its pods itself.                                     *)
PodFrom(obj) ==
    [kind |-> "Pod", ns |-> obj.ns, labels |-> obj.template, template |-> <<>>, count |-> 0,
     name |-> IF obj.kind = "StatefulSet" THEN Append(obj.name, "0") ELSE <<>>]

(* External: a Deployment makes a ReplicaSet, labelled as its pods will be. *)
ReplicaSetFrom(d) ==
    [d EXCEPT !.kind = "ReplicaSet", !.name = Append(@, "hash"), !.labels = d.template]

(* The labels of the pods in the end.  Every object on the way passes the   *)
(* webhook.                                                                 *)
PodLabels(obj) ==
    LET stored == Handle(obj)
    IN  CASE stored.kind = "Pod" -> stored.labels
          [] stored.kind = "Deployment" ->
               Handle(PodFrom(Handle(ReplicaSetFrom(stored)))).labels
          [] OTHER -> Handle(PodFrom(stored)).labels
=============================================================================
