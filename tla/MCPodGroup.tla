----------------------------- MODULE MCPodGroup -----------------------------
(***************************************************************************)
(* Instances of PodGroupController for TLC, whose pods have the labels that *)
(* the webhook leaves on them, and a check of Webhook's operators over all  *)
(* small objects: every kind, each label present or not, on the object and  *)
(* on its template, no replicas or some.                                    *)
(***************************************************************************)
EXTENDS PodGroupController, Webhook

CONSTANTS p1, p2, p3, ObjectOf      \* ObjectOf: the object each pod comes from

ASSUME AdmissionAssumption ==
    \A p \in Pods :
        LET labels == PodLabels(ObjectOf[p])
        IN  /\ NsOf[p] = ObjectOf[p].ns
            /\ LabelOf[p] = labels["group"]
            /\ SizeOf[p] = labels["size"]

ThreePods == {p1, p2, p3}
TwoPods == {p1, p2}

(* Pods of the same object are interchangeable. *)
PodSymmetry == Permutations(Pods)

Object(kind, ns, labels, count) ==
    [kind |-> kind, ns |-> ns, name |-> <<"x">>, labels |-> labels, template |-> <<>>,
     count |-> count]

(* Where the pods come from.  AdmissionAssumption makes sure that the labels*)
(* below are the ones the webhook gives.                                    *)
OneNamespace == [p \in Pods |-> <<"a">>]

(* A Job of parallelism two without labels.  With a third pod it has three  *)
(* completions, or has replaced a pod that failed.                          *)
PlainJob == [p \in Pods |-> Object("Job", <<"a">>, <<>>, 2)]
PlainLabel == [p \in Pods |-> <<"fluence", "group", "a", "x">>]
SizeTwo == [p \in Pods |-> 2]

(* README.md:71-90, smaller: the size on the Job is below its parallelism.  *)
SizedJob == [p \in Pods |->
    Object("Job", <<"a">>, ("group" :> <<"min">>) @@ ("size" :> 1), 2)]
SizedLabel == [p \in Pods |-> <<"min">>]
SizeOne == [p \in Pods |-> 1]

(* Two pods of the same name in two namespaces. *)
TwoNamespaces == (p1 :> <<"a">>) @@ (p2 :> <<"b">>)
SameName == [p \in Pods |-> Object("Pod", TwoNamespaces[p], <<>>, 0)]
SameLabel == [p \in Pods |-> <<"fluence", "group", "x">>]

MCNamespaces == {NsOf[p] : p \in Pods}
MCLabels == {LabelOf[p] : p \in Pods}

-----------------------------------------------------------------------------
AllLabels == {<<>>, "group" :> <<"mine">>, "size" :> 3, ("group" :> <<"mine">>) @@ ("size" :> 3)}

Workloads ==
    [kind : {"Job", "Pod", "StatefulSet", "Deployment", "ReplicaSet"},
     ns : {<<"a">>}, name : {<<"x">>}, labels : AllLabels, template : AllLabels, count : 0..2]

(* Has the user written the label where it counts: on the object itself, or *)
(* for a Job on its template?                                               *)
Written(obj, label) ==
    label \in DOMAIN obj.labels \/ (obj.kind = "Job" /\ label \in DOMAIN obj.template)

(* Whatever way a pod came about, both labels are on it ("every pod passing *)
(* through is part of a group", podgroup_webhook.go:178): what the user has *)
(* written, or else a name made of the object's and a size of its replicas, *)
(* and never one made of an object in between ("they will not be added      *)
(* again", podgroup_webhook.go:51-52).                                      *)
ASSUME WebhookKeepsLabels ==
    \A obj \in Workloads :
        PodLabels(obj) =
            [group |-> IF Written(obj, "group") THEN <<"mine">>
                       ELSE IF obj.kind = "Pod" THEN <<"fluence", "group", "x">>
                       ELSE <<"fluence", "group", "a", "x">>,
             size |-> IF Written(obj, "size") THEN 3
                      ELSE IF obj.kind # "Pod" /\ obj.count = 2 THEN 2 ELSE 1]

(* The name of a default group is not unique: a dash ends the namespace and *)
(* may occur in it, and a pod's has none.                                   *)
ASSUME DefaultNamesCollide ==
    LET job(ns, name) == [Object("Job", ns, <<>>, 1) EXCEPT !.name = name]
        pod1(name) == [Object("Pod", <<"a">>, <<>>, 0) EXCEPT !.name = name]
    IN  /\ PodLabels(job(<<"a", "b">>, <<"c">>)) = PodLabels(job(<<"a">>, <<"b", "c">>))
        /\ PodLabels(pod1(<<"b", "c">>)) = PodLabels(job(<<"b">>, <<"c">>))
=============================================================================
