--------------------------- MODULE GroupLifecycle ---------------------------
(***************************************************************************)
(* The life of PodGroup objects, as far as a reader of the API server can   *)
(* tell: what the PodGroup controller promises to the scheduler.  A group   *)
(* appears for pods that carry its label, at any time, and again after it   *)
(* was deleted; it disappears only when enough of its pods have ended.  The *)
(* controller works from caches, so pods that it counts may be gone by now. *)
(***************************************************************************)
EXTENDS Integers, FiniteSets

CONSTANTS
    Pods, Groups,       \* a group is a namespace and a label
    NsOf, LabelOf,
    MinMember

VARIABLES
    api,                \* the phase of each pod
    groups              \* the PodGroups that exist

Terminal == {"Succeeded", "Failed"}

(* The controller lists pods by the label alone, in every namespace. *)
Labelled(g, phases) == {p \in Pods : LabelOf[p] = g[2] /\ api[p] \in phases}

(* A user may create the group before its pods. *)
Create(g) ==
    /\ g \notin groups
    /\ \E p \in Pods : <<NsOf[p], LabelOf[p]>> = g
    /\ groups' = groups \cup {g}

(* The group has finished or failed. *)
Finish(g) ==
    /\ g \in groups
    /\ \/ Cardinality(Labelled(g, {"Succeeded", "gone"})) >= MinMember[g]
       \/ /\ Labelled(g, {"Failed", "gone"}) # {}
          /\ Cardinality(Labelled(g, Terminal \cup {"Running", "gone"})) >= MinMember[g]
    /\ groups' = groups \ {g}

Init == groups = {}

Next == \E g \in Groups : Create(g) \/ Finish(g)

Spec == Init /\ [][Next]_groups
=============================================================================
