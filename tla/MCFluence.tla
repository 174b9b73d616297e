----------------------------- MODULE MCFluence -----------------------------
(***************************************************************************)
(* Instances of Fluence for TLC: two nodes of one slot each, and three pods.*)
(* Group A is a gang of two; the third pod is another group's, or a late    *)
(* member of A, or a pod of A created again under the name of the first.    *)
(***************************************************************************)
EXTENDS Fluence, QueueOrder, TLC

CONSTANTS p1, p2, p3, n1, n2, s1, s2, ns, labA, labB, j1, j2, j3, j4

MCPods == {p1, p2, p3}
MCNodes == {n1, n2}
MCNsOf == [p \in MCPods |-> ns]

(* p1 and p2 form A; p3 is B. *)
TwoGroups == (p1 :> labA) @@ (p2 :> labA) @@ (p3 :> labB)
(* All three pods carry A's label. *)
OneGroup == [p \in MCPods |-> labA]

(* A pod stands for its own name, unless the name is used again. *)
OwnNames == [p \in MCPods |-> p]
ReusedName == (p1 :> p1) @@ (p2 :> p2) @@ (p3 :> p1)

SpreadSlots == (s1 :> n1) @@ (s2 :> n2)

GroupA == {<<ns, labA>>}
BothGroups == {<<ns, labA>>, <<ns, labB>>}

GangOfTwo == (<<ns, labA>> :> 2) @@ (<<ns, labB>> :> 1)
(* Nobody has set B's minMember. *)
GangAndUnsized == (<<ns, labA>> :> 2) @@ (<<ns, labB>> :> 0)

(* Job ids are interchangeable; so are the nodes with their slots, and the  *)
(* pods of one group.                                                       *)
JobSymmetry == Permutations(JobIds)
NodeSwap == (n1 :> n2) @@ (n2 :> n1) @@ (s1 :> s2) @@ (s2 :> s1)
TwoGroupsSymmetry == JobSymmetry \cup {NodeSwap} \cup Permutations({p1, p2})
OneGroupSymmetry == JobSymmetry \cup {NodeSwap} \cup Permutations(MCPods)
ReusedNameSymmetry == JobSymmetry \cup {NodeSwap}

-----------------------------------------------------------------------------
Items == [priority : 0..1, key : 1..3, first : 1..2, start : {NoTime, 1, 2}]

(* The heap of the queue needs a strict total order on pods, whichever of   *)
(* them have a PodGroup with a start time (Less mixes times of groups and   *)
(* of pods), as long as the times do not change under it.                   *)
ASSUME LessIsStrictTotalOrder ==
    \A a, b \in Items : a.key # b.key =>
        /\ Less(a, b) # Less(b, a)
        /\ \A c \in Items : Less(a, b) /\ Less(b, c) /\ a.key # c.key => Less(a, c)
=============================================================================
