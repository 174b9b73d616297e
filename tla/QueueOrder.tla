----------------------------- MODULE QueueOrder -----------------------------
(***************************************************************************)
(* Fluence.Less: the order of the scheduling queue.  What it compares of a  *)
(* pod is a record of its priority, its place among the names               *)
(* "namespace/name" (key), the time of its first attempt, and the           *)
(* scheduleStartTime of its PodGroup, which is NoTime when there is no      *)
(* PodGroup or the time is not set.                                         *)
(***************************************************************************)
EXTENDS Integers

NoTime == 0

(* group.GetCreationTimestamp *)
GetCreationTimestamp(item) == IF item.start = NoTime THEN item.first ELSE item.start

Less(a, b) ==
    LET t1 == GetCreationTimestamp(a)
        t2 == GetCreationTimestamp(b)
    IN  \/ a.priority > b.priority
        \/ a.priority = b.priority /\ t1 < t2
        \/ a.priority = b.priority /\ t1 = t2 /\ a.key < b.key
=============================================================================
