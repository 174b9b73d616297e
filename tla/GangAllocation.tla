--------------------------- MODULE GangAllocation ---------------------------
(***************************************************************************)
(* What Fluence promises about resources, without cycles, events or ids: a  *)
(* group holds nothing, or exactly the slots of its whole gang; it acquires *)
(* them in one step from slots nobody holds, and gives all of them back in  *)
(* one step.                                                                *)
(***************************************************************************)
CONSTANTS
    Groups,
    Gangs       \* the sets of slots that hold the whole gang of a group

VARIABLE alloc  \* slots each group holds

Init == alloc = [g \in Groups |-> {}]

Held == UNION {alloc[g] : g \in Groups}

Acquire(g) ==
    /\ alloc[g] = {}
    /\ \E use \in Gangs[g] :
         /\ use \cap Held = {}
         /\ alloc' = [alloc EXCEPT ![g] = use]

Release(g) ==
    /\ alloc[g] # {}
    /\ alloc' = [alloc EXCEPT ![g] = {}]

Next == \E g \in Groups : Acquire(g) \/ Release(g)

Spec == Init /\ [][Next]_alloc
=============================================================================
