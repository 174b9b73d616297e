------------------------------ MODULE Fluxion ------------------------------
(***************************************************************************)
(* The Fluence sidecar (src/src/fluence): a gRPC service around the Fluxion *)
(* resource-graph library.  It keeps the resource graph built from the      *)
(* Kubernetes nodes when it starts, and the jobs allocated from that graph. *)
(*                                                                          *)
(* A slot is what one pod of a group asks for; a node hosts several slots.  *)
(* The library's matcher (fluxion-go, outside this repository) is modelled  *)
(* by what the service relies on: an allocation takes free slots only, is   *)
(* all or nothing, and gets an id that no live job has.                     *)
(***************************************************************************)
EXTENDS Integers, FiniteSets

CONSTANTS
    Nodes,      \* worker nodes of the cluster
    Slots,      \* the slots the nodes can host when they are empty
    HostOf,     \* the node of each slot
    JobIds,     \* job ids; compared for equality only, so a finite pool
    NoJob       \* "no job id"

ASSUME SlotsAssumption ==
    /\ IsFiniteSet(Slots)
    /\ HostOf \in [Slots -> Nodes]
    /\ NoJob \notin JobIds

VARIABLES
    graph,      \* slots present in the resource graph loaded at start-up
    jobs,       \* live allocations: job id, owning group, slots
    restarted   \* the sidecar has restarted: its id counter began again

fluxionVars == <<graph, jobs, restarted>>

Job(Owners) == [id : JobIds, owner : Owners, use : SUBSET Slots]

LiveIds == {j.id : j \in jobs}

FreeSlots == graph \ UNION {j.use : j \in jobs}

FluxionInit ==
    /\ graph = Slots
    /\ jobs = {}
    /\ restarted = FALSE

(***************************************************************************)
(* Ids come from a counter.  No id is given twice by one incarnation of the *)
(* sidecar, so the new id differs from every id a client still remembers    *)
(* ("remembered"), unless the sidecar restarted in between.                 *)
(***************************************************************************)
FreshIds(remembered) ==
    IF restarted THEN JobIds \ LiveIds ELSE JobIds \ (LiveIds \cup remembered)

(* The sets of slots Match may allocate for "count" slots. *)
Allocations(count) == {use \in SUBSET FreeSlots : Cardinality(use) = count}

(* ParseAllocResult: one entry per node of the allocation, whatever the     *)
(* number of slots allocated on it.                                         *)
NodeList(use) == {HostOf[s] : s \in use}

Match(owner, id, use) ==
    /\ jobs' = jobs \cup {[id |-> id, owner |-> owner, use |-> use]}
    /\ UNCHANGED <<graph, restarted>>

(* The library's cancel is called with noent_ok: an unknown id is no error. *)
Cancel(id) ==
    /\ jobs' = {j \in jobs : j.id # id}
    /\ UNCHANGED <<graph, restarted>>

(***************************************************************************)
(* A restarted sidecar has lost its jobs.  CreateInClusterJGF builds a graph*)
(* without the slots that the pods on each node ("load") use at that moment.*)
(***************************************************************************)
GraphsFor(load) ==
    {gr \in SUBSET Slots : \A n \in Nodes :
        LET all == Cardinality({s \in Slots : HostOf[s] = n})
        IN  Cardinality({s \in gr : HostOf[s] = n})
              = IF load[n] >= all THEN 0 ELSE all - load[n]}

Restart(load) ==
    /\ graph' \in GraphsFor(load)
    /\ jobs' = {}
    /\ restarted' = TRUE
=============================================================================
