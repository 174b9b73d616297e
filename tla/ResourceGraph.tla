--------------------------- MODULE ResourceGraph ---------------------------
(***************************************************************************)
(* What the sidecar promises, in units: how CreateInClusterJGF turns the    *)
(* nodes of the cluster into a resource graph when the sidecar starts, how  *)
(* PreparePodJobSpec and CreateJobSpecYaml turn a pod into a job            *)
(* specification, and how ParseAllocResult reads an allocation back.        *)
(*                                                                          *)
(* Kubernetes counts millicores and bytes, the graph whole cores and        *)
(* blocks of memory (1 GiB in the code), the job specification whole cores  *)
(* and megabytes.  Kubernetes goes on binding and ending pods while the     *)
(* graph is built, one node at a time, and afterwards.                      *)
(*                                                                          *)
(* External: Kubernetes (pods, the resource filter of the scheduler), and   *)
(* the Fluxion matcher, which puts every slot of a job on one node and never*)
(* gives out more than the graph has.                                       *)
(***************************************************************************)
EXTENDS Integers, Sequences, FiniteSets, FiniteSetsExt, SequencesExt, Sums

CONSTANTS
    NodeItems,      \* the nodes, in the order the API server lists them
    Skipped,        \* control plane, skip label, or unschedulable
    ZoneOf,         \* label topology.kubernetes.io/zone
    Allocatable,    \* cpu (millicores), mem (bytes) and gpu of each node
    NoNode,
    Pods,
    Containers,     \* requests of the containers of each pod
    InitRequest,    \* the largest requests of its init containers
    Zoned,          \* pods with a jobspec label whose value is "zone"
    GroupOf,        \* the group of each pod, or NoGroup
    NoGroup,
    MinMember,
    JobIds,         \* ids of jobs; a bound on the number of live ones
    Core,           \* millicores in a core
    MB,             \* bytes in a megabyte
    Block           \* megabytes in a memory vertex

Nodes == ToSet(NodeItems)
Groups == {GroupOf[p] : p \in Pods} \ {NoGroup}
Kinds == {"cpu", "mem", "gpu"}
Amounts == [Kinds -> Nat]

ASSUME GraphAssumption ==
    /\ NodeItems \in Seq(Nodes) /\ IsInjective(NodeItems)
    /\ NoNode \notin Nodes
    /\ Allocatable \in [Nodes -> Amounts]
    /\ IsFiniteSet(Pods) /\ Zoned \subseteq Pods
    /\ Containers \in [Pods -> Seq(Amounts)]
    /\ InitRequest \in [Pods -> Amounts]
    /\ MinMember \in [Groups -> Nat]
    /\ {Core, MB, Block} \subseteq Nat \ {0}

VARIABLES
    phase,      \* of each pod: "new", "running" or "ended"
    at,         \* the node a pod is bound to
    pos,        \* index of the next node to read; 0 when the graph is loaded
    graph,      \* vertices; their id is their place in the sequence
    counted,    \* pods whose requests the graph leaves out
    jobs        \* live allocations

vars == <<phase, at, pos, graph, counted, jobs>>

Running(n) == {p \in Pods : phase[p] = "running" /\ at[p] = n}

(* What the containers of a pod request together, ... *)
ContainersRequest(p, k) ==
    SumOver(DOMAIN Containers[p], [i \in DOMAIN Containers[p] |-> Containers[p][i][k]])

(* ... and what Kubernetes reserves for it (PodRequestsAndLimits): init     *)
(* containers run first, one by one.                                        *)
Request(p, k) == Max({ContainersRequest(p, k), InitRequest[p][k]})

-----------------------------------------------------------------------------
(* The graph.                                                               *)

(* makeNewNode and MakeBidirectionalEdge: a vertex and the one it is under. *)
Vertex(type, basename, under) == [type |-> type, basename |-> basename, under |-> under]

(* InitCluster on a new graph *)
Cluster == <<Vertex("cluster", "k8scluster", 0)>>

(* getCounter: the id of the next vertex. *)
NextId == Len(graph) + 1

MakeSubnet(name) == Vertex("subnet", name, 1)
MakeNode(name, subnet) == Vertex("node", name, subnet)
MakeGPU(node) == Vertex("gpu", "nvidiagpu", node)
MakeCore(node) == Vertex("core", "core", node)
MakeMemory(node) == Vertex("memory", "memory", node)

Copies(n, v) == [i \in 1..n |-> v]

(* computeTotalRequests *)
TotalRequests(pods, k) == SumOver(pods, [p \in Pods |-> Request(p, k)])

(* Mutant: a core that is partly used is given out. *)
RoundedUpCores(n, pods) ==
    Max({0, (Allocatable[n]["cpu"] - TotalRequests(pods, "cpu") + Core - 1) \div Core})

AvailableCores(n, pods) ==
    Max({0, (Allocatable[n]["cpu"] - TotalRequests(pods, "cpu")) \div Core})

AvailableBlocks(n, pods) ==
    Max({0, (Allocatable[n]["mem"] - TotalRequests(pods, "mem")) \div (MB * Block)})

(* Mutant: the cores are put under the subnet. *)
VerticesUnderSubnet(n, pods) ==
    <<MakeSubnet(ZoneOf[n]), MakeNode(n, NextId)>>
      \o Copies(Allocatable[n]["gpu"], MakeGPU(NextId + 1))
      \o Copies(AvailableCores(n, pods), MakeCore(NextId))
      \o Copies(AvailableBlocks(n, pods), MakeMemory(NextId + 1))

(* One node: its subnet, made again for every node because the lookup of    *)
(* subnets is never written; the node; all its GPUs, used or not; the cores *)
(* and blocks of memory that the pods on it leave.                          *)
NewVertices(n, pods) ==
    <<MakeSubnet(ZoneOf[n]), MakeNode(n, NextId)>>
      \o Copies(Allocatable[n]["gpu"], MakeGPU(NextId + 1))
      \o Copies(AvailableCores(n, pods), MakeCore(NextId + 1))
      \o Copies(AvailableBlocks(n, pods), MakeMemory(NextId + 1))

(* The vertices of a type that hang below a node. *)
Below(n, type) ==
    Cardinality({i \in DOMAIN graph : /\ graph[i].type = type
                                      /\ graph[graph[i].under].type = "node"
                                      /\ graph[graph[i].under].basename = n})

Capacity(n, k) ==
    CASE k = "cpu" -> Below(n, "core")
      [] k = "mem" -> Block * Below(n, "memory")
      [] k = "gpu" -> Below(n, "gpu")

InGraph(n) == \E i \in DOMAIN graph : graph[i].type = "node" /\ graph[i].basename = n

-----------------------------------------------------------------------------
(* The job specification.                                                   *)

(* Mutant: MilliValue divided by 1000. *)
FloorCores(m) == m \div Core

(* Quantity.Value rounds up. *)
CeilCores(m) == (m + Core - 1) \div Core

(* PreparePodJobSpec: each container's cpu is rounded up to cores, no cores *)
(* at all become one; init containers are left out.                         *)
PodSpec(p) ==
    LET cpus == SumOver(DOMAIN Containers[p],
                        [i \in DOMAIN Containers[p] |-> CeilCores(Containers[p][i]["cpu"])])
    IN  [cpu |-> IF cpus = 0 THEN 1 ELSE cpus,
         mem |-> ContainersRequest(p, "mem"),
         gpu |-> ContainersRequest(p, "gpu")]

(* createSocketResources: what one slot asks for; memory is rounded down to *)
(* megabytes.                                                               *)
SlotSpec(spec) == [spec EXCEPT !.mem = @ \div MB]

(* What jobs take of a node, and what the graph still has of it. *)
Taken(n, k) == SumOver(jobs, [j \in jobs |-> j.slots[n] * j.spec[k]])
Free(n, k) == Capacity(n, k) - Taken(n, k)

(* The ways to place "count" slots.  createResources: with the zone label   *)
(* all of them go under one node.                                           *)
Allocations(spec, count, zoned) ==
    {slots \in [Nodes -> 0..count] :
        /\ SumOver(Nodes, slots) = count
        /\ \A n \in Nodes : slots[n] > 0 =>
             InGraph(n) /\ \A k \in Kinds : slots[n] * spec[k] <= Free(n, k)
        /\ zoned => Cardinality({n \in Nodes : slots[n] > 0}) <= 1}

(* The allocation as the matcher prints it: what is under a vertex comes    *)
(* before it.                                                               *)
PrintedNode(spec, slots, n) ==
    IF slots[n] = 0 THEN <<>>
    ELSE Copies(slots[n] * spec["cpu"], [type |-> "core", basename |-> "core"])
           \o Copies(slots[n] * spec["gpu"], [type |-> "gpu", basename |-> "nvidiagpu"])
           \o <<[type |-> "node", basename |-> n], [type |-> "subnet", basename |-> ZoneOf[n]]>>

Printed(spec, slots) ==
    FoldLeft(\o, <<>>, [i \in DOMAIN NodeItems |-> PrintedNode(spec, slots, NodeItems[i])])
      \o <<[type |-> "cluster", basename |-> "k8scluster"]>>

(* One turn of the loop of ParseAllocResult: the cores seen since the last  *)
(* node belong to this one.                                                 *)
ParseVertex(acc, v) ==
    CASE v.type = "core" -> [acc EXCEPT !.corecount = @ + 1]
      [] v.type = "node" ->
           [result |-> Append(acc.result, [node |-> v.basename, cores |-> acc.corecount]),
            corecount |-> 0]
      [] OTHER -> acc

(* Mutant: the count of cores goes on from node to node. *)
ParseWithoutReset(allocated) ==
    FoldLeft(LAMBDA acc, v :
               IF v.type = "node" THEN [ParseVertex(acc, v) EXCEPT !.corecount = acc.corecount]
                                  ELSE ParseVertex(acc, v),
             [result |-> <<>>, corecount |-> 0], allocated).result

ParseAllocResult(allocated) ==
    FoldLeft(ParseVertex, [result |-> <<>>, corecount |-> 0], allocated).result

(* Match: the Nodelist of its response. *)
NodeAllocs(spec, slots) ==
    LET parsed == ParseAllocResult(Printed(spec, slots))
    IN  {[node |-> parsed[i].node, tasks |-> parsed[i].cores \div spec["cpu"]] :
            i \in DOMAIN parsed}

-----------------------------------------------------------------------------
Init ==
    /\ phase = [p \in Pods |-> "new"]
    /\ at = [p \in Pods |-> NoNode]
    /\ pos = 1
    /\ graph = Cluster
    /\ counted = {}
    /\ jobs = {}

(* The resource filter of Kubernetes. *)
Fits(p, n) ==
    \A k \in Kinds : TotalRequests(Running(n) \cup {p}, k) <= Allocatable[n][k]

Place(p, n) ==
    /\ phase[p] = "new" /\ Fits(p, n)
    /\ phase' = [phase EXCEPT ![p] = "running"]
    /\ at' = [at EXCEPT ![p] = n]
    /\ UNCHANGED <<pos, graph, counted>>

(* Another scheduler binds a pod that is in no group. *)
OtherBind(p) ==
    /\ GroupOf[p] = NoGroup
    /\ \E n \in Nodes : Place(p, n)
    /\ UNCHANGED jobs

(* Each node of the list of a job is given to one pod of the group. *)
Open(j) == {a.node : a \in j.nodelist} \ {at[p] : p \in j.bound}

GangBind(p) ==
    \E j \in jobs : \E n \in Open(j) :
        /\ GroupOf[p] = GroupOf[j.asker]
        /\ Place(p, n)
        /\ jobs' = (jobs \ {j}) \cup {[j EXCEPT !.bound = @ \cup {p}]}

End(p) ==
    /\ phase[p] = "running"
    /\ phase' = [phase EXCEPT ![p] = "ended"]
    /\ UNCHANGED <<at, pos, graph, counted, jobs>>

(* One turn of the loop of CreateInClusterJGF: a node that is skipped, ... *)
SkipNode ==
    /\ pos \in DOMAIN NodeItems /\ NodeItems[pos] \in Skipped
    /\ pos' = pos + 1
    /\ UNCHANGED <<phase, at, graph, counted, jobs>>

(* ... or one that is read, with the pods on it at this moment. *)
ReadNode ==
    /\ pos \in DOMAIN NodeItems /\ NodeItems[pos] \notin Skipped
    /\ graph' = graph \o NewVertices(NodeItems[pos], Running(NodeItems[pos]))
    /\ counted' = counted \cup Running(NodeItems[pos])
    /\ pos' = pos + 1
    /\ UNCHANGED <<phase, at, jobs>>

(* WriteJGF, and InitContext on what was written. *)
LoadGraph ==
    /\ pos = Len(NodeItems) + 1
    /\ pos' = 0
    /\ UNCHANGED <<phase, at, graph, counted, jobs>>

(* InitFluxion returns on an error of the API server, and the service runs  *)
(* without a graph.                                                         *)
BuildFails ==
    /\ pos # 0
    /\ pos' = 0 /\ graph' = <<>> /\ counted' = {}
    /\ UNCHANGED <<phase, at, jobs>>

(* Match, for a group with a pod to schedule.  The job is made for the first*)
(* pod listed (pods[0]), which may be any of the group, in any phase; the   *)
(* group may have a job already, whose cancel was lost.                     *)
Match(p) ==
    /\ pos = 0
    /\ GroupOf[p] # NoGroup
    /\ \E q \in Pods : GroupOf[q] = GroupOf[p] /\ phase[q] = "new"
    /\ LET spec == SlotSpec(PodSpec(p))
       IN  \E id \in JobIds \ {j.id : j \in jobs},
              slots \in Allocations(spec, MinMember[GroupOf[p]], p \in Zoned) :
             jobs' = jobs \cup {[id |-> id, asker |-> p, spec |-> spec, slots |-> slots,
                                 nodelist |-> NodeAllocs(spec, slots), bound |-> {}]}
    /\ UNCHANGED <<phase, at, pos, graph, counted>>

(* The manager may cancel a job at any time, also while its pods run. *)
Cancel ==
    /\ \E j \in jobs : jobs' = jobs \ {j}
    /\ UNCHANGED <<phase, at, pos, graph, counted>>

(* The sidecar starts again and builds another graph. *)
Restart ==
    /\ pos' = 1 /\ graph' = Cluster /\ counted' = {} /\ jobs' = {}
    /\ UNCHANGED <<phase, at>>

Next ==
    \/ \E p \in Pods : OtherBind(p) \/ GangBind(p) \/ End(p) \/ Match(p)
    \/ SkipNode \/ ReadNode \/ LoadGraph \/ BuildFails \/ Cancel \/ Restart

Spec == Init /\ [][Next]_vars

-----------------------------------------------------------------------------
Parent == [subnet |-> "cluster", node |-> "subnet",
           gpu |-> "node", core |-> "node", memory |-> "node"]

(* Types, and the shape of the graph whatever node the loop has reached:    *)
(* every vertex but the first is under an earlier one of the type that      *)
(* contains it (the edges MakeBidirectionalEdge makes), and a node is there *)
(* once.                                                                    *)
TypeOK ==
    /\ phase \in [Pods -> {"new", "running", "ended"}]
    /\ at \in [Pods -> Nodes \cup {NoNode}]
    /\ pos \in 0..Len(NodeItems) + 1
    /\ counted \subseteq Pods
    /\ \A i \in DOMAIN graph \ {1} :
         /\ graph[i].under \in 1..(i - 1)
         /\ graph[graph[i].under].type = Parent[graph[i].type]
    /\ \A i, k \in DOMAIN graph :
         graph[i].type = "node" /\ graph[k].type = "node"
           /\ graph[i].basename = graph[k].basename => i = k
    /\ \A j \in jobs : /\ j.id \in JobIds /\ j.asker \in Pods
                       /\ j.slots \in [Nodes -> Nat] /\ j.bound \subseteq Pods

Used(n, k) == TotalRequests(counted \cap Running(n), k)
Promised(n, k) == SumOver(jobs, [j \in jobs |-> j.slots[n] * Request(j.asker, k)])

(* What a slot does not ask for: init containers, fractions of a megabyte.  *)
Unasked(p, k) ==
    Request(p, k) - IF k = "mem" THEN ContainersRequest(p, k) - (ContainersRequest(p, k) % MB)
                                 ELSE ContainersRequest(p, k)

(* What the graph counts as available although it is in use. *)
Uncounted(n, k) == IF k = "gpu" THEN TotalRequests(counted \cap Running(n), k) ELSE 0

(* The jobs the sidecar grants on a node and the pods that were there when  *)
(* the node was read together fit the node, up to what the code is known to *)
(* leave out: rounding to cores and blocks on one side and rounding of the  *)
(* requests on the other never add up to more.                              *)
NodeNotOversold ==
    \A n \in Nodes, k \in Kinds :
        Used(n, k) + Promised(n, k) <=
            Allocatable[n][k] + Uncounted(n, k)
              + SumOver(jobs, [j \in jobs |-> j.slots[n] * Unasked(j.asker, k)])

(* The pods on a node that the sidecar knows of: counted when the node was  *)
(* read, or bound to a slot of a live job.                                  *)
Accounted(n) == Running(n) \subseteq counted \cup UNION {j.bound : j \in jobs}

(* A pod that a live job sends to a node, the asker or a sibling that       *)
(* requests the same, is not refused there for want of resources, unless the*)
(* sidecar cannot know better: a pod was bound after the node was read, or  *)
(* outlives its job, or the code leaves its requests out.  Otherwise the    *)
(* gang would wait at Permit in vain.                                       *)
SentWhereItFits ==
    \A j \in jobs, p \in Pods : \A n \in Open(j) :
        (/\ phase[p] = "new" /\ GroupOf[p] = GroupOf[j.asker]
         /\ \A k \in Kinds : Request(p, k) = Request(j.asker, k)
         /\ Accounted(n)
         /\ \A k \in Kinds : /\ Uncounted(n, k) = 0
                             /\ \A i \in jobs : i.slots[n] > 0 => Unasked(i.asker, k) = 0)
        => Fits(p, n)

(* The list of nodes and tasks that Match returns is the allocation: every  *)
(* node with slots once, with the number of its slots (ParseAllocResult     *)
(* counts cores over the whole output, Match divides by the cores of a pod).*)
TasksMatchSlots ==
    \A j \in jobs :
        j.nodelist = {[node |-> n, tasks |-> j.slots[n]] :
                         n \in {m \in Nodes : j.slots[m] > 0}}
=============================================================================
