----------------------------- MODULE GraphProofs -----------------------------
(***************************************************************************)
(* Proofs about ResourceGraph for any nodes, pods, requests and units.      *)
(***************************************************************************)
EXTENDS ResourceGraph, SumProofs, SequenceTheorems

Names == Nodes \cup {ZoneOf[n] : n \in Nodes} \cup {"k8scluster", "nvidiagpu", "core", "memory"}
Vertices == [type : {"cluster", "subnet", "node", "gpu", "core", "memory"},
             basename : Names, under : Nat]

(* The tree below the cluster, with every node once. *)
Tree(G) ==
    /\ G # <<>> => G[1].type = "cluster"
    /\ \A i \in DOMAIN G \ {1} :
         /\ G[i].under \in 1..(i - 1)
         /\ G[G[i].under].type = Parent[G[i].type]
    /\ \A i, k \in DOMAIN G :
         G[i].type = "node" /\ G[k].type = "node"
           /\ G[i].basename = G[k].basename => i = k

(* The graph is a tree; of the nodes still to be read none is in it. *)
GraphShape ==
    /\ graph \in Seq(Vertices) /\ Tree(graph)
    /\ pos # 0 => graph # <<>>
    /\ pos # 0 => \A i \in DOMAIN graph : graph[i].type = "node" =>
                     \E m \in 1..(pos - 1) : NodeItems[m] = graph[i].basename

PodShape ==
    /\ phase \in [Pods -> {"new", "running", "ended"}]
    /\ at = [p \in Pods |-> at[p]]
    /\ pos \in 0..Len(NodeItems) + 1
    /\ counted \subseteq {p \in Pods : phase[p] # "new"}

(* A job is for what the asking pod specifies, ... *)
IsJob(j) ==
    /\ j = [id |-> j.id, asker |-> j.asker, spec |-> j.spec, slots |-> j.slots,
            nodelist |-> j.nodelist, bound |-> j.bound]
    /\ j.id \in JobIds /\ j.asker \in Pods /\ j.slots \in [Nodes -> Nat] /\ j.bound \subseteq Pods
    /\ j.spec = SlotSpec(PodSpec(j.asker))

(* ... and is granted on a loaded graph. *)
JobShape ==
    /\ IsFiniteSet(jobs)
    /\ pos # 0 => jobs = {}
    /\ \A j \in jobs : IsJob(j)

(* Kubernetes overfills no node. *)
PodsFit == \A n \in Nodes, k \in Kinds : TotalRequests(Running(n), k) <= Allocatable[n][k]

Unit == [cpu |-> Core, mem |-> MB, gpu |-> 1]

(* The graph has no more of a node than the counted pods leave. *)
GraphFits ==
    \A n \in Nodes, k \in Kinds :
        Unit[k] * Capacity(n, k) + (IF k = "gpu" THEN 0 ELSE Used(n, k)) <= Allocatable[n][k]

(* The jobs take no more of a node than the graph has. *)
JobsFit == \A n \in Nodes, k \in Kinds : Taken(n, k) <= Capacity(n, k)

-----------------------------------------------------------------------------
(* Numbers.                                                                 *)

LEMMA MaxOfTwo ==
    ASSUME NEW a \in Int, NEW b \in Int
    PROVE  Max({a, b}) \in {a, b} /\ Max({a, b}) >= a /\ Max({a, b}) >= b
<1> DEFINE P(x) == \A y \in {a, b} : x >= y
<1>1. \E x \in {a, b} : P(x)
  OBVIOUS
<1>2. Max({a, b}) = CHOOSE x \in {a, b} : P(x)
  BY DEF Max
<1>3. Max({a, b}) \in {a, b} /\ P(Max({a, b}))
  BY <1>1, <1>2
<1> QED BY <1>3

LEMMA Units == Core \in Nat \ {0} /\ MB \in Nat \ {0} /\ Block \in Nat \ {0}
BY GraphAssumption

(* Rounding down, and rounding up. *)
LEMMA Rounding ==
    ASSUME NEW m \in Nat, NEW d \in Nat \ {0}
    PROVE  /\ m \div d \in Nat /\ d * (m \div d) <= m /\ d * (m \div d) = m - (m % d)
           /\ (m + d - 1) \div d \in Nat /\ d * ((m + d - 1) \div d) >= m
<1>1. \A x \in Nat : /\ x \div d \in Nat /\ x % d \in 0..(d - 1)
                     /\ x = d * (x \div d) + (x % d)
  OBVIOUS
<1>2. m + d - 1 \in Nat
  OBVIOUS
<1> DEFINE q == (m + d - 1) \div d
           r == (m + d - 1) % d
<1>3. q \in Nat /\ r \in 0..(d - 1) /\ m + d - 1 = d * q + r
  BY <1>1, <1>2
<1>4. d * q >= m
  <2>1. d * q \in Int
    BY <1>3
  <2> HIDE DEF q, r
  <2> QED BY <1>3, <2>1
<1> HIDE DEF q
<1>5. /\ m \div d \in Nat /\ m % d \in 0..(d - 1) /\ m = d * (m \div d) + (m % d)
  BY <1>1
<1>6. d * (m \div d) <= m /\ d * (m \div d) = m - (m % d)
  <2> DEFINE a == d * (m \div d)
             b == m % d
  <2>1. a \in Int /\ b \in Nat /\ m = a + b
    BY <1>5
  <2> HIDE DEF a, b
  <2>2. a <= m /\ a = m - b
    BY <2>1
  <2> QED BY <2>2 DEF a, b
<1> QED BY <1>3, <1>4, <1>5, <1>6 DEF q

-----------------------------------------------------------------------------
(* Requests.                                                                *)

LEMMA PodContainers ==
    ASSUME NEW p \in Pods
    PROVE  /\ IsFiniteSet(DOMAIN Containers[p])
           /\ \A i \in DOMAIN Containers[p], k \in Kinds : Containers[p][i][k] \in Nat
<1>1. Containers[p] \in Seq(Amounts)
  BY GraphAssumption
<1>2. Len(Containers[p]) \in Nat /\ DOMAIN Containers[p] = 1..Len(Containers[p])
  BY <1>1
<1>3. IsFiniteSet(DOMAIN Containers[p])
  BY <1>2, FS_Interval
<1>4. \A i \in DOMAIN Containers[p] : Containers[p][i] \in Amounts
  BY <1>1
<1> QED BY <1>3, <1>4 DEF Amounts

LEMMA RequestTypes ==
    ASSUME NEW p \in Pods, NEW k \in Kinds
    PROVE  ContainersRequest(p, k) \in Nat /\ Request(p, k) \in Nat
<1> DEFINE D == DOMAIN Containers[p]
           f == [i \in D |-> Containers[p][i][k]]
<1>1. IsFiniteSet(D) /\ \A i \in D : f[i] \in Nat
  BY PodContainers
<1>2. ContainersRequest(p, k) = SumOver(D, f)
  BY DEF ContainersRequest
<1> HIDE DEF D, f
<1>3. ContainersRequest(p, k) \in Nat
  BY <1>1, <1>2, SumNat
<1>4. InitRequest[p][k] \in Nat
  BY GraphAssumption DEF Amounts
<1>5. Request(p, k) \in {ContainersRequest(p, k), InitRequest[p][k]}
  <2> DEFINE a == ContainersRequest(p, k)
             b == InitRequest[p][k]
  <2>1. Request(p, k) = Max({a, b})
    BY DEF Request
  <2>2. a \in Int /\ b \in Int
    BY <1>3, <1>4
  <2> HIDE DEF a, b
  <2>3. Max({a, b}) \in {a, b}
    BY <2>2, MaxOfTwo
  <2> QED BY <2>1, <2>3 DEF a, b
<1> QED BY <1>3, <1>4, <1>5

LEMMA TotalTypes ==
    ASSUME NEW S \in SUBSET Pods, NEW T \in SUBSET S, NEW k \in Kinds
    PROVE  /\ TotalRequests(S, k) \in Nat /\ TotalRequests(T, k) \in Nat
           /\ TotalRequests(T, k) <= TotalRequests(S, k)
<1> DEFINE f == [p \in Pods |-> Request(p, k)]
<1>1. \A p \in Pods : f[p] \in Nat
  BY RequestTypes
<1>2. IsFiniteSet(S) /\ IsFiniteSet(T)
  BY GraphAssumption, FS_Subset
<1>3. TotalRequests(S, k) = SumOver(S, f) /\ TotalRequests(T, k) = SumOver(T, f)
  BY DEF TotalRequests
<1> HIDE DEF f
<1> QED BY <1>1, <1>2, <1>3, SumNat, SumSubset

(* What a pod's slot asks for, in whole units, covers what its containers   *)
(* request, up to a fraction of a megabyte.                                 *)
Asked(p, k) == Request(p, k) - Unasked(p, k)

LEMMA SpecCovers ==
    ASSUME NEW p \in Pods, NEW k \in Kinds
    PROVE  /\ SlotSpec(PodSpec(p))[k] \in Nat
           /\ Asked(p, k) \in Int /\ Unasked(p, k) \in Int
           /\ Asked(p, k) <= Unit[k] * SlotSpec(PodSpec(p))[k]
<1> DEFINE spec == SlotSpec(PodSpec(p))
           D == DOMAIN Containers[p]
           f == [i \in D |-> Containers[p][i]["cpu"]]
           c == [i \in D |-> CeilCores(Containers[p][i]["cpu"])]
           h == [i \in D |-> Core * CeilCores(Containers[p][i]["cpu"])]
           cpus == SumOver(D, c)
           mem == ContainersRequest(p, "mem")
           gpu == ContainersRequest(p, "gpu")
           cr == ContainersRequest(p, k)
           rq == Request(p, k)
<1>1. spec = [cpu |-> IF cpus = 0 THEN 1 ELSE cpus, mem |-> mem \div MB, gpu |-> gpu]
  <2> DEFINE n == IF cpus = 0 THEN 1 ELSE cpus
             r == [cpu |-> n, mem |-> mem, gpu |-> gpu]
  <2>1. PodSpec(p) = r
    BY DEF PodSpec
  <2> HIDE DEF n, mem, gpu
  <2>2. [r EXCEPT !.mem = r.mem \div MB] = [cpu |-> n, mem |-> mem \div MB, gpu |-> gpu]
    OBVIOUS
  <2>3. SlotSpec(r) = [r EXCEPT !.mem = r.mem \div MB]
    BY DEF SlotSpec
  <2> QED BY <2>1, <2>2, <2>3 DEF n
<1>2. spec["cpu"] = (IF cpus = 0 THEN 1 ELSE cpus) /\ spec["mem"] = mem \div MB /\ spec["gpu"] = gpu
  BY <1>1
<1>3. cr \in Nat /\ rq \in Nat
  BY RequestTypes
<1>4. Unasked(p, k) = rq - (IF k = "mem" THEN cr - (cr % MB) ELSE cr)
  BY DEF Unasked
<1>5. CASE k = "cpu"
  <2>1. \A i \in D : /\ f[i] \in Nat /\ c[i] \in Nat /\ h[i] = Core * c[i] /\ h[i] \in Nat
                     /\ f[i] <= h[i]
    <3> SUFFICES ASSUME NEW i \in D
                 PROVE  /\ f[i] \in Nat /\ c[i] \in Nat /\ h[i] = Core * c[i]
                        /\ h[i] \in Nat /\ f[i] <= h[i]
      OBVIOUS
    <3>1. PICK m \in Nat : m = Containers[p][i]["cpu"]
      BY PodContainers DEF Kinds
    <3>2. CeilCores(m) \in Nat /\ Core * CeilCores(m) >= m
      BY Units, Rounding DEF CeilCores
    <3>3. f[i] = m /\ c[i] = CeilCores(m) /\ h[i] = Core * CeilCores(m)
      BY <3>1
    <3> HIDE DEF f, c, h, D
    <3>4. PICK q \in Nat : q = CeilCores(m) /\ Core * q \in Nat
      BY <3>2, Units
    <3> QED BY <3>2, <3>3, <3>4, Units
  <2>2. IsFiniteSet(D) /\ cr = SumOver(D, f)
    BY <1>5, PodContainers DEF ContainersRequest
  <2> HIDE DEF f, c, h, D, cr, rq
  <2>3. cpus \in Nat
    BY <2>1, <2>2, SumNat
  <2>4. SumOver(D, f) <= SumOver(D, h)
    BY <2>1, <2>2, SumMonotone
  <2>5. SumOver(D, h) = Core * cpus
    BY <2>1, <2>2, Units, SumScale
  <2> HIDE DEF cpus, spec
  <2>6. cr <= Core * cpus
    BY <2>2, <2>4, <2>5
  <2>7. spec["cpu"] \in Nat /\ Core * cpus <= Core * spec["cpu"]
    BY <1>2, <2>3, Units
  <2>8. Core * cpus \in Int /\ Core * spec["cpu"] \in Int
    BY <2>3, <2>7, Units
  <2>9. Unasked(p, k) = rq - cr
    BY <1>4, <1>5
  <2>10. Asked(p, k) = cr /\ Unasked(p, k) \in Int
    BY <1>3, <2>9 DEF Asked, rq
  <2>11. Unit[k] = Core
    BY <1>5 DEF Unit
  <2>12. cr <= Core * spec["cpu"]
    BY <1>3, <2>6, <2>7, <2>8
  <2> QED BY <1>3, <1>5, <2>7, <2>10, <2>11, <2>12 DEF spec
<1>6. CASE k = "mem"
  <2>1. /\ mem = cr /\ mem \div MB \in Nat /\ MB * (mem \div MB) = cr - (cr % MB)
    BY <1>3, <1>6, Units, Rounding
  <2>2. MB * (mem \div MB) \in Int
    BY <2>1, Units
  <2> DEFINE a == MB * (mem \div MB)
             d == mem \div MB
  <2>3. Unasked(p, k) = rq - a
    BY <1>4, <1>6, <2>1
  <2>4. Unit[k] = MB /\ spec[k] = d /\ a = MB * d /\ d \in Nat
    BY <1>2, <1>6, <2>1 DEF Unit
  <2> HIDE DEF a, d, spec
  <2>5. Asked(p, k) = a /\ Unasked(p, k) \in Int /\ a \in Int
    BY <1>3, <2>2, <2>3 DEF Asked, a
  <2> QED BY <2>4, <2>5 DEF spec
<1>7. CASE k = "gpu"
  <2>1. /\ Unasked(p, k) = rq - cr /\ spec[k] = cr /\ Unit[k] = 1
    BY <1>2, <1>4, <1>7 DEF Unit
  <2> HIDE DEF spec, cr
  <2>2. Asked(p, k) = cr /\ Unasked(p, k) \in Int
    BY <1>3, <2>1 DEF Asked
  <2> QED BY <1>3, <2>1, <2>2 DEF spec
<1> QED BY <1>5, <1>6, <1>7 DEF Kinds

-----------------------------------------------------------------------------
(* The graph.                                                               *)

LEMMA AvailableTypes ==
    ASSUME NEW n \in Nodes, NEW S \in SUBSET Pods,
           \A k \in Kinds : TotalRequests(S, k) <= Allocatable[n][k]
    PROVE  /\ Allocatable[n]["gpu"] \in Nat
           /\ AvailableCores(n, S) \in Nat /\ AvailableBlocks(n, S) \in Nat
           /\ Core * AvailableCores(n, S) + TotalRequests(S, "cpu") <= Allocatable[n]["cpu"]
           /\ MB * (Block * AvailableBlocks(n, S)) + TotalRequests(S, "mem")
                <= Allocatable[n]["mem"]
<1>1. \A k \in Kinds : /\ Allocatable[n][k] \in Nat /\ TotalRequests(S, k) \in Nat
                       /\ Allocatable[n][k] - TotalRequests(S, k) \in Nat
  BY GraphAssumption, TotalTypes DEF Amounts
<1>2. ASSUME NEW m \in Nat, NEW d \in Nat \ {0}
      PROVE  /\ Max({0, m \div d}) \in Nat /\ d * Max({0, m \div d}) <= m
             /\ d * Max({0, m \div d}) \in Int
  <2> DEFINE q == m \div d
  <2>1. q \in Nat /\ d * q <= m /\ d * q \in Int
    BY Rounding
  <2> DEFINE z == 0
  <2>2. z \in Int /\ q \in Int
    BY <2>1
  <2> HIDE DEF q, z
  <2>3. Max({z, q}) \in {z, q} /\ Max({z, q}) >= q
    BY <2>2, MaxOfTwo
  <2>4. Max({z, q}) = q
    BY <2>1, <2>3 DEF z
  <2> QED BY <2>1, <2>4 DEF q, z
<1>3. /\ AvailableCores(n, S) \in Nat
      /\ Core * AvailableCores(n, S) + TotalRequests(S, "cpu") <= Allocatable[n]["cpu"]
  <2> DEFINE A == Allocatable[n]["cpu"]
             T == TotalRequests(S, "cpu")
             m == A - T
             q == AvailableCores(n, S)
  <2>1. A \in Nat /\ T \in Nat /\ m \in Nat
    BY <1>1 DEF Kinds
  <2>2. q = Max({0, m \div Core})
    BY DEF AvailableCores
  <2> HIDE DEF q
  <2>3. q \in Nat /\ Core * q <= m /\ Core * q \in Int
    BY <1>2, <2>1, <2>2, Units
  <2> HIDE DEF A, T
  <2>4. Core * q + T <= A
    BY <2>1, <2>3
  <2> QED BY <2>3, <2>4 DEF A, T, q
<1>4. /\ AvailableBlocks(n, S) \in Nat
      /\ MB * (Block * AvailableBlocks(n, S)) + TotalRequests(S, "mem") <= Allocatable[n]["mem"]
  <2> DEFINE A == Allocatable[n]["mem"]
             T == TotalRequests(S, "mem")
             m == A - T
             q == AvailableBlocks(n, S)
             d == MB * Block
  <2>1. A \in Nat /\ T \in Nat /\ m \in Nat
    BY <1>1 DEF Kinds
  <2>2. q = Max({0, m \div d})
    BY DEF AvailableBlocks
  <2>3. d \in Nat \ {0}
    BY Units
  <2> HIDE DEF q
  <2>4. q \in Nat /\ d * q <= m /\ d * q \in Int
    <3> HIDE DEF d, m
    <3> QED BY <1>2, <2>1, <2>2, <2>3
  <2>5. MB * (Block * q) = d * q
    BY <2>4, Units
  <2> HIDE DEF A, T, d
  <2>6. d * q + T <= A
    BY <2>1, <2>4
  <2> QED BY <2>4, <2>5, <2>6 DEF A, T, q
<1>5. Allocatable[n]["gpu"] \in Nat
  BY <1>1 DEF Kinds
<1> QED BY <1>3, <1>4, <1>5

LEMMA CopiesType ==
    ASSUME NEW V, NEW v \in V, NEW n \in Nat
    PROVE  /\ Copies(n, v) \in Seq(V) /\ Len(Copies(n, v)) = n
           /\ \A i \in 1..n : Copies(n, v)[i] = v
<1>1. Copies(n, v) \in [1..n -> V] /\ \A i \in 1..n : Copies(n, v)[i] = v
  BY DEF Copies
<1> QED BY <1>1

(* A sequence and copies of a vertex. *)
Extends(u, s, v, l) ==
    /\ u = s \o Copies(l, v)
    /\ Len(u) = Len(s) + l
    /\ \A i \in 1..Len(s) : u[i] = s[i]
    /\ \A i \in (Len(s) + 1)..(Len(s) + l) : u[i] = v

LEMMA ThenCopies ==
    ASSUME NEW V, NEW s \in Seq(V), NEW v \in V, NEW l \in Nat
    PROVE  \E u \in Seq(V) : Extends(u, s, v, l)
<1> DEFINE t == Copies(l, v)
<1>1. t \in Seq(V) /\ Len(t) = l
  BY CopiesType
<1>2. \A i \in 1..l : t[i] = v
  BY CopiesType
<1>3. Len(s) \in Nat
  OBVIOUS
<1> HIDE DEF t
<1>4. /\ s \o t \in Seq(V) /\ Len(s \o t) = Len(s) + l
      /\ \A i \in 1..Len(s) : (s \o t)[i] = s[i]
  BY <1>1
<1>5. ASSUME NEW i \in (Len(s) + 1)..(Len(s) + l) PROVE (s \o t)[i] = v
  <2>1. i - Len(s) \in 1..l
    BY <1>3
  <2>2. (s \o t)[i] = t[i - Len(s)]
    BY <1>1
  <2> QED BY <1>2, <2>1, <2>2
<1>6. \A i \in (Len(s) + 1)..(Len(s) + l) : (s \o t)[i] = v
  BY <1>5
<1>7. PICK u : u = s \o t
  OBVIOUS
<1>8. /\ u \in Seq(V) /\ Len(u) = Len(s) + l
      /\ \A i \in 1..Len(s) : u[i] = s[i]
      /\ \A i \in (Len(s) + 1)..(Len(s) + l) : u[i] = v
  BY <1>4, <1>6, <1>7
<1> QED BY <1>7, <1>8 DEF t, Extends

(* Two vertices, and so many copies of three others. *)
Joined(a, b, vg, vc, vm, g, c, m) == <<a, b>> \o Copies(g, vg) \o Copies(c, vc) \o Copies(m, vm)

InParts(s, a, b, vg, vc, vm, g, c, m) ==
    /\ Len(s) = 2 + g + c + m
    /\ s[1] = a /\ s[2] = b
    /\ \A i \in 3..(2 + g) : s[i] = vg
    /\ \A i \in (3 + g)..(2 + g + c) : s[i] = vc
    /\ \A i \in (3 + g + c)..(2 + g + c + m) : s[i] = vm

LEMMA Parts ==
    ASSUME NEW V, NEW a \in V, NEW b \in V, NEW vg \in V, NEW vc \in V, NEW vm \in V,
           NEW g \in Nat, NEW c \in Nat, NEW m \in Nat
    PROVE  /\ Joined(a, b, vg, vc, vm, g, c, m) \in Seq(V)
           /\ InParts(Joined(a, b, vg, vc, vm, g, c, m), a, b, vg, vc, vm, g, c, m)
<1>1. PICK s0 \in Seq(V) : s0 = <<a, b>> /\ Len(s0) = 2 /\ s0[1] = a /\ s0[2] = b
  <2>1. <<a, b>> \in Seq(V) /\ Len(<<a, b>>) = 2 /\ <<a, b>>[1] = a /\ <<a, b>>[2] = b
    OBVIOUS
  <2> QED BY <2>1, Zenon
<1>2. PICK s1 \in Seq(V) : Extends(s1, s0, vg, g)
  BY ThenCopies
<1>3. PICK s2 \in Seq(V) : Extends(s2, s1, vc, c)
  BY ThenCopies
<1>4. PICK s3 \in Seq(V) : Extends(s3, s2, vm, m)
  BY ThenCopies
<1>5. s3 = Joined(a, b, vg, vc, vm, g, c, m)
  BY <1>1, <1>2, <1>3, <1>4 DEF Extends, Joined
<1>6. Len(s0) = 2 /\ Len(s1) = 2 + g /\ Len(s2) = 2 + g + c /\ Len(s3) = 2 + g + c + m
  BY <1>1, <1>2, <1>3, <1>4 DEF Extends
<1>7. s3[1] = a /\ s3[2] = b
  <2>1. s1[1] = a /\ s1[2] = b
    BY <1>1, <1>2, <1>6 DEF Extends
  <2>2. s2[1] = a /\ s2[2] = b
    BY <1>3, <1>6, <2>1 DEF Extends
  <2>3. 1 \in 1..Len(s2) /\ 2 \in 1..Len(s2)
    BY <1>6
  <2>4. \A i \in 1..Len(s2) : s3[i] = s2[i]
    BY <1>4 DEF Extends
  <2> QED BY <2>2, <2>3, <2>4
<1>8. \A i \in 3..(2 + g) : s3[i] = vg
  <2> SUFFICES ASSUME NEW i \in 3..(2 + g) PROVE s3[i] = vg
    OBVIOUS
  <2>1. s1[i] = vg
    BY <1>2, <1>6 DEF Extends
  <2>2. s2[i] = s1[i]
    BY <1>3, <1>6 DEF Extends
  <2>3. s3[i] = s2[i]
    BY <1>4, <1>6 DEF Extends
  <2> QED BY <2>1, <2>2, <2>3
<1>9. \A i \in (3 + g)..(2 + g + c) : s3[i] = vc
  <2> SUFFICES ASSUME NEW i \in (3 + g)..(2 + g + c) PROVE s3[i] = vc
    OBVIOUS
  <2>1. s2[i] = vc
    BY <1>3, <1>6 DEF Extends
  <2>2. s3[i] = s2[i]
    BY <1>4, <1>6 DEF Extends
  <2> QED BY <2>1, <2>2
<1>10. \A i \in (3 + g + c)..(2 + g + c + m) : s3[i] = vm
  BY <1>4, <1>6 DEF Extends
<1>11. InParts(s3, a, b, vg, vc, vm, g, c, m)
  BY <1>6, <1>7, <1>8, <1>9, <1>10 DEF InParts
<1> QED BY <1>5, <1>11

(* H is the graph G with a subnet, the node n, and its g GPUs, c cores and  *)
(* m blocks of memory.                                                      *)
Grown(G, H, n, g, c, m) ==
    /\ Len(H) = Len(G) + 2 + g + c + m
    /\ \A i \in 1..Len(G) : H[i] = G[i]
    /\ H[Len(G) + 1].type = "subnet" /\ H[Len(G) + 1].under = 1
    /\ H[Len(G) + 2].type = "node" /\ H[Len(G) + 2].under = Len(G) + 1
    /\ H[Len(G) + 2].basename = n
    /\ \A i \in (Len(G) + 3)..Len(H) :
         /\ H[i].under = Len(G) + 2
         /\ \/ H[i].type = "gpu" /\ i <= Len(G) + 2 + g
            \/ H[i].type = "core" /\ i > Len(G) + 2 + g /\ i <= Len(G) + 2 + g + c
            \/ H[i].type = "memory" /\ i > Len(G) + 2 + g + c

NodeVertices(k, n, g, c, m) ==
    Joined(MakeSubnet(ZoneOf[n]), MakeNode(n, k), MakeGPU(k + 1), MakeCore(k + 1),
           MakeMemory(k + 1), g, c, m)

LEMMA ReadGrows ==
    ASSUME NEW G \in Seq(Vertices), NEW n \in Nodes, NEW g \in Nat, NEW c \in Nat, NEW m \in Nat
    PROVE  \E H \in Seq(Vertices) :
             /\ H = G \o NodeVertices(Len(G) + 1, n, g, c, m)
             /\ Grown(G, H, n, g, c, m)
<1> DEFINE L == Len(G)
           a == MakeSubnet(ZoneOf[n])
           b == MakeNode(n, L + 1)
           vg == MakeGPU(L + 2)
           vc == MakeCore(L + 2)
           vm == MakeMemory(L + 2)
<1>1. L \in Nat /\ L + 1 \in Nat /\ L + 2 \in Nat /\ (L + 1) + 1 = L + 2
  OBVIOUS
<1>2. {a, b, vg, vc, vm} \subseteq Vertices
  BY <1>1 DEF MakeSubnet, MakeNode, MakeGPU, MakeCore, MakeMemory, Vertex, Vertices, Names
<1>3. /\ a.type = "subnet" /\ a.under = 1
      /\ b.type = "node" /\ b.under = L + 1 /\ b.basename = n
      /\ vg.type = "gpu" /\ vg.under = L + 2
      /\ vc.type = "core" /\ vc.under = L + 2
      /\ vm.type = "memory" /\ vm.under = L + 2
  BY DEF MakeSubnet, MakeNode, MakeGPU, MakeCore, MakeMemory, Vertex
<1>4. NodeVertices(L + 1, n, g, c, m) = Joined(a, b, vg, vc, vm, g, c, m)
  BY <1>1 DEF NodeVertices
<1> HIDE DEF a, b, vg, vc, vm
<1>5. PICK s \in Seq(Vertices) :
        s = NodeVertices(L + 1, n, g, c, m) /\ InParts(s, a, b, vg, vc, vm, g, c, m)
  BY <1>2, <1>4, Parts
<1>6. PICK H : H = G \o s
  OBVIOUS
<1>7. H \in Seq(Vertices) /\ Len(H) = L + Len(s) /\ \A i \in 1..L : H[i] = G[i]
  BY <1>6
<1>8. \A i \in 1..Len(s) : H[L + i] = s[i]
  BY <1>1, <1>6
<1>a. Len(s) = 2 + g + c + m
  BY <1>5 DEF InParts
<1>9. Len(H) = L + 2 + g + c + m
  BY <1>1, <1>7, <1>a
<1>10. H[L + 1] = a /\ H[L + 2] = b
  <2>1. s[1] = a /\ s[2] = b
    BY <1>5 DEF InParts
  <2> QED BY <1>8, <1>a, <2>1
<1>11. ASSUME NEW i \in (L + 3)..Len(H)
       PROVE  /\ H[i].under = L + 2
              /\ \/ H[i].type = "gpu" /\ i <= L + 2 + g
                 \/ H[i].type = "core" /\ i > L + 2 + g /\ i <= L + 2 + g + c
                 \/ H[i].type = "memory" /\ i > L + 2 + g + c
  <2>1. PICK k \in 3..Len(s) : i = L + k
    <3>1. i - L \in 3..Len(s) /\ i = L + (i - L)
      BY <1>1, <1>7
    <3> QED BY <3>1
  <2>2. H[i] = s[k]
    BY <1>8, <2>1
  <2>3. CASE k <= 2 + g
    <3>1. s[k] = vg
      BY <1>5, <2>3 DEF InParts
    <3>2. H[i].type = "gpu" /\ H[i].under = L + 2
      BY <1>3, <2>2, <3>1
    <3>3. i <= L + 2 + g
      BY <1>1, <2>1, <2>3
    <3> QED BY <3>2, <3>3
  <2>4. CASE k > 2 + g /\ k <= 2 + g + c
    <3>1. s[k] = vc
      BY <1>5, <2>4 DEF InParts
    <3>2. H[i].type = "core" /\ H[i].under = L + 2
      BY <1>3, <2>2, <3>1
    <3>3. i > L + 2 + g /\ i <= L + 2 + g + c
      BY <1>1, <2>1, <2>4
    <3> QED BY <3>2, <3>3
  <2>5. CASE k > 2 + g + c
    <3>1. s[k] = vm
      BY <1>5, <1>a, <2>5 DEF InParts
    <3>2. H[i].type = "memory" /\ H[i].under = L + 2
      BY <1>3, <2>2, <3>1
    <3>3. i > L + 2 + g + c
      BY <1>1, <2>1, <2>5
    <3> QED BY <3>2, <3>3
  <2> QED BY <2>3, <2>4, <2>5
<1>12. Grown(G, H, n, g, c, m)
  BY <1>3, <1>7, <1>9, <1>10, <1>11 DEF Grown
<1> QED BY <1>5, <1>6, <1>7, <1>12

LEMMA GrownTree ==
    ASSUME NEW G \in Seq(Vertices), NEW H \in Seq(Vertices), NEW n,
           NEW g \in Nat, NEW c \in Nat, NEW m \in Nat, Grown(G, H, n, g, c, m),
           Tree(G), G # <<>>,
           \A i \in DOMAIN G : G[i].type = "node" => G[i].basename # n
    PROVE  Tree(H) /\ H # <<>>
<1> DEFINE L == Len(G)
<1>1. /\ L \in Nat /\ L >= 1 /\ DOMAIN G = 1..L /\ DOMAIN H = 1..Len(H)
      /\ Len(H) \in Nat /\ Len(H) >= L + 2
  BY DEF Grown
<1>2. /\ H[L + 1].type = "subnet" /\ H[L + 1].under = 1
      /\ H[L + 2].type = "node" /\ H[L + 2].under = L + 1 /\ H[L + 2].basename = n
  BY DEF Grown
<1>3. \A i \in 1..L : H[i] = G[i]
  BY DEF Grown
<1>4. \A i \in (L + 3)..Len(H) : H[i].under = L + 2 /\ H[i].type \in {"gpu", "core", "memory"}
  BY DEF Grown
<1>5. H # <<>> /\ H[1].type = "cluster"
  BY <1>1, <1>3 DEF Tree
<1>6. ASSUME NEW i \in DOMAIN H \ {1}
      PROVE  H[i].under \in 1..(i - 1) /\ H[H[i].under].type = Parent[H[i].type]
  <2>1. CASE i <= L
    <3>1. G[i].under \in 1..(i - 1) /\ G[G[i].under].type = Parent[G[i].type]
      BY <1>1, <2>1 DEF Tree
    <3> QED BY <1>1, <1>3, <2>1, <3>1
  <2>2. CASE i = L + 1
    BY <1>1, <1>2, <1>5, <2>2 DEF Parent
  <2>3. CASE i = L + 2
    BY <1>1, <1>2, <2>3 DEF Parent
  <2>4. CASE i \in (L + 3)..Len(H)
    BY <1>1, <1>2, <1>4, <2>4 DEF Parent
  <2> QED BY <1>1, <2>1, <2>2, <2>3, <2>4
<1>7. \A i \in DOMAIN H : H[i].type = "node" => i = L + 2 \/ (i \in DOMAIN G /\ H[i] = G[i])
  BY <1>1, <1>2, <1>3, <1>4
<1>8. ASSUME NEW i \in DOMAIN H, NEW k \in DOMAIN H, H[i].type = "node", H[k].type = "node",
             H[i].basename = H[k].basename
      PROVE  i = k
  BY <1>2, <1>7, <1>8 DEF Tree
<1> QED BY <1>5, <1>6, <1>8 DEF Tree

(* What hangs below a node, and the node itself when it is read. *)
BelowSet(G, n, type) ==
    {i \in DOMAIN G : /\ G[i].type = type
                      /\ G[G[i].under].type = "node" /\ G[G[i].under].basename = n}

LEMMA GrownBelow ==
    ASSUME NEW G \in Seq(Vertices), NEW H \in Seq(Vertices), NEW n,
           NEW g \in Nat, NEW c \in Nat, NEW m \in Nat, Grown(G, H, n, g, c, m),
           Tree(G), G # <<>>,
           \A i \in DOMAIN G : G[i].type = "node" => G[i].basename # n
    PROVE  /\ \A x, type : x # n /\ type \in {"gpu", "core", "memory"} =>
                BelowSet(H, x, type) = BelowSet(G, x, type)
           /\ Cardinality(BelowSet(H, n, "gpu")) = g
           /\ Cardinality(BelowSet(H, n, "core")) = c
           /\ Cardinality(BelowSet(H, n, "memory")) = m
<1> DEFINE L == Len(G)
<1>1. /\ L \in Nat /\ L >= 1 /\ DOMAIN G = 1..L /\ DOMAIN H = 1..Len(H)
      /\ Len(H) = L + 2 + g + c + m
  BY DEF Grown
<1>2. /\ H[L + 1].type = "subnet" /\ H[L + 2].type = "node" /\ H[L + 2].basename = n
  BY DEF Grown
<1>3. \A i \in 1..L : H[i] = G[i]
  BY DEF Grown
<1>4. \A i \in (L + 3)..Len(H) :
         /\ H[i].under = L + 2
         /\ \/ H[i].type = "gpu" /\ i <= L + 2 + g
            \/ H[i].type = "core" /\ i > L + 2 + g /\ i <= L + 2 + g + c
            \/ H[i].type = "memory" /\ i > L + 2 + g + c
  BY DEF Grown
<1>5. ASSUME NEW i \in 1..L, NEW type \in {"gpu", "core", "memory"}, H[i].type = type
      PROVE  H[i] = G[i] /\ G[i].under \in 1..L /\ H[H[i].under] = G[G[i].under]
  <2>1. H[i] = G[i] /\ i # 1
    BY <1>1, <1>3, <1>5 DEF Tree
  <2>2. G[i].under \in 1..(i - 1)
    BY <1>1, <2>1 DEF Tree
  <2> QED BY <1>1, <1>3, <2>1, <2>2
<1>6. ASSUME NEW x, NEW type \in {"gpu", "core", "memory"}, NEW i \in 1..L
      PROVE  i \in BelowSet(H, x, type) <=> i \in BelowSet(G, x, type)
  BY <1>1, <1>3, <1>5 DEF BelowSet
<1>7. ASSUME NEW x, NEW type \in {"gpu", "core", "memory"}, NEW i \in DOMAIN H, i \notin 1..L
      PROVE  i \in BelowSet(H, x, type) <=> i \in (L + 3)..Len(H) /\ x = n /\ H[i].type = type
  <2>1. CASE i \in (L + 3)..Len(H)
    BY <1>2, <1>4, <2>1 DEF BelowSet
  <2>2. CASE i \notin (L + 3)..Len(H)
    BY <1>1, <1>2, <1>7, <2>2 DEF BelowSet
  <2> QED BY <2>1, <2>2
<1>8. ASSUME NEW type \in {"gpu", "core", "memory"} PROVE BelowSet(G, n, type) = {}
  <2> SUFFICES ASSUME NEW i \in BelowSet(G, n, type) PROVE FALSE
    OBVIOUS
  <2>1. /\ i \in DOMAIN G /\ G[i].type = type
        /\ G[G[i].under].type = "node" /\ G[G[i].under].basename = n
    BY DEF BelowSet
  <2>2. G[i].under \in DOMAIN G
    <3>1. i # 1
      BY <2>1 DEF Tree
    <3>2. G[i].under \in 1..(i - 1)
      BY <2>1, <3>1 DEF Tree
    <3> QED BY <1>1, <2>1, <3>2
  <2> QED BY <2>1, <2>2
<1>9. ASSUME NEW x, NEW type, x # n, type \in {"gpu", "core", "memory"}
      PROVE  BelowSet(H, x, type) = BelowSet(G, x, type)
  <2>1. BelowSet(H, x, type) \subseteq DOMAIN H /\ BelowSet(G, x, type) \subseteq 1..L
    BY <1>1 DEF BelowSet
  <2>2. 1..L \subseteq DOMAIN H
    BY <1>1
  <2>3. \A i \in DOMAIN H : i \in BelowSet(H, x, type) <=> i \in BelowSet(G, x, type)
    <3> SUFFICES ASSUME NEW i \in DOMAIN H
                 PROVE  i \in BelowSet(H, x, type) <=> i \in BelowSet(G, x, type)
      OBVIOUS
    <3>1. CASE i \in 1..L
      BY <1>6, <1>9, <3>1
    <3>2. CASE i \notin 1..L
      BY <1>7, <1>9, <2>1, <3>2
    <3> QED BY <3>1, <3>2
  <2> QED BY <2>1, <2>2, <2>3
<1>10. ASSUME NEW type \in {"gpu", "core", "memory"}, NEW lo \in Int, NEW hi \in Int,
              lo >= L + 3, hi <= Len(H), hi - lo + 1 >= 0,
              \A i \in (L + 3)..Len(H) : H[i].type = type <=> lo <= i /\ i <= hi
       PROVE  Cardinality(BelowSet(H, n, type)) = hi - lo + 1
  <2>1. BelowSet(H, n, type) \subseteq DOMAIN H
    BY DEF BelowSet
  <2>2. \A i \in DOMAIN H : i \in BelowSet(H, n, type) <=> i \in lo..hi
    <3> SUFFICES ASSUME NEW i \in DOMAIN H PROVE i \in BelowSet(H, n, type) <=> i \in lo..hi
      OBVIOUS
    <3>1. CASE i \in 1..L
      BY <1>1, <1>6, <1>8, <1>10, <3>1
    <3>2. CASE i \notin 1..L
      <4>1. i \in BelowSet(H, n, type) <=> i \in (L + 3)..Len(H) /\ H[i].type = type
        BY <1>7, <3>2
      <4>2. i \in lo..hi => i \in (L + 3)..Len(H)
        BY <1>1, <1>10
      <4> QED BY <1>1, <1>10, <4>1, <4>2
    <3> QED BY <3>1, <3>2
  <2>3. lo..hi \subseteq DOMAIN H
    BY <1>1, <1>10
  <2>4. BelowSet(H, n, type) = lo..hi
    BY <2>1, <2>2, <2>3
  <2>5. Cardinality(lo..hi) = IF lo > hi THEN 0 ELSE hi - lo + 1
    BY FS_Interval
  <2> QED BY <1>10, <2>4, <2>5
<1>a. ASSUME NEW i \in (L + 3)..Len(H)
      PROVE  /\ H[i].type = "gpu" <=> i <= L + 2 + g
             /\ H[i].type = "core" <=> i > L + 2 + g /\ i <= L + 2 + g + c
             /\ H[i].type = "memory" <=> i > L + 2 + g + c
  <2> DEFINE x == H[i].type
  <2>1. PICK y \in Int, z \in Int : y = L + 2 + g /\ z = L + 2 + g + c
    BY <1>1
  <2>2. y <= z /\ i \in Int
    BY <1>1, <2>1
  <2>3. \/ x = "gpu" /\ i <= y
        \/ x = "core" /\ i > y /\ i <= z
        \/ x = "memory" /\ i > z
    BY <1>4, <2>1
  <2> HIDE DEF x
  <2>4. /\ x = "gpu" <=> i <= y
        /\ x = "core" <=> i > y /\ i <= z
        /\ x = "memory" <=> i > z
    BY <2>2, <2>3
  <2> QED BY <2>1, <2>4 DEF x
<1>11. Cardinality(BelowSet(H, n, "gpu")) = g
  <2> DEFINE lo == L + 3
             hi == L + 2 + g
  <2>1. /\ lo \in Int /\ hi \in Int /\ lo >= L + 3 /\ hi <= Len(H) /\ hi - lo + 1 = g
        /\ \A i \in (L + 3)..Len(H) : H[i].type = "gpu" <=> lo <= i /\ i <= hi
    <3>1. /\ lo \in Int /\ hi \in Int /\ lo >= L + 3 /\ hi <= Len(H) /\ hi - lo + 1 = g
      BY <1>1, <1>4
    <3> SUFFICES ASSUME NEW i \in (L + 3)..Len(H)
                 PROVE  H[i].type = "gpu" <=> lo <= i /\ i <= hi
      BY <3>1
    <3> QED BY <1>1, <1>a
  <2> HIDE DEF lo, hi
  <2>2. hi - lo + 1 >= 0
    BY <2>1
  <2>3. Cardinality(BelowSet(H, n, "gpu")) = hi - lo + 1
    BY <1>10, <2>1, <2>2
  <2> QED BY <2>1, <2>3
<1>12. Cardinality(BelowSet(H, n, "core")) = c
  <2> DEFINE lo == L + 3 + g
             hi == L + 2 + g + c
  <2>1. /\ lo \in Int /\ hi \in Int /\ lo >= L + 3 /\ hi <= Len(H) /\ hi - lo + 1 = c
        /\ \A i \in (L + 3)..Len(H) : H[i].type = "core" <=> lo <= i /\ i <= hi
    <3>1. /\ lo \in Int /\ hi \in Int /\ lo >= L + 3 /\ hi <= Len(H) /\ hi - lo + 1 = c
      BY <1>1, <1>4
    <3> SUFFICES ASSUME NEW i \in (L + 3)..Len(H)
                 PROVE  H[i].type = "core" <=> lo <= i /\ i <= hi
      BY <3>1
    <3> QED BY <1>1, <1>a
  <2> HIDE DEF lo, hi
  <2>2. hi - lo + 1 >= 0
    BY <2>1
  <2>3. Cardinality(BelowSet(H, n, "core")) = hi - lo + 1
    BY <1>10, <2>1, <2>2
  <2> QED BY <2>1, <2>3
<1>13. Cardinality(BelowSet(H, n, "memory")) = m
  <2> DEFINE lo == L + 3 + g + c
             hi == L + 2 + g + c + m
  <2>1. /\ lo \in Int /\ hi \in Int /\ lo >= L + 3 /\ hi <= Len(H) /\ hi - lo + 1 = m
        /\ \A i \in (L + 3)..Len(H) : H[i].type = "memory" <=> lo <= i /\ i <= hi
    <3>1. /\ lo \in Int /\ hi \in Int /\ lo >= L + 3 /\ hi <= Len(H) /\ hi - lo + 1 = m
      BY <1>1, <1>4
    <3> SUFFICES ASSUME NEW i \in (L + 3)..Len(H)
                 PROVE  H[i].type = "memory" <=> lo <= i /\ i <= hi
      BY <3>1
    <3> QED BY <1>1, <1>a
  <2> HIDE DEF lo, hi
  <2>2. hi - lo + 1 >= 0
    BY <2>1
  <2>3. Cardinality(BelowSet(H, n, "memory")) = hi - lo + 1
    BY <1>10, <2>1, <2>2
  <2> QED BY <2>1, <2>3
<1> QED BY <1>9, <1>11, <1>12, <1>13

-----------------------------------------------------------------------------
(* Steps.                                                                   *)

LEMMA RunningPods == ASSUME NEW n PROVE Running(n) \in SUBSET Pods
BY DEF Running

(* The next node is one that the graph does not have yet. *)
LEMMA NextNode ==
    ASSUME GraphShape, PodShape, pos \in DOMAIN NodeItems
    PROVE  /\ pos \in Nat /\ pos # 0 /\ NodeItems[pos] \in Nodes
           /\ pos + 1 \in 0..Len(NodeItems) + 1
           /\ \A i \in DOMAIN graph : graph[i].type = "node" => graph[i].basename # NodeItems[pos]
<1>1. NodeItems \in Seq(Nodes) /\ IsInjective(NodeItems)
  BY GraphAssumption
<1>2. Len(NodeItems) \in Nat /\ DOMAIN NodeItems = 1..Len(NodeItems)
  BY <1>1
<1>3. pos \in 1..Len(NodeItems)
  BY <1>2
<1>4. NodeItems[pos] \in Nodes
  BY <1>1, <1>3
<1>5. ASSUME NEW i \in DOMAIN graph, graph[i].type = "node", graph[i].basename = NodeItems[pos]
      PROVE  FALSE
  <2>1. PICK m \in 1..(pos - 1) : NodeItems[m] = NodeItems[pos]
    BY <1>3, <1>5 DEF GraphShape
  <2>2. m \in DOMAIN NodeItems /\ m # pos
    BY <1>2, <1>3
  <2> QED BY <1>1, <2>1, <2>2 DEF IsInjective
<1> QED BY <1>2, <1>3, <1>4, <1>5

(* What ReadNode does to the graph. *)
LEMMA ReadEffect ==
    ASSUME GraphShape, PodShape, PodsFit, ReadNode
    PROVE  \E n \in Nodes, g \in Nat, c \in Nat, m \in Nat :
             /\ n = NodeItems[pos]
             /\ g = Allocatable[n]["gpu"] /\ c = AvailableCores(n, Running(n))
             /\ m = AvailableBlocks(n, Running(n))
             /\ graph' \in Seq(Vertices) /\ Grown(graph, graph', n, g, c, m)
             /\ \A i \in DOMAIN graph : graph[i].type = "node" => graph[i].basename # n
<1>1. pos \in DOMAIN NodeItems
  BY DEF ReadNode
<1>2. PICK n \in Nodes : n = NodeItems[pos] /\ \A i \in DOMAIN graph :
        graph[i].type = "node" => graph[i].basename # n
  BY <1>1, NextNode
<1>3. \A k \in Kinds : TotalRequests(Running(n), k) <= Allocatable[n][k]
  BY DEF PodsFit
<1>4. PICK g \in Nat, c \in Nat, m \in Nat :
        /\ g = Allocatable[n]["gpu"] /\ c = AvailableCores(n, Running(n))
        /\ m = AvailableBlocks(n, Running(n))
  BY <1>3, RunningPods, AvailableTypes
<1>5. NewVertices(n, Running(n)) = NodeVertices(Len(graph) + 1, n, g, c, m)
  BY <1>4 DEF NewVertices, NodeVertices, Joined, NextId
<1>6. graph' = graph \o NodeVertices(Len(graph) + 1, n, g, c, m)
  BY <1>2, <1>5 DEF ReadNode
<1>7. PICK H \in Seq(Vertices) : /\ H = graph \o NodeVertices(Len(graph) + 1, n, g, c, m)
                                 /\ Grown(graph, H, n, g, c, m)
  BY ReadGrows DEF GraphShape
<1>8. graph' = H
  BY <1>6, <1>7
<1> QED BY <1>2, <1>4, <1>7, <1>8

LEMMA GraphShapeInit == Cluster \in Seq(Vertices) /\ Tree(Cluster) /\ Cluster # <<>>
                        /\ Len(Cluster) = 1 /\ Cluster[1].type = "cluster"
<1>1. Vertex("cluster", "k8scluster", 0) \in Vertices
  BY DEF Vertex, Vertices, Names
<1>2. Vertex("cluster", "k8scluster", 0).type = "cluster"
  BY DEF Vertex
<1> DEFINE v == Vertex("cluster", "k8scluster", 0)
<1>3. Cluster = <<v>>
  BY DEF Cluster
<1> HIDE DEF v
<1>4. /\ Cluster \in Seq(Vertices) /\ Len(Cluster) = 1 /\ DOMAIN Cluster = {1}
      /\ Cluster[1] = v /\ Cluster # <<>>
  BY <1>1, <1>3 DEF v
<1>5. Cluster[1].type = "cluster"
  BY <1>2, <1>4 DEF v
<1> QED BY <1>4, <1>5 DEF Tree

LEMMA GraphShapeNext ==
    ASSUME GraphShape, PodShape, PodsFit, [Next]_vars PROVE GraphShape'
<1>1. CASE UNCHANGED <<graph, pos>>
  BY <1>1 DEF GraphShape
<1>2. CASE SkipNode
  <2>1. pos \in Nat /\ pos # 0 /\ pos' = pos + 1 /\ graph' = graph
    BY <1>2, NextNode DEF SkipNode
  <2>2. 1..(pos - 1) \subseteq 1..(pos' - 1)
    BY <2>1
  <2> QED BY <2>1, <2>2 DEF GraphShape
<1>3. CASE ReadNode
  <2>1. pos \in Nat /\ pos # 0 /\ pos' = pos + 1
    BY <1>3, NextNode DEF ReadNode
  <2>2. PICK n \in Nodes, g \in Nat, c \in Nat, m \in Nat :
          /\ n = NodeItems[pos]
          /\ graph' \in Seq(Vertices) /\ Grown(graph, graph', n, g, c, m)
          /\ \A i \in DOMAIN graph : graph[i].type = "node" => graph[i].basename # n
    BY <1>3, ReadEffect
  <2>3. PICK G, H : G = graph /\ H = graph'
    OBVIOUS
  <2>4. /\ G \in Seq(Vertices) /\ H \in Seq(Vertices) /\ Grown(G, H, n, g, c, m)
        /\ \A i \in DOMAIN G : G[i].type = "node" => G[i].basename # n
        /\ Tree(G) /\ G # <<>>
    BY <2>1, <2>2, <2>3 DEF GraphShape
  <2>5. Tree(H) /\ H # <<>>
    BY <2>4, GrownTree
  <2>6. ASSUME NEW i \in DOMAIN H, H[i].type = "node"
        PROVE  \E x \in 1..((pos + 1) - 1) : NodeItems[x] = H[i].basename
    <3>1. CASE i \in DOMAIN G
      <4>1. H[i] = G[i]
        BY <2>4, <3>1 DEF Grown
      <4>2. PICK x \in 1..(pos - 1) : NodeItems[x] = H[i].basename
        BY <2>1, <2>3, <2>6, <3>1, <4>1 DEF GraphShape
      <4> QED BY <2>1, <4>2
    <3>2. CASE i \notin DOMAIN G
      <4>1. i = Len(G) + 2
        <5>1. /\ Len(G) \in Nat /\ Len(H) \in Nat
              /\ DOMAIN G = 1..Len(G) /\ DOMAIN H = 1..Len(H)
          BY <2>4
        <5>2. i \in Len(G) + 1..Len(H)
          BY <3>2, <5>1
        <5>3. H[Len(G) + 1].type = "subnet"
          BY <2>4 DEF Grown
        <5>4. \A k \in Len(G) + 3..Len(H) : H[k].type \in {"gpu", "core", "memory"}
          BY <2>4 DEF Grown
        <5>5. i # Len(G) + 1 /\ i \notin Len(G) + 3..Len(H)
          BY <2>6, <5>3, <5>4
        <5> QED BY <5>1, <5>2, <5>5
      <4>2. H[i].basename = n
        BY <2>4, <4>1 DEF Grown
      <4> QED BY <2>1, <2>2, <4>2
    <3> QED BY <3>1, <3>2
  <2>7. graph' \in Seq(Vertices) /\ Tree(graph') /\ graph' # <<>>
        /\ \A i \in DOMAIN graph' : graph'[i].type = "node" =>
              \E x \in 1..(pos' - 1) : NodeItems[x] = graph'[i].basename
    BY <2>1, <2>3, <2>4, <2>5, <2>6
  <2> QED BY <2>7 DEF GraphShape, Tree
<1>4. CASE LoadGraph
  BY <1>4 DEF LoadGraph, GraphShape
<1>5. CASE BuildFails
  <2>1. graph' = <<>> /\ pos' = 0
    BY <1>5 DEF BuildFails
  <2>2. <<>> \in Seq(Vertices) /\ DOMAIN <<>> = {}
    OBVIOUS
  <2>3. Tree(<<>>)
    BY <2>2 DEF Tree
  <2> QED BY <2>1, <2>2, <2>3 DEF GraphShape, Tree
<1>6. CASE Restart
  <2>1. graph' = Cluster /\ pos' = 1
    BY <1>6 DEF Restart
  <2>2. Cluster \in Seq(Vertices) /\ Tree(Cluster) /\ Cluster # <<>> /\ DOMAIN Cluster = {1}
        /\ Cluster[1].type = "cluster"
    BY GraphShapeInit
  <2> QED BY <2>1, <2>2 DEF GraphShape, Tree
<1> QED BY <1>1, <1>2, <1>3, <1>4, <1>5, <1>6
        DEF Next, OtherBind, GangBind, Place, End, Match, Cancel, vars

(* Which pods run on a node after a step. *)
LEMMA PlaceEffect ==
    ASSUME PodShape, NEW p \in Pods, NEW n, Place(p, n)
    PROVE  /\ p \notin counted /\ counted' = counted
           /\ \A m : p \notin Running(m)
           /\ \A m : Running(m)' = IF m = n THEN Running(m) \cup {p} ELSE Running(m)
<1>1. phase[p] = "new" /\ phase' = [phase EXCEPT ![p] = "running"] /\ at' = [at EXCEPT ![p] = n]
      /\ counted' = counted
  BY DEF Place
<1>2. p \notin counted
  BY <1>1 DEF PodShape
<1>3. \A q \in Pods : phase'[q] = (IF q = p THEN "running" ELSE phase[q])
                      /\ at'[q] = (IF q = p THEN n ELSE at[q])
  <2>1. phase \in [Pods -> {"new", "running", "ended"}] /\ at = [q \in Pods |-> at[q]]
    BY DEF PodShape
  <2>2. \A q \in Pods : phase'[q] = (IF q = p THEN "running" ELSE phase[q])
    BY <1>1, <2>1
  <2>3. DOMAIN at = Pods
    BY <2>1
  <2>4. \A q \in Pods : at'[q] = (IF q = p THEN n ELSE at[q])
    BY <1>1, <2>3
  <2> QED BY <2>2, <2>4
<1>4. \A m : p \notin Running(m)
  BY <1>1 DEF Running
<1>5. \A m : Running(m)' = IF m = n THEN Running(m) \cup {p} ELSE Running(m)
  BY <1>1, <1>3 DEF Running
<1> QED BY <1>1, <1>2, <1>4, <1>5

LEMMA EndEffect ==
    ASSUME PodShape, NEW p \in Pods, End(p)
    PROVE  \A m : Running(m)' = Running(m) \ {p}
<1>1. phase[p] = "running" /\ phase' = [phase EXCEPT ![p] = "ended"] /\ at' = at
  BY DEF End
<1>2. \A q \in Pods : phase'[q] = IF q = p THEN "ended" ELSE phase[q]
  BY <1>1 DEF PodShape
<1> QED BY <1>1, <1>2 DEF Running

(* Every step binds a pod where it fits, ends a pod, or leaves the pods.    *)
LEMMA PodSteps ==
    ASSUME [Next]_vars
    PROVE  \/ \E p, n : p \in Pods /\ Place(p, n)
           \/ \E p \in Pods : End(p)
           \/ UNCHANGED <<phase, at>>
BY DEF Next, OtherBind, GangBind, Match, SkipNode, ReadNode, LoadGraph, BuildFails, Cancel,
       Restart, vars

LEMMA PodShapeNext ==
    ASSUME GraphShape, PodShape, [Next]_vars PROVE PodShape'
<1>1. CASE \E p, n : p \in Pods /\ Place(p, n)
  <2>1. PICK p, n : p \in Pods /\ Place(p, n)
    BY <1>1
  <2>2. phase' = [phase EXCEPT ![p] = "running"] /\ at' = [at EXCEPT ![p] = n]
        /\ pos' = pos /\ counted' = counted
    BY <2>1 DEF Place
  <2>3. phase' \in [Pods -> {"new", "running", "ended"}]
        /\ \A q \in Pods : phase[q] # "new" => phase'[q] # "new"
    BY <2>2 DEF PodShape
  <2>4. at' = [q \in Pods |-> at'[q]]
    <3>1. DOMAIN at = Pods
      BY DEF PodShape
    <3> QED BY <2>2, <3>1
  <2> QED BY <2>2, <2>3, <2>4 DEF PodShape
<1>2. CASE \E p \in Pods : End(p)
  <2>1. PICK p \in Pods : End(p)
    BY <1>2
  <2>2. phase' = [phase EXCEPT ![p] = "ended"] /\ at' = at /\ pos' = pos /\ counted' = counted
    BY <2>1 DEF End
  <2>3. phase' \in [Pods -> {"new", "running", "ended"}]
        /\ \A q \in Pods : phase[q] # "new" => phase'[q] # "new"
    BY <2>2 DEF PodShape
  <2> QED BY <2>2, <2>3 DEF PodShape
<1>3. CASE UNCHANGED <<phase, at>>
  <2>1. Len(NodeItems) \in Nat
    BY GraphAssumption
  <2>2. pos' \in 0..Len(NodeItems) + 1
    <3>1. CASE SkipNode \/ ReadNode
      BY <3>1, NextNode DEF SkipNode, ReadNode
    <3>2. CASE LoadGraph \/ BuildFails \/ Restart
      BY <2>1, <3>2 DEF LoadGraph, BuildFails, Restart
    <3>3. CASE UNCHANGED pos
      BY <3>3 DEF PodShape
    <3> QED BY <3>1, <3>2, <3>3
            DEF Next, OtherBind, GangBind, Place, End, Match, Cancel, vars
  <2>3. counted' \subseteq {p \in Pods : phase[p] # "new"}
    <3>1. CASE ReadNode
      BY <3>1 DEF ReadNode, Running, PodShape
    <3>2. CASE BuildFails \/ Restart
      BY <3>2 DEF BuildFails, Restart
    <3>3. CASE UNCHANGED counted
      BY <3>3 DEF PodShape
    <3> QED BY <3>1, <3>2, <3>3
            DEF Next, OtherBind, GangBind, Place, End, Match, SkipNode, LoadGraph, Cancel, vars
  <2> QED BY <1>3, <2>2, <2>3 DEF PodShape
<1> QED BY <1>1, <1>2, <1>3, PodSteps

LEMMA PodsFitNext ==
    ASSUME PodShape, PodsFit, [Next]_vars PROVE PodsFit'
<1> SUFFICES ASSUME NEW m \in Nodes, NEW k \in Kinds
             PROVE  TotalRequests(Running(m)', k) <= Allocatable[m][k]
  BY DEF PodsFit
<1>1. TotalRequests(Running(m), k) <= Allocatable[m][k]
  BY DEF PodsFit
<1>2. CASE \E p, n : p \in Pods /\ Place(p, n)
  <2>1. PICK p, n : p \in Pods /\ Place(p, n)
    BY <1>2
  <2>2. Running(m)' = IF m = n THEN Running(m) \cup {p} ELSE Running(m)
    BY <2>1, PlaceEffect
  <2>3. m = n => TotalRequests(Running(m) \cup {p}, k) <= Allocatable[m][k]
    BY <2>1 DEF Place, Fits
  <2> QED BY <1>1, <2>2, <2>3
<1>3. CASE \E p \in Pods : End(p)
  <2>1. PICK p \in Pods : Running(m)' = Running(m) \ {p}
    BY <1>3, EndEffect
  <2>2. PICK S \in SUBSET Pods : S = Running(m)
    BY RunningPods
  <2>3. S \ {p} \in SUBSET S
    OBVIOUS
  <2>4. /\ TotalRequests(S, k) \in Nat /\ TotalRequests(S \ {p}, k) \in Nat
        /\ TotalRequests(S \ {p}, k) <= TotalRequests(S, k)
    BY <2>3, TotalTypes
  <2>5. Allocatable[m][k] \in Nat
    BY GraphAssumption DEF Amounts
  <2> QED BY <1>1, <2>1, <2>2, <2>4, <2>5
<1>4. CASE UNCHANGED <<phase, at>>
  <2>1. Running(m)' = Running(m)
    BY <1>4 DEF Running
  <2> QED BY <1>1, <2>1
<1> QED BY <1>2, <1>3, <1>4, PodSteps

-----------------------------------------------------------------------------
(* The jobs.                                                                *)

(* What Match grants: slots on nodes that have room for them. *)
LEMMA MatchEffect ==
    ASSUME NEW p \in Pods, Match(p)
    PROVE  \E r : /\ IsJob(r) /\ r.asker = p /\ r.bound = {}
                  /\ r.nodelist = NodeAllocs(r.spec, r.slots)
                  /\ jobs' = jobs \cup {r}
                  /\ \A n \in Nodes : r.slots[n] > 0 =>
                       \A k \in Kinds : r.slots[n] * r.spec[k] <= Free(n, k)
<1> DEFINE spec == SlotSpec(PodSpec(p))
           count == MinMember[GroupOf[p]]
<1>1. PICK id \in JobIds, slots \in Allocations(spec, count, p \in Zoned) :
        jobs' = jobs \cup {[id |-> id, asker |-> p, spec |-> spec, slots |-> slots,
                            nodelist |-> NodeAllocs(spec, slots), bound |-> {}]}
  BY DEF Match
<1>2. GroupOf[p] \in Groups
  BY DEF Match, Groups
<1>3. count \in Nat
  BY <1>2, GraphAssumption
<1> HIDE DEF count
<1>4. slots \in [Nodes -> 0..count]
      /\ \A n \in Nodes : slots[n] > 0 => \A k \in Kinds : slots[n] * spec[k] <= Free(n, k)
  BY <1>1 DEF Allocations
<1>5. slots \in [Nodes -> Nat]
  BY <1>3, <1>4
<1>6. PICK sp, nl : sp = spec /\ nl = NodeAllocs(spec, slots)
  OBVIOUS
<1> DEFINE r == [id |-> id, asker |-> p, spec |-> sp, slots |-> slots,
                 nodelist |-> nl, bound |-> {}]
<1>7. r = [id |-> r.id, asker |-> r.asker, spec |-> r.spec, slots |-> r.slots,
           nodelist |-> r.nodelist, bound |-> r.bound]
      /\ r.id = id /\ r.asker = p /\ r.spec = sp /\ r.slots = slots /\ r.nodelist = nl /\ r.bound = {}
  OBVIOUS
<1>8. jobs' = jobs \cup {r}
  BY <1>1, <1>6
<1> HIDE DEF r
<1>9. IsJob(r)
  BY <1>1, <1>5, <1>6, <1>7 DEF IsJob
<1>10. \A n \in Nodes : r.slots[n] > 0 => \A k \in Kinds : r.slots[n] * r.spec[k] <= Free(n, k)
  BY <1>4, <1>6, <1>7
<1>11. r.nodelist = NodeAllocs(r.spec, r.slots)
  BY <1>6, <1>7
<1> QED BY <1>7, <1>8, <1>9, <1>10, <1>11

(* A job that a pod is bound to keeps what it takes. *)
LEMMA GangEffect ==
    ASSUME JobShape, NEW p \in Pods, GangBind(p)
    PROVE  \E j, r, n :
             /\ j \in jobs /\ IsJob(r) /\ r.spec = j.spec /\ r.slots = j.slots /\ r.nodelist = j.nodelist
             /\ r.asker = j.asker /\ r.bound = j.bound \cup {p}
             /\ jobs' = (jobs \ {j}) \cup {r}
             /\ n \in Open(j) /\ GroupOf[p] = GroupOf[j.asker] /\ Place(p, n)
<1>1. PICK j, n : /\ j \in jobs /\ jobs' = (jobs \ {j}) \cup {[j EXCEPT !.bound = @ \cup {p}]}
                  /\ n \in Open(j) /\ GroupOf[p] = GroupOf[j.asker] /\ Place(p, n)
  BY DEF GangBind
<1>2. IsJob(j)
  BY <1>1 DEF JobShape
<1>3. PICK id, a, sp, sl, nl, b : j = [id |-> id, asker |-> a, spec |-> sp, slots |-> sl,
                                       nodelist |-> nl, bound |-> b]
  BY <1>2 DEF IsJob
<1> DEFINE r == [id |-> id, asker |-> a, spec |-> sp, slots |-> sl,
                 nodelist |-> nl, bound |-> b \cup {p}]
<1>4. [j EXCEPT !.bound = @ \cup {p}] = r
  BY <1>3
<1>5. /\ j.id = id /\ r.id = id
      /\ j.asker = a /\ j.spec = sp /\ j.slots = sl /\ j.bound = b /\ j.nodelist = nl
      /\ r.asker = a /\ r.spec = sp /\ r.slots = sl /\ r.bound = b \cup {p} /\ r.nodelist = nl
  BY <1>3
<1>6. r = [id |-> r.id, asker |-> r.asker, spec |-> r.spec, slots |-> r.slots,
           nodelist |-> r.nodelist, bound |-> r.bound]
  BY <1>5
<1> HIDE DEF r
<1>7. IsJob(r)
  BY <1>2, <1>5, <1>6 DEF IsJob
<1> QED BY <1>1, <1>4, <1>5, <1>7

LEMMA JobSteps ==
    ASSUME [Next]_vars
    PROVE  \/ \E p \in Pods : GangBind(p)
           \/ \E p \in Pods : Match(p)
           \/ jobs' \subseteq jobs
BY DEF Next, OtherBind, End, SkipNode, ReadNode, LoadGraph, BuildFails, Cancel, Restart, vars

LEMMA JobShapeNext ==
    ASSUME PodShape, JobShape, [Next]_vars PROVE JobShape'
<1>1. IsFiniteSet(jobs) /\ \A j \in jobs : IsJob(j)
  BY DEF JobShape
<1>2. IsFiniteSet(jobs') /\ \A j \in jobs' : IsJob(j)
  <2>1. CASE \E p \in Pods : GangBind(p)
    <3>1. PICK j, r : j \in jobs /\ IsJob(r) /\ jobs' = (jobs \ {j}) \cup {r}
      BY <2>1, GangEffect
    <3>2. IsFiniteSet((jobs \ {j}) \cup {r})
      BY <1>1, FS_RemoveElement, FS_AddElement
    <3> QED BY <1>1, <3>1, <3>2
  <2>2. CASE \E p \in Pods : Match(p)
    <3>1. PICK r : IsJob(r) /\ jobs' = jobs \cup {r}
      BY <2>2, MatchEffect
    <3>2. IsFiniteSet(jobs \cup {r})
      BY <1>1, FS_AddElement
    <3> QED BY <1>1, <3>1, <3>2
  <2>3. CASE jobs' \subseteq jobs
    BY <1>1, <2>3, FS_Subset
  <2> QED BY <2>1, <2>2, <2>3, JobSteps
<1>3. pos' # 0 => jobs' = {}
  <2>1. pos # 0 => jobs = {}
    BY DEF JobShape
  <2>2. CASE \E p \in Pods : GangBind(p)
    BY <2>1, <2>2 DEF GangBind, Place
  <2>3. CASE \E p \in Pods : Match(p)
    BY <2>3 DEF Match
  <2>4. CASE SkipNode \/ ReadNode
    <3>1. pos \in DOMAIN NodeItems /\ jobs' = jobs
      BY <2>4 DEF SkipNode, ReadNode
    <3>2. pos # 0
      BY <3>1, GraphAssumption
    <3> QED BY <2>1, <3>1, <3>2
  <2>5. CASE LoadGraph \/ BuildFails \/ Restart
    BY <2>5 DEF LoadGraph, BuildFails, Restart
  <2>6. CASE UNCHANGED pos /\ jobs' \subseteq jobs
    BY <2>1, <2>6
  <2> QED BY <2>2, <2>3, <2>4, <2>5, <2>6 DEF Next, OtherBind, Place, End, Cancel, vars
<1> QED BY <1>2, <1>3 DEF JobShape

(* What jobs take of a node, as a function of the set of jobs. *)
TakenOf(J, n, k) == SumOver(J, [j \in J |-> j.slots[n] * j.spec[k]])

LEMMA JobTakes ==
    ASSUME NEW j, IsJob(j), NEW n \in Nodes, NEW k \in Kinds
    PROVE  j.slots[n] \in Nat /\ j.spec[k] \in Nat /\ j.slots[n] * j.spec[k] \in Nat
<1>1. j.slots[n] \in Nat /\ j.spec[k] \in Nat
  BY SpecCovers DEF IsJob
<1> QED BY <1>1

LEMMA TakenLess ==
    ASSUME NEW J, IsFiniteSet(J), \A j \in J : IsJob(j), NEW T \in SUBSET J,
           NEW n \in Nodes, NEW k \in Kinds
    PROVE  /\ TakenOf(J, n, k) \in Nat /\ TakenOf(T, n, k) \in Nat
           /\ TakenOf(T, n, k) <= TakenOf(J, n, k)
<1> DEFINE f == [j \in J |-> j.slots[n] * j.spec[k]]
           g == [j \in T |-> j.slots[n] * j.spec[k]]
<1>1. IsFiniteSet(T)
  BY FS_Subset
<1>2. (\A j \in J : f[j] \in Nat) /\ (\A j \in T : g[j] = f[j])
  BY JobTakes
<1>3. TakenOf(J, n, k) = SumOver(J, f) /\ TakenOf(T, n, k) = SumOver(T, g)
  BY DEF TakenOf
<1> HIDE DEF f, g
<1>4. SumOver(T, g) = SumOver(T, f)
  BY <1>1, <1>2, SumSame
<1> QED BY <1>1, <1>2, <1>3, <1>4, SumNat, SumSubset

LEMMA TakenAdd ==
    ASSUME NEW J, IsFiniteSet(J), \A j \in J : IsJob(j), NEW r, IsJob(r),
           NEW n \in Nodes, NEW k \in Kinds
    PROVE  IF r \in J THEN TakenOf(J \cup {r}, n, k) = TakenOf(J, n, k)
           ELSE TakenOf(J \cup {r}, n, k) = r.slots[n] * r.spec[k] + TakenOf(J, n, k)
<1>1. CASE r \in J
  <2>1. J \cup {r} = J
    BY <1>1
  <2> QED BY <1>1, <2>1
<1>2. CASE r \notin J
  <2> DEFINE K == J \cup {r}
             f == [j \in K |-> j.slots[n] * j.spec[k]]
             g == [j \in J |-> j.slots[n] * j.spec[k]]
  <2>1. (\A j \in K : f[j] \in Nat) /\ (\A j \in J : g[j] = f[j]) /\ f[r] = r.slots[n] * r.spec[k]
    BY JobTakes
  <2>2. TakenOf(K, n, k) = SumOver(K, f) /\ TakenOf(J, n, k) = SumOver(J, g)
    BY DEF TakenOf
  <2> HIDE DEF f, g
  <2>3. SumOver(K, f) = f[r] + SumOver(J, f)
    <3>1. \A x \in J \cup {r} : f[x] \in Int
      BY <2>1
    <3>2. SumOver(J \cup {r}, f) = f[r] + SumOver(J, f)
      BY <1>2, <3>1, SumAdd
    <3> QED BY <3>2
  <2>4. SumOver(J, g) = SumOver(J, f)
    BY <2>1, SumSame
  <2> QED BY <1>2, <2>1, <2>2, <2>3, <2>4
<1> QED BY <1>1, <1>2

LEMMA TakenReplace ==
    ASSUME NEW J, IsFiniteSet(J), \A j \in J : IsJob(j), NEW i \in J, NEW r, IsJob(r),
           r.slots = i.slots, r.spec = i.spec, NEW n \in Nodes, NEW k \in Kinds
    PROVE  TakenOf((J \ {i}) \cup {r}, n, k) <= TakenOf(J, n, k)
<1> DEFINE S == J \ {i}
           a == r.slots[n] * r.spec[k]
<1>1. IsFiniteSet(S) /\ (\A j \in S : IsJob(j)) /\ i \notin S /\ S \cup {i} = J
      /\ S \in SUBSET J /\ IsJob(i)
  BY FS_RemoveElement
<1> HIDE DEF S
<1>2. TakenOf(S \cup {i}, n, k) = a + TakenOf(S, n, k)
  BY <1>1, TakenAdd
<1>3. \/ TakenOf(S \cup {r}, n, k) = TakenOf(S, n, k)
      \/ TakenOf(S \cup {r}, n, k) = a + TakenOf(S, n, k)
  BY <1>1, TakenAdd
<1>4. a \in Nat /\ TakenOf(S, n, k) \in Nat
  BY <1>1, JobTakes, TakenLess
<1> HIDE DEF a
<1> QED BY <1>1, <1>2, <1>3, <1>4 DEF S

(* What a graph has of a node. *)
CapacityOf(G, n, k) ==
    CASE k = "cpu" -> Cardinality(BelowSet(G, n, "core"))
      [] k = "mem" -> Block * Cardinality(BelowSet(G, n, "memory"))
      [] k = "gpu" -> Cardinality(BelowSet(G, n, "gpu"))

LEMMA CapacityType ==
    ASSUME NEW G \in Seq(Vertices), NEW n, NEW k \in Kinds
    PROVE  CapacityOf(G, n, k) \in Nat
<1>1. Len(G) \in Nat /\ DOMAIN G = 1..Len(G)
  OBVIOUS
<1>2. IsFiniteSet(DOMAIN G)
  BY <1>1, FS_Interval
<1>3. \A type : Cardinality(BelowSet(G, n, type)) \in Nat
  <2> SUFFICES ASSUME NEW type PROVE Cardinality(BelowSet(G, n, type)) \in Nat
    OBVIOUS
  <2>1. BelowSet(G, n, type) \in SUBSET DOMAIN G
    BY DEF BelowSet
  <2> QED BY <1>2, <2>1, FS_Subset, FS_CardinalityType
<1>4. Block * Cardinality(BelowSet(G, n, "memory")) \in Nat
  BY <1>3, Units
<1> QED BY <1>3, <1>4 DEF CapacityOf, Kinds

LEMMA CapacityNow ==
    ASSUME NEW n, NEW k \in Kinds
    PROVE  Capacity(n, k) = CapacityOf(graph, n, k) /\ Capacity(n, k)' = CapacityOf(graph', n, k)
BY DEF Capacity, CapacityOf, Below, BelowSet, Kinds

(* When the graph changes there are no jobs. *)
LEMMA GraphSteps ==
    ASSUME JobShape, [Next]_vars PROVE UNCHANGED graph \/ jobs' = {}
<1>1. CASE ReadNode
  <2>1. pos # 0 /\ jobs' = jobs
    BY <1>1, GraphAssumption DEF ReadNode
  <2> QED BY <2>1 DEF JobShape
<1>2. CASE BuildFails \/ Restart
  BY <1>2 DEF BuildFails, Restart, JobShape
<1> QED BY <1>1, <1>2
        DEF Next, OtherBind, GangBind, Place, End, Match, SkipNode, LoadGraph, Cancel, vars

LEMMA JobsFitNext ==
    ASSUME GraphShape, GraphShape', JobShape, JobsFit, [Next]_vars PROVE JobsFit'
<1> SUFFICES ASSUME NEW n \in Nodes, NEW k \in Kinds PROVE Taken(n, k)' <= Capacity(n, k)'
  BY DEF JobsFit
<1>1. Taken(n, k) = TakenOf(jobs, n, k) /\ Taken(n, k)' = TakenOf(jobs', n, k)
  BY DEF Taken, TakenOf
<1>2. CapacityOf(graph', n, k) \in Nat /\ CapacityOf(graph, n, k) \in Nat
      /\ Capacity(n, k)' = CapacityOf(graph', n, k) /\ Capacity(n, k) = CapacityOf(graph, n, k)
  BY CapacityType, CapacityNow DEF GraphShape
<1>3. IsFiniteSet(jobs) /\ \A j \in jobs : IsJob(j)
  BY DEF JobShape
<1>4. TakenOf(jobs, n, k) \in Nat /\ TakenOf(jobs, n, k) <= CapacityOf(graph, n, k)
  <2>1. Taken(n, k) <= Capacity(n, k)
    BY DEF JobsFit
  <2> QED BY <1>1, <1>2, <1>3, <2>1, TakenLess
<1>5. CASE jobs' = {}
  <2>1. TakenOf(jobs', n, k) = 0
    BY <1>5, SumEmpty DEF TakenOf
  <2> QED BY <1>1, <1>2, <2>1
<1>6. ASSUME graph' = graph, TakenOf(jobs', n, k) <= CapacityOf(graph, n, k)
      PROVE  Taken(n, k)' <= Capacity(n, k)'
  BY <1>1, <1>2, <1>6
<1>7. CASE graph' = graph /\ \E p \in Pods : GangBind(p)
  <2>1. PICK j, r : /\ j \in jobs /\ IsJob(r) /\ r.spec = j.spec /\ r.slots = j.slots
                    /\ jobs' = (jobs \ {j}) \cup {r}
    BY <1>7, GangEffect
  <2>2. TakenOf((jobs \ {j}) \cup {r}, n, k) <= TakenOf(jobs, n, k)
    BY <1>3, <2>1, TakenReplace
  <2>3. TakenOf((jobs \ {j}) \cup {r}, n, k) \in Nat
    <3>1. IsFiniteSet((jobs \ {j}) \cup {r}) /\ \A i \in (jobs \ {j}) \cup {r} : IsJob(i)
      BY <1>3, <2>1, FS_RemoveElement, FS_AddElement
    <3> QED BY <3>1, TakenLess
  <2> QED BY <1>2, <1>4, <1>6, <1>7, <2>1, <2>2, <2>3
<1>8. CASE graph' = graph /\ \E p \in Pods : Match(p)
  <2>1. PICK r : /\ IsJob(r) /\ jobs' = jobs \cup {r}
                 /\ (r.slots[n] > 0 => r.slots[n] * r.spec[k] <= Free(n, k))
    BY <1>8, MatchEffect
  <2> DEFINE a == r.slots[n]
             b == r.spec[k]
             T == TakenOf(jobs, n, k)
             C == CapacityOf(graph, n, k)
  <2>2. Free(n, k) = C - T
    BY <1>1, <1>2 DEF Free
  <2>3. a \in Nat /\ b \in Nat /\ a * b \in Nat
    BY <2>1, JobTakes
  <2>4. TakenOf(jobs \cup {r}, n, k) = T \/ TakenOf(jobs \cup {r}, n, k) = a * b + T
    BY <1>3, <2>1, TakenAdd
  <2>5. a > 0 => a * b <= C - T
    BY <2>1, <2>2
  <2> HIDE DEF a, b, T, C
  <2>6. T \in Nat /\ C \in Nat /\ T <= C
    BY <1>2, <1>4 DEF T, C
  <2>7. a * b <= C - T
    <3>1. CASE a = 0
      <4>1. a * b = 0
        BY <2>3, <3>1
      <4> QED BY <2>6, <4>1
    <3>2. CASE a # 0
      BY <2>3, <2>5, <3>2
    <3> QED BY <3>1, <3>2
  <2>8. a * b + T <= C
    BY <2>3, <2>6, <2>7
  <2>9. TakenOf(jobs \cup {r}, n, k) <= C
    BY <2>4, <2>6, <2>8
  <2> QED BY <1>6, <1>8, <2>1, <2>9 DEF C
<1>9. CASE graph' = graph /\ jobs' \subseteq jobs
  <2>1. PICK J : J = jobs'
    OBVIOUS
  <2>2. TakenOf(J, n, k) \in Nat /\ TakenOf(J, n, k) <= TakenOf(jobs, n, k)
    BY <1>3, <1>9, <2>1, TakenLess
  <2> QED BY <1>2, <1>4, <1>6, <1>9, <2>1, <2>2
<1> QED BY <1>5, <1>7, <1>8, <1>9, GraphSteps, JobSteps

LEMMA UsedNow ==
    ASSUME NEW n, NEW k
    PROVE  /\ Used(n, k) = TotalRequests(counted \cap Running(n), k)
           /\ Used(n, k)' = TotalRequests(counted' \cap Running(n)', k)
BY DEF Used

LEMMA UnitType == \A k \in Kinds : Unit[k] \in Nat
BY Units DEF Unit, Kinds

(* Less in use, and the same graph. *)
LEMMA FitsStill ==
    ASSUME GraphShape, GraphFits, NEW n \in Nodes, NEW k \in Kinds,
           NEW C, C = CapacityOf(graph, n, k), NEW U \in SUBSET (counted \cap Running(n))
    PROVE  Unit[k] * C + (IF k = "gpu" THEN 0 ELSE TotalRequests(U, k)) <= Allocatable[n][k]
<1>1. PICK S \in SUBSET Pods : S = counted \cap Running(n)
  BY RunningPods
<1>2. C \in Nat /\ Unit[k] \in Nat /\ Allocatable[n][k] \in Nat
  BY CapacityType, UnitType, GraphAssumption DEF GraphShape, Amounts
<1>3. /\ TotalRequests(S, k) \in Nat /\ TotalRequests(U, k) \in Nat
      /\ TotalRequests(U, k) <= TotalRequests(S, k)
  BY <1>1, TotalTypes
<1>4. Unit[k] * C + (IF k = "gpu" THEN 0 ELSE TotalRequests(S, k)) <= Allocatable[n][k]
  BY <1>1, UsedNow, CapacityNow DEF GraphFits
<1> DEFINE x == Unit[k] * C
           y == TotalRequests(S, k)
           z == TotalRequests(U, k)
           A == Allocatable[n][k]
<1>5. x \in Nat
  BY <1>2
<1> HIDE DEF x, y, z, A
<1>6. A \in Nat /\ y \in Nat /\ z \in Nat /\ z <= y
  BY <1>2, <1>3 DEF y, z, A
<1>7. x + (IF k = "gpu" THEN 0 ELSE y) <= A
  BY <1>4 DEF x, y, A
<1>8. x + (IF k = "gpu" THEN 0 ELSE z) <= A
  BY <1>5, <1>6, <1>7
<1> QED BY <1>8 DEF x, z, A

LEMMA EmptyFits ==
    ASSUME NEW n \in Nodes, NEW k \in Kinds, NEW G,
           \A type \in {"gpu", "core", "memory"} : BelowSet(G, n, type) = {}
    PROVE  Unit[k] * CapacityOf(G, n, k) + (IF k = "gpu" THEN 0 ELSE TotalRequests({}, k))
             <= Allocatable[n][k]
<1>1. CapacityOf(G, n, k) = 0
  <2>1. Cardinality({}) = 0 /\ Block * 0 = 0
    BY FS_EmptySet, Units
  <2> QED BY <2>1 DEF CapacityOf, Kinds
<1>2. TotalRequests({}, k) = 0
  BY SumEmpty DEF TotalRequests
<1>3. Unit[k] \in Nat /\ Allocatable[n][k] \in Nat
  BY UnitType, GraphAssumption DEF Amounts
<1>4. Unit[k] * 0 = 0
  BY <1>3
<1> QED BY <1>1, <1>2, <1>3, <1>4

(* The node that was read: its graph leaves out the pods on it. *)
LEMMA ReadFits ==
    ASSUME NEW n \in Nodes, NEW k \in Kinds, NEW S \in SUBSET Pods, NEW G,
           \A x \in Kinds : TotalRequests(S, x) <= Allocatable[n][x],
           Cardinality(BelowSet(G, n, "gpu")) = Allocatable[n]["gpu"],
           Cardinality(BelowSet(G, n, "core")) = AvailableCores(n, S),
           Cardinality(BelowSet(G, n, "memory")) = AvailableBlocks(n, S)
    PROVE  Unit[k] * CapacityOf(G, n, k) + (IF k = "gpu" THEN 0 ELSE TotalRequests(S, k))
             <= Allocatable[n][k]
<1>1. /\ Allocatable[n]["gpu"] \in Nat
      /\ Core * AvailableCores(n, S) + TotalRequests(S, "cpu") <= Allocatable[n]["cpu"]
      /\ MB * (Block * AvailableBlocks(n, S)) + TotalRequests(S, "mem") <= Allocatable[n]["mem"]
  BY AvailableTypes
<1>2. CASE k = "cpu"
  <2>1. Unit[k] = Core /\ CapacityOf(G, n, k) = AvailableCores(n, S) /\ k # "gpu"
    BY <1>2 DEF Unit, CapacityOf
  <2> QED BY <1>1, <1>2, <2>1
<1>3. CASE k = "mem"
  <2>1. Unit[k] = MB /\ CapacityOf(G, n, k) = Block * AvailableBlocks(n, S) /\ k # "gpu"
    BY <1>3 DEF Unit, CapacityOf
  <2> QED BY <1>1, <1>3, <2>1
<1>4. CASE k = "gpu"
  <2>1. Unit[k] = 1 /\ CapacityOf(G, n, k) = Allocatable[n]["gpu"]
    BY <1>4 DEF Unit, CapacityOf
  <2> DEFINE A == Allocatable[n]["gpu"]
  <2>2. A \in Nat
    BY <1>1
  <2> HIDE DEF A
  <2>3. 1 * A + 0 <= A
    BY <2>2
  <2> QED BY <1>4, <2>1, <2>3 DEF A
<1> QED BY <1>2, <1>3, <1>4 DEF Kinds

LEMMA GraphFitsNext ==
    ASSUME GraphShape, PodShape, PodsFit, GraphFits, [Next]_vars PROVE GraphFits'
<1> SUFFICES ASSUME NEW m \in Nodes, NEW k \in Kinds
             PROVE  Unit[k] * CapacityOf(graph', m, k)
                      + (IF k = "gpu" THEN 0 ELSE TotalRequests(counted' \cap Running(m)', k))
                        <= Allocatable[m][k]
  BY UsedNow, CapacityNow DEF GraphFits
<1>1. CASE UNCHANGED <<graph, counted>>
  <2>1. counted \cap Running(m)' \subseteq counted \cap Running(m)
    <3>1. CASE \E p, n : p \in Pods /\ Place(p, n)
      <4>1. PICK p, n : p \in Pods /\ Place(p, n)
        BY <3>1
      <4>2. p \notin counted /\ Running(m)' = IF m = n THEN Running(m) \cup {p} ELSE Running(m)
        BY <4>1, PlaceEffect
      <4> QED BY <4>2
    <3>2. CASE \E p \in Pods : End(p)
      BY <3>2, EndEffect
    <3>3. CASE UNCHANGED <<phase, at>>
      BY <3>3 DEF Running
    <3> QED BY <3>1, <3>2, <3>3, PodSteps
  <2>2. PICK U \in SUBSET (counted \cap Running(m)) : U = counted \cap Running(m)'
    BY <2>1
  <2>3. PICK C : C = CapacityOf(graph, m, k)
    OBVIOUS
  <2>4. Unit[k] * C + (IF k = "gpu" THEN 0 ELSE TotalRequests(U, k)) <= Allocatable[m][k]
    BY <2>3, FitsStill
  <2> QED BY <1>1, <2>2, <2>3, <2>4
<1>2. CASE ReadNode
  <2>1. PICK n \in Nodes, g \in Nat, c \in Nat, mm \in Nat :
          /\ n = NodeItems[pos]
          /\ g = Allocatable[n]["gpu"] /\ c = AvailableCores(n, Running(n))
          /\ mm = AvailableBlocks(n, Running(n))
          /\ graph' \in Seq(Vertices) /\ Grown(graph, graph', n, g, c, mm)
          /\ \A i \in DOMAIN graph : graph[i].type = "node" => graph[i].basename # n
    BY <1>2, ReadEffect
  <2>2. PICK G, H : G = graph /\ H = graph'
    OBVIOUS
  <2>3. /\ G \in Seq(Vertices) /\ H \in Seq(Vertices) /\ Grown(G, H, n, g, c, mm)
        /\ \A i \in DOMAIN G : G[i].type = "node" => G[i].basename # n
    BY <2>1, <2>2 DEF GraphShape
  <2>4. Tree(G) /\ G # <<>>
    BY <1>2, <2>2, NextNode DEF GraphShape, ReadNode
  <2>5. /\ \A x, type : x # n /\ type \in {"gpu", "core", "memory"} =>
                BelowSet(H, x, type) = BelowSet(G, x, type)
        /\ Cardinality(BelowSet(H, n, "gpu")) = g
        /\ Cardinality(BelowSet(H, n, "core")) = c
        /\ Cardinality(BelowSet(H, n, "memory")) = mm
    BY <2>3, <2>4, GrownBelow
  <2>6. counted' = counted \cup Running(n) /\ \A x : Running(x)' = Running(x)
    BY <1>2, <2>1 DEF ReadNode, Running
  <2>7. CASE m = n
    <3>1. PICK S \in SUBSET Pods : S = Running(n)
      BY RunningPods
    <3>2. counted' \cap Running(m)' = S
      BY <2>6, <2>7, <3>1
    <3>3. \A x \in Kinds : TotalRequests(S, x) <= Allocatable[n][x]
      BY <3>1 DEF PodsFit
    <3>4. Unit[k] * CapacityOf(H, n, k) + (IF k = "gpu" THEN 0 ELSE TotalRequests(S, k))
            <= Allocatable[n][k]
      BY <2>1, <2>5, <3>1, <3>3, ReadFits
    <3> QED BY <2>2, <2>7, <3>2, <3>4
  <2>8. CASE m # n
    <3>1. Running(n) \cap Running(m) = {}
      BY <2>8 DEF Running
    <3>2. counted' \cap Running(m)' = counted \cap Running(m)
      BY <2>6, <3>1
    <3>3. CapacityOf(H, m, k) = CapacityOf(G, m, k)
      BY <2>5, <2>8 DEF CapacityOf, Kinds
    <3>4. PICK C : C = CapacityOf(graph, m, k)
      OBVIOUS
    <3>5. Unit[k] * C + (IF k = "gpu" THEN 0 ELSE TotalRequests(counted \cap Running(m), k))
            <= Allocatable[m][k]
      BY <3>4, FitsStill
    <3> QED BY <2>2, <3>2, <3>3, <3>4, <3>5
  <2> QED BY <2>7, <2>8
<1>3. CASE BuildFails \/ Restart
  <2>1. (graph' = <<>> \/ graph' = Cluster) /\ counted' = {}
    BY <1>3 DEF BuildFails, Restart
  <2>2. PICK G : G = graph' /\ (G = <<>> \/ G = Cluster)
    BY <2>1
  <2>3. ASSUME NEW type \in {"gpu", "core", "memory"} PROVE BelowSet(G, m, type) = {}
    <3>1. CASE G = <<>>
      BY <3>1 DEF BelowSet
    <3>2. CASE G = Cluster
      <4>1. DOMAIN G = {1} /\ G[1].type = "cluster"
        BY <3>2, GraphShapeInit
      <4> QED BY <4>1 DEF BelowSet
    <3> QED BY <2>2, <3>1, <3>2
  <2>4. Unit[k] * CapacityOf(G, m, k) + (IF k = "gpu" THEN 0 ELSE TotalRequests({}, k))
          <= Allocatable[m][k]
    BY <2>3, EmptyFits
  <2>5. counted' \cap Running(m)' = {}
    BY <2>1
  <2> QED BY <2>2, <2>4, <2>5
<1> QED BY <1>1, <1>2, <1>3
        DEF Next, OtherBind, GangBind, Place, End, Match, SkipNode, LoadGraph, Cancel, vars

-----------------------------------------------------------------------------
(* Nothing is sold twice.                                                   *)

Books == GraphShape /\ PodShape /\ JobShape /\ PodsFit /\ GraphFits /\ JobsFit

LEMMA BooksInit == ASSUME Init PROVE Books
<1>1. /\ phase = [p \in Pods |-> "new"] /\ at = [p \in Pods |-> NoNode] /\ pos = 1
      /\ graph = Cluster /\ counted = {} /\ jobs = {}
  BY DEF Init
<1>2. GraphShape
  <2>1. DOMAIN Cluster = {1} /\ Cluster[1].type = "cluster"
    BY GraphShapeInit
  <2> QED BY <1>1, <2>1, GraphShapeInit DEF GraphShape
<1>3. PodShape
  <2>1. Len(NodeItems) \in Nat
    BY GraphAssumption
  <2> QED BY <1>1, <2>1 DEF PodShape
<1>4. JobShape
  BY <1>1, FS_EmptySet DEF JobShape
<1>5. \A n : Running(n) = {}
  BY <1>1 DEF Running
<1>6. ASSUME NEW n \in Nodes, NEW k \in Kinds
      PROVE  /\ TotalRequests({}, k) <= Allocatable[n][k]
             /\ Unit[k] * CapacityOf(Cluster, n, k)
                  + (IF k = "gpu" THEN 0 ELSE TotalRequests({}, k)) <= Allocatable[n][k]
             /\ TakenOf({}, n, k) <= CapacityOf(Cluster, n, k)
  <2>1. TotalRequests({}, k) = 0 /\ TakenOf({}, n, k) = 0
    BY SumEmpty DEF TotalRequests, TakenOf
  <2>2. Allocatable[n][k] \in Nat /\ CapacityOf(Cluster, n, k) \in Nat
    BY GraphAssumption, GraphShapeInit, CapacityType DEF Amounts
  <2>3. PICK G : G = Cluster
    OBVIOUS
  <2>4. \A type \in {"gpu", "core", "memory"} : BelowSet(G, n, type) = {}
    <3>1. DOMAIN G = {1} /\ G[1].type = "cluster"
      BY <2>3, GraphShapeInit
    <3> QED BY <3>1 DEF BelowSet
  <2> QED BY <2>1, <2>2, <2>3, <2>4, EmptyFits
<1>7. PodsFit
  BY <1>5, <1>6 DEF PodsFit
<1>8. GraphFits
  <2>1. \A n : counted \cap Running(n) = {}
    BY <1>5
  <2> QED BY <1>1, <1>6, <2>1, UsedNow, CapacityNow DEF GraphFits
<1>9. JobsFit
  <2>1. \A n, k : Taken(n, k) = TakenOf(jobs, n, k)
    BY DEF Taken, TakenOf
  <2> QED BY <1>1, <1>6, <2>1, CapacityNow DEF JobsFit
<1> QED BY <1>2, <1>3, <1>4, <1>7, <1>8, <1>9 DEF Books

LEMMA BooksNext == ASSUME Books, [Next]_vars PROVE Books'
<1>1. GraphShape' /\ PodShape' /\ JobShape'
  BY GraphShapeNext, PodShapeNext, JobShapeNext DEF Books
<1>2. PodsFit' /\ GraphFits' /\ JobsFit'
  BY <1>1, PodsFitNext, GraphFitsNext, JobsFitNext DEF Books
<1> QED BY <1>1, <1>2 DEF Books

(* The requests behind a set of jobs: what the jobs take, in the units of   *)
(* Kubernetes, and what they leave unasked.                                 *)
LEMMA PromisedSplit ==
    ASSUME NEW J, IsFiniteSet(J), \A j \in J : IsJob(j), NEW n \in Nodes, NEW k \in Kinds
    PROVE  /\ SumOver(J, [j \in J |-> j.slots[n] * Unasked(j.asker, k)]) \in Int
           /\ SumOver(J, [j \in J |-> j.slots[n] * Request(j.asker, k)]) \in Int
           /\ SumOver(J, [j \in J |-> j.slots[n] * Request(j.asker, k)])
                <= Unit[k] * TakenOf(J, n, k)
                     + SumOver(J, [j \in J |-> j.slots[n] * Unasked(j.asker, k)])
<1> DEFINE f == [j \in J |-> j.slots[n] * Request(j.asker, k)]
           a == [j \in J |-> j.slots[n] * Asked(j.asker, k)]
           u == [j \in J |-> j.slots[n] * Unasked(j.asker, k)]
           t == [j \in J |-> j.slots[n] * j.spec[k]]
           h == [j \in J |-> Unit[k] * (j.slots[n] * j.spec[k])]
<1>1. ASSUME NEW j \in J
      PROVE  /\ f[j] \in Int /\ a[j] \in Int /\ u[j] \in Int /\ t[j] \in Int /\ h[j] \in Int
             /\ f[j] = a[j] + u[j] /\ a[j] <= h[j] /\ h[j] = Unit[k] * t[j]
  <2>1. j.asker \in Pods /\ j.spec = SlotSpec(PodSpec(j.asker)) /\ j.slots[n] \in Nat
        /\ j.spec[k] \in Nat
    BY JobTakes DEF IsJob
  <2>2. PICK s \in Nat, c \in Nat, e \in Nat, r \in Nat :
          s = j.slots[n] /\ c = j.spec[k] /\ e = Unit[k] /\ r = Request(j.asker, k)
    BY <2>1, UnitType, RequestTypes
  <2>3. PICK x \in Int, y \in Int :
          x = Asked(j.asker, k) /\ y = Unasked(j.asker, k) /\ x <= e * c
    BY <2>1, <2>2, SpecCovers
  <2>4. r = x + y
    <3>1. x = r - y
      BY <2>2, <2>3 DEF Asked
    <3> QED BY <3>1
  <2>5. s * r = s * x + s * y
    BY <2>4
  <2>6. s * x <= e * (s * c)
    <3>1. s * x <= s * (e * c)
      BY <2>3
    <3>2. s * (e * c) = e * (s * c)
      OBVIOUS
    <3> QED BY <3>1, <3>2
  <2>7. /\ s * r \in Int /\ s * x \in Int /\ s * y \in Int /\ s * c \in Int /\ e * (s * c) \in Int
    OBVIOUS
  <2>8. f[j] = s * r /\ a[j] = s * x /\ u[j] = s * y /\ t[j] = s * c /\ h[j] = e * (s * c)
    BY <2>2, <2>3
  <2> HIDE DEF f, a, u, t, h
  <2> QED BY <2>2, <2>5, <2>6, <2>7, <2>8
<1>2. TakenOf(J, n, k) = SumOver(J, t)
  BY DEF TakenOf
<1> HIDE DEF f, a, u, t, h
<1>3. SumOver(J, f) = SumOver(J, a) + SumOver(J, u)
  BY <1>1, SumPlus
<1>4. SumOver(J, a) <= SumOver(J, h)
  BY <1>1, SumMonotone
<1>5. SumOver(J, h) = Unit[k] * SumOver(J, t)
  BY <1>1, UnitType, SumScale
<1>6. /\ SumOver(J, f) \in Int /\ SumOver(J, a) \in Int /\ SumOver(J, u) \in Int
      /\ SumOver(J, h) \in Int
  BY <1>1, SumInt
<1>7. SumOver(J, f) <= SumOver(J, h) + SumOver(J, u)
  BY <1>3, <1>4, <1>6
<1> QED BY <1>2, <1>5, <1>6, <1>7 DEF f, u

LEMMA BooksBalance == ASSUME Books PROVE NodeNotOversold
<1> SUFFICES ASSUME NEW n \in Nodes, NEW k \in Kinds
             PROVE  Used(n, k) + Promised(n, k) <=
                      Allocatable[n][k] + Uncounted(n, k)
                        + SumOver(jobs, [j \in jobs |-> j.slots[n] * Unasked(j.asker, k)])
  BY DEF NodeNotOversold
<1>1. PICK J : J = jobs /\ IsFiniteSet(J) /\ \A j \in J : IsJob(j)
  BY DEF Books, JobShape
<1> DEFINE P == Promised(n, k)
           L == SumOver(J, [j \in J |-> j.slots[n] * Unasked(j.asker, k)])
           T == TakenOf(J, n, k)
           C == CapacityOf(graph, n, k)
           U == Used(n, k)
           A == Allocatable[n][k]
           e == Unit[k]
<1>2. L \in Int /\ P \in Int /\ P <= e * T + L
  BY <1>1, PromisedSplit DEF Promised
<1>3. T \in Nat /\ T <= C
  <2>1. Taken(n, k) = TakenOf(jobs, n, k) /\ Taken(n, k) <= Capacity(n, k)
    BY DEF Taken, TakenOf, Books, JobsFit
  <2> QED BY <1>1, <2>1, CapacityNow, TakenLess
<1>4. C \in Nat /\ e \in Nat /\ A \in Nat
  BY CapacityType, UnitType, GraphAssumption DEF Books, GraphShape, Amounts
<1>5. U \in Nat
  <2>1. PICK S \in SUBSET Pods : S = counted \cap Running(n)
    BY RunningPods
  <2> QED BY <2>1, UsedNow, TotalTypes
<1>6. e * C + (IF k = "gpu" THEN 0 ELSE U) <= A
  BY CapacityNow DEF Books, GraphFits
<1>7. Uncounted(n, k) = IF k = "gpu" THEN U ELSE 0
  BY UsedNow DEF Uncounted
<1> HIDE DEF P, L, T, C, U, A, e
<1>8. e * T <= e * C /\ e * T \in Int /\ e * C \in Int
  BY <1>3, <1>4
<1>9. U + P <= A + (IF k = "gpu" THEN U ELSE 0) + L
  BY <1>2, <1>4, <1>5, <1>6, <1>8
<1> QED BY <1>1, <1>7, <1>9 DEF P, L, U, A

(* However the pods come and go while the sidecar reads the nodes one by    *)
(* one, whatever it is asked for, and however often it starts again: the    *)
(* jobs it grants on a node (Match) and the pods it counted there           *)
(* (CreateInClusterJGF) fit the node, up to what the code leaves out.       *)
THEOREM NeverOversold == Spec => []NodeNotOversold
<1>1. Init => Books
  BY BooksInit
<1>2. Books /\ [Next]_vars => Books'
  BY BooksNext
<1>3. Books => NodeNotOversold
  BY BooksBalance
<1> QED BY <1>1, <1>2, <1>3, PTL DEF Spec
=============================================================================
