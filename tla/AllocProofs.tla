----------------------------- MODULE AllocProofs -----------------------------
(***************************************************************************)
(* What ParseAllocResult reads back from the allocation the matcher prints, *)
(* for any nodes and any job, and what follows for the pods of a gang.      *)
(***************************************************************************)
EXTENDS GraphProofs

-----------------------------------------------------------------------------
(* Numbers.                                                                 *)

LEMMA MaxOfSet ==
    ASSUME NEW S \in SUBSET Int, IsFiniteSet(S), S # {}
    PROVE  Max(S) \in S /\ \A y \in S : Max(S) >= y
<1> DEFINE P(T, x) == x \in T /\ \A y \in T : x >= y
           Good == {T \in SUBSET S : T # {} => \E x : P(T, x)}
<1>1. ASSUME NEW T \in SUBSET S, \A U \in SUBSET T : U # T => U \in Good PROVE T \in Good
  <2> SUFFICES ASSUME T # {} PROVE \E x : P(T, x)
    OBVIOUS
  <2>1. PICK a : a \in T
    OBVIOUS
  <2>2. CASE T = {a}
    <3>1. P(T, a)
      BY <2>2
    <3> QED BY <3>1
  <2>3. CASE T # {a}
    <3>1. T \ {a} \in Good /\ T \ {a} # {}
      BY <1>1, <2>1, <2>3
    <3>2. PICK x : P(T \ {a}, x)
      BY <3>1
    <3>3. P(T, x) \/ P(T, a)
      BY <2>1, <3>2
    <3> QED BY <3>3
  <2> QED BY <2>2, <2>3
<1> HIDE DEF Good
<1>2. S \in Good
  BY <1>1, SubsetInduction
<1>3. \E x \in S : \A y \in S : x >= y
  BY <1>2 DEF Good
<1>4. Max(S) = CHOOSE x \in S : \A y \in S : x >= y
  BY DEF Max
<1> QED BY <1>3, <1>4

LEMMA MaxOfPrefix == ASSUME NEW n \in Nat \ {0}
                     PROVE  Max(1..n) = n /\ (1..n) \ {n} = 1..(n - 1)
<1>1. 1..n \in SUBSET Int /\ IsFiniteSet(1..n) /\ n \in 1..n
  BY FS_Interval
<1>2. Max(1..n) \in 1..n /\ Max(1..n) >= n
  BY <1>1, MaxOfSet
<1> QED BY <1>2

(* Induction over an initial segment of the naturals. *)
LEMMA UpTo ==
    ASSUME NEW N \in Nat, NEW Good, 0 \in Good,
           \A n \in 0..(N - 1) : n \in Good => n + 1 \in Good
    PROVE  \A n \in 0..N : n \in Good
<1> DEFINE S == 1..N
           Fine == {T \in SUBSET S : Cardinality(T) \in Good}
<1>1. IsFiniteSet(S) /\ Cardinality(S) = N
  BY FS_Interval
<1>2. ASSUME NEW T \in SUBSET S, \A U \in SUBSET T : U # T => U \in Fine PROVE T \in Fine
  <2>1. IsFiniteSet(T) /\ Cardinality(T) \in Nat /\ Cardinality(T) <= N
    BY <1>1, FS_Subset, FS_CardinalityType
  <2>2. CASE T = {}
    BY <2>2, FS_EmptySet
  <2>3. CASE T # {}
    <3>1. PICK a : a \in T
      BY <2>3
    <3>2. T \ {a} \in Fine
      BY <1>2, <3>1
    <3>3. Cardinality(T \ {a}) = Cardinality(T) - 1 /\ Cardinality(T \ {a}) \in Nat
      BY <2>1, <3>1, FS_RemoveElement, FS_CardinalityType
    <3>4. PICK c \in Nat : c = Cardinality(T \ {a})
      BY <3>3
    <3>5. c \in 0..(N - 1) /\ c \in Good /\ Cardinality(T) = c + 1
      BY <2>1, <3>2, <3>3, <3>4
    <3> QED BY <3>5
  <2> QED BY <2>2, <2>3
<1> HIDE DEF Fine
<1>3. \A T \in SUBSET S : T \in Fine
  BY <1>1, <1>2, SubsetInduction
<1> SUFFICES ASSUME NEW n \in 0..N PROVE n \in Good
  OBVIOUS
<1>4. 1..n \in SUBSET S /\ Cardinality(1..n) = n
  BY FS_Interval
<1> QED BY <1>3, <1>4 DEF Fine

-----------------------------------------------------------------------------
(* Folds over sequences: of the vertices that ParseAllocResult reads, and   *)
(* of the parts the matcher prints.                                         *)

Op(mode, acc, v) == IF mode = "parse" THEN ParseVertex(acc, v) ELSE acc \o v

FoldFun(mode, base, s, S, it) ==
    it = [T \in SUBSET S |-> IF T = {} THEN base ELSE Op(mode, it[T \ {Max(T)}], s[Max(T)])]

FoldOn(mode, base, s, S) == (CHOOSE it : FoldFun(mode, base, s, S, it))[S]

FoldAt(mode, base, s, it, T) ==
    it[T] = IF T = {} THEN base ELSE Op(mode, it[T \ {Max(T)}], s[Max(T)])

LEMMA FoldFunAt ==
    ASSUME NEW mode, NEW base, NEW s, NEW S, NEW it, FoldFun(mode, base, s, S, it),
           NEW T \in SUBSET S
    PROVE  FoldAt(mode, base, s, it, T)
<1> DEFINE body == [U \in SUBSET S |->
                      IF U = {} THEN base ELSE Op(mode, it[U \ {Max(U)}], s[Max(U)])]
<1>1. it = body
  BY DEF FoldFun
<1>2. body[T] = IF T = {} THEN base ELSE Op(mode, it[T \ {Max(T)}], s[Max(T)])
  OBVIOUS
<1> HIDE DEF body
<1> QED BY <1>1, <1>2 DEF FoldAt

LEMMA FoldFunUnique ==
    ASSUME NEW mode, NEW base, NEW s, NEW S \in SUBSET Int, IsFiniteSet(S), NEW a, NEW b,
           FoldFun(mode, base, s, S, a), FoldFun(mode, base, s, S, b)
    PROVE  \A T \in SUBSET S : a[T] = b[T]
<1> DEFINE Good == {T \in SUBSET S : a[T] = b[T]}
<1>1. ASSUME NEW T \in SUBSET S, \A U \in SUBSET T : U # T => U \in Good PROVE T \in Good
  <2>1. CASE T = {}
    <3>1. FoldAt(mode, base, s, a, T) /\ FoldAt(mode, base, s, b, T)
      BY FoldFunAt
    <3> QED BY <2>1, <3>1 DEF FoldAt
  <2>2. CASE T # {}
    <3> DEFINE U == T \ {Max(T)}
    <3>1. U \in SUBSET T /\ U # T
      BY <2>2, MaxOfSet, FS_Subset
    <3>2. a[U] = b[U]
      BY <1>1, <3>1
    <3>3. FoldAt(mode, base, s, a, T) /\ FoldAt(mode, base, s, b, T)
      BY FoldFunAt
    <3> QED BY <2>2, <3>2, <3>3 DEF FoldAt
  <2> QED BY <2>1, <2>2
<1> HIDE DEF Good
<1>2. \A T \in SUBSET S : T \in Good
  BY <1>1, SubsetInduction
<1> QED BY <1>2 DEF Good

LEMMA FoldExists ==
    ASSUME NEW mode, NEW base, NEW s, NEW S \in SUBSET Int, IsFiniteSet(S)
    PROVE  \E w : FoldFun(mode, base, s, S, w)
<1> DEFINE Step(T) == IF T = {} THEN base
                      ELSE Op(mode, FoldOn(mode, base, s, T \ {Max(T)}), s[Max(T)])
           Good == {T \in SUBSET S : /\ \E w : FoldFun(mode, base, s, T, w)
                                     /\ FoldOn(mode, base, s, T) = Step(T)}
<1>1. ASSUME NEW T \in SUBSET S, \A U \in SUBSET T : U # T => U \in Good PROVE T \in Good
  <2> DEFINE w == [U \in SUBSET T |-> Step(U)]
             it == CHOOSE i : FoldFun(mode, base, s, T, i)
  <2>1. IsFiniteSet(T) /\ T \in SUBSET Int
    BY FS_Subset
  <2>2. ASSUME NEW U \in SUBSET T
        PROVE  w[U] = IF U = {} THEN base ELSE Op(mode, w[U \ {Max(U)}], s[Max(U)])
    <3>1. CASE U = {}
      BY <3>1
    <3>2. CASE U # {}
      <4> DEFINE V == U \ {Max(U)}
      <4>1. Max(U) \in U
        BY <2>1, <3>2, MaxOfSet, FS_Subset
      <4>2. V \in SUBSET T /\ V # T
        BY <4>1
      <4>3. FoldOn(mode, base, s, V) = Step(V)
        BY <1>1, <4>2
      <4>4. w[V] = Step(V) /\ w[U] = Step(U)
        BY <4>2
      <4>5. Step(U) = Op(mode, FoldOn(mode, base, s, V), s[Max(U)])
        BY <3>2
      <4> HIDE DEF w, Step
      <4> QED BY <3>2, <4>3, <4>4, <4>5
    <3> QED BY <3>1, <3>2
  <2>3. FoldFun(mode, base, s, T, w)
    <3> DEFINE body == [U \in SUBSET T |->
                          IF U = {} THEN base ELSE Op(mode, w[U \ {Max(U)}], s[Max(U)])]
    <3>1. \A U \in SUBSET T : body[U] = w[U]
      BY <2>2
    <3>2. DOMAIN w = SUBSET T /\ w = [U \in DOMAIN w |-> w[U]]
      OBVIOUS
    <3> HIDE DEF w
    <3>3. w = body
      BY <3>1, <3>2
    <3> QED BY <3>3 DEF FoldFun
  <2> HIDE DEF w
  <2>4. FoldFun(mode, base, s, T, it)
    BY <2>3
  <2>5. FoldOn(mode, base, s, T) = it[T]
    BY DEF FoldOn
  <2> HIDE DEF it
  <2>6. it[T] = w[T]
    BY <2>1, <2>3, <2>4, FoldFunUnique
  <2>7. w[T] = Step(T)
    BY DEF w
  <2> QED BY <2>3, <2>5, <2>6, <2>7
<1> HIDE DEF Good
<1>2. S \in Good
  BY <1>1, SubsetInduction
<1> QED BY <1>2 DEF Good

(* A run of a fold: what it has after each element. *)
Run(mode, base, s, n, r) ==
    r[0] = base /\ \A k \in 1..n : r[k] = Op(mode, r[k - 1], s[k])

LEMMA FoldRuns ==
    ASSUME NEW mode, NEW base, NEW s, NEW n \in Nat, NEW it, FoldFun(mode, base, s, 1..n, it)
    PROVE  Run(mode, base, s, n, [k \in 0..n |-> it[1..k]])
<1> DEFINE r == [k \in 0..n |-> it[1..k]]
<1>1. r[0] = base
  <2>1. FoldAt(mode, base, s, it, 1..0)
    BY FoldFunAt
  <2>2. 1..0 = {} /\ r[0] = it[1..0]
    OBVIOUS
  <2> QED BY <2>1, <2>2 DEF FoldAt
<1>2. ASSUME NEW k \in 1..n PROVE r[k] = Op(mode, r[k - 1], s[k])
  <2>1. 1..k \in SUBSET (1..n)
    OBVIOUS
  <2>2. FoldAt(mode, base, s, it, 1..k)
    BY <2>1, FoldFunAt
  <2>3. Max(1..k) = k /\ (1..k) \ {k} = 1..(k - 1) /\ 1..k # {}
    BY MaxOfPrefix
  <2>4. it[1..k] = Op(mode, it[1..(k - 1)], s[k])
    BY <2>2, <2>3 DEF FoldAt
  <2>5. r[k] = it[1..k] /\ r[k - 1] = it[1..(k - 1)]
    OBVIOUS
  <2> HIDE DEF r
  <2> QED BY <2>4, <2>5
<1> HIDE DEF r
<1>3. Run(mode, base, s, n, r)
  BY <1>1, <1>2 DEF Run
<1> QED BY <1>3 DEF r

Start == [result |-> <<>>, corecount |-> 0]

ParseFun(s, S, it) ==
    it = [T \in SUBSET S |-> IF T = {} THEN Start ELSE ParseVertex(it[T \ {Max(T)}], s[Max(T)])]

LEMMA ParseRuns ==
    ASSUME NEW s, NEW n \in Nat, DOMAIN s = 1..n
    PROVE  \E r : Run("parse", Start, s, n, r) /\ ParseAllocResult(s) = r[n].result
<1> DEFINE it == CHOOSE w : ParseFun(s, 1..n, w)
<1>1. ParseAllocResult(s) = it[1..n].result
  BY DEF ParseAllocResult, FoldLeft, MapThenFoldSet, ParseFun, Start
<1>2. \A w : ParseFun(s, 1..n, w) <=> FoldFun("parse", Start, s, 1..n, w)
  BY DEF ParseFun, FoldFun, Op
<1>3. \E w : ParseFun(s, 1..n, w)
  <2>1. 1..n \in SUBSET Int /\ IsFiniteSet(1..n)
    BY FS_Interval
  <2>2. \E w : FoldFun("parse", Start, s, 1..n, w)
    BY <2>1, FoldExists
  <2> QED BY <1>2, <2>2
<1>4. ParseFun(s, 1..n, it)
  BY <1>3
<1> HIDE DEF it
<1>5. FoldFun("parse", Start, s, 1..n, it)
  BY <1>2, <1>4
<1> DEFINE r == [k \in 0..n |-> it[1..k]]
<1>6. Run("parse", Start, s, n, r)
  BY <1>5, FoldRuns
<1>7. r[n] = it[1..n]
  OBVIOUS
<1> HIDE DEF r
<1> QED BY <1>1, <1>6, <1>7

PartsOf(spec, slots) == [i \in DOMAIN NodeItems |-> PrintedNode(spec, slots, NodeItems[i])]

PrintFun(s, S, it) ==
    it = [T \in SUBSET S |-> IF T = {} THEN <<>> ELSE it[T \ {Max(T)}] \o s[Max(T)]]

LEMMA PrintRuns ==
    ASSUME NEW spec, NEW slots, NEW n \in Nat, DOMAIN NodeItems = 1..n
    PROVE  \E r : /\ Run("print", <<>>, PartsOf(spec, slots), n, r)
                  /\ Printed(spec, slots) = r[n] \o <<[type |-> "cluster", basename |-> "k8scluster"]>>
<1> DEFINE s == PartsOf(spec, slots)
           it == CHOOSE w : PrintFun(s, 1..n, w)
<1>1. Printed(spec, slots) = it[1..n] \o <<[type |-> "cluster", basename |-> "k8scluster"]>>
  <2>1. DOMAIN s = 1..n
    BY DEF PartsOf
  <2>2. Printed(spec, slots) = FoldLeft(\o, <<>>, s)
                                 \o <<[type |-> "cluster", basename |-> "k8scluster"]>>
    BY DEF Printed, PartsOf
  <2> HIDE DEF s
  <2>3. FoldLeft(\o, <<>>, s) = it[1..n]
    BY <2>1 DEF FoldLeft, MapThenFoldSet, PrintFun
  <2> QED BY <2>2, <2>3
<1> HIDE DEF s
<1>2. \A w : PrintFun(s, 1..n, w) <=> FoldFun("print", <<>>, s, 1..n, w)
  BY DEF PrintFun, FoldFun, Op
<1>3. \E w : PrintFun(s, 1..n, w)
  <2>1. 1..n \in SUBSET Int /\ IsFiniteSet(1..n)
    BY FS_Interval
  <2>2. \E w : FoldFun("print", <<>>, s, 1..n, w)
    BY <2>1, FoldExists
  <2> QED BY <1>2, <2>2
<1>4. PrintFun(s, 1..n, it)
  BY <1>3
<1> HIDE DEF it
<1>5. FoldFun("print", <<>>, s, 1..n, it)
  BY <1>2, <1>4
<1> DEFINE r == [k \in 0..n |-> it[1..k]]
<1>6. Run("print", <<>>, s, n, r)
  BY <1>5, FoldRuns
<1>7. r[n] = it[1..n]
  OBVIOUS
<1> HIDE DEF r
<1> QED BY <1>1, <1>6, <1>7 DEF s

-----------------------------------------------------------------------------
(* What is printed.                                                         *)

Lines == [type : {"core", "gpu", "node", "subnet", "cluster"}, basename : Names]
Line(type, basename) == [type |-> type, basename |-> basename]

(* The lines of a node: its cores, its GPUs, itself, its subnet. *)
NodeLines(u, n, c, g) ==
    /\ Len(u) = c + g + 2
    /\ \A i \in 1..c : u[i].type = "core"
    /\ \A i \in (c + 1)..(c + g) : u[i].type = "gpu"
    /\ u[c + g + 1].type = "node" /\ u[c + g + 1].basename = n
    /\ u[c + g + 2].type = "subnet"

LEMMA TwoMore ==
    ASSUME NEW V, NEW s \in Seq(V), NEW a \in V, NEW b \in V
    PROVE  /\ s \o <<a, b>> \in Seq(V) /\ Len(s \o <<a, b>>) = Len(s) + 2
           /\ \A i \in 1..Len(s) : (s \o <<a, b>>)[i] = s[i]
           /\ (s \o <<a, b>>)[Len(s) + 1] = a /\ (s \o <<a, b>>)[Len(s) + 2] = b
<1>1. PICK t \in Seq(V) : t = <<a, b>> /\ Len(t) = 2 /\ t[1] = a /\ t[2] = b
  <2>1. <<a, b>> \in Seq(V) /\ Len(<<a, b>>) = 2 /\ <<a, b>>[1] = a /\ <<a, b>>[2] = b
    OBVIOUS
  <2> QED BY <2>1, Zenon
<1>2. /\ s \o t \in Seq(V) /\ Len(s \o t) = Len(s) + 2
      /\ \A i \in 1..Len(s) : (s \o t)[i] = s[i]
      /\ (s \o t)[Len(s) + 1] = t[1] /\ (s \o t)[Len(s) + 2] = t[2]
  BY <1>1
<1> QED BY <1>1, <1>2

LEMMA NodePrinted ==
    ASSUME NEW n \in Nodes, NEW c \in Nat, NEW g \in Nat, NEW spec, NEW slots,
           slots[n] # 0, slots[n] * spec["cpu"] = c, slots[n] * spec["gpu"] = g
    PROVE  PrintedNode(spec, slots, n) \in Seq(Lines)
           /\ NodeLines(PrintedNode(spec, slots, n), n, c, g)
<1> DEFINE vc == [type |-> "core", basename |-> "core"]
           vg == [type |-> "gpu", basename |-> "nvidiagpu"]
           vn == [type |-> "node", basename |-> n]
           vs == [type |-> "subnet", basename |-> ZoneOf[n]]
<1>1. vc \in Lines /\ vg \in Lines /\ vn \in Lines /\ vs \in Lines
  BY DEF Lines, Names
<1>2. vc.type = "core" /\ vg.type = "gpu" /\ vn.type = "node" /\ vn.basename = n
      /\ vs.type = "subnet"
  OBVIOUS
<1>3. PrintedNode(spec, slots, n) = Copies(c, vc) \o Copies(g, vg) \o <<vn, vs>>
  BY DEF PrintedNode
<1> HIDE DEF vc, vg, vn, vs
<1>4. PICK s1 \in Seq(Lines) : s1 = Copies(c, vc) /\ Len(s1) = c /\ \A i \in 1..c : s1[i] = vc
  BY <1>1, CopiesType
<1>5. PICK s2 \in Seq(Lines) : Extends(s2, s1, vg, g)
  BY <1>1, ThenCopies
<1>6. /\ s2 = s1 \o Copies(g, vg) /\ Len(s2) = c + g
      /\ \A i \in 1..c : s2[i] = vc
      /\ \A i \in (c + 1)..(c + g) : s2[i] = vg
  BY <1>4, <1>5 DEF Extends
<1>7. PICK u : u = s2 \o <<vn, vs>>
  OBVIOUS
<1>8. /\ u \in Seq(Lines) /\ Len(u) = Len(s2) + 2
      /\ \A i \in 1..Len(s2) : u[i] = s2[i]
      /\ u[Len(s2) + 1] = vn /\ u[Len(s2) + 2] = vs
  BY <1>1, <1>7, TwoMore
<1>9. /\ \A i \in 1..c : u[i] = vc
      /\ \A i \in (c + 1)..(c + g) : u[i] = vg
  <2>1. 1..c \subseteq 1..Len(s2) /\ (c + 1)..(c + g) \subseteq 1..Len(s2)
    BY <1>6
  <2>2. \A i \in 1..Len(s2) : u[i] = s2[i]
    BY <1>8
  <2>3. \A i \in 1..c : u[i] = vc
    BY <1>6, <2>1, <2>2
  <2>4. \A i \in (c + 1)..(c + g) : u[i] = vg
    BY <1>6, <2>1, <2>2
  <2> QED BY <2>3, <2>4
<1>10. NodeLines(u, n, c, g)
  BY <1>2, <1>6, <1>8, <1>9 DEF NodeLines
<1>11. PrintedNode(spec, slots, n) = u
  BY <1>3, <1>4, <1>6, <1>7
<1> QED BY <1>8, <1>10, <1>11

BeginsWith(s, q) == Len(q) <= Len(s) /\ \A i \in 1..Len(q) : s[i] = q[i]

(* Everything that is printed, and the lines of each node in it. *)
AllLines(spec, slots, n, r, s) ==
    /\ \A k \in 0..n : r[k] \in Seq(Lines) /\ BeginsWith(s, r[k])
    /\ s \in Seq(Lines) /\ Len(s) = Len(r[n]) + 1 /\ s[Len(s)].type = "cluster"
    /\ \A k \in 1..n : r[k] = r[k - 1] \o PrintedNode(spec, slots, NodeItems[k])
    /\ r[0] = <<>>

LEMMA PrintedLines ==
    ASSUME NEW spec, NEW slots \in [Nodes -> Nat], spec["cpu"] \in Nat, spec["gpu"] \in Nat,
           NEW n \in Nat, NEW r, Run("print", <<>>, PartsOf(spec, slots), n, r),
           DOMAIN NodeItems = 1..n, NEW s,
           s = r[n] \o <<[type |-> "cluster", basename |-> "k8scluster"]>>
    PROVE  AllLines(spec, slots, n, r, s)
<1>1. ASSUME NEW k \in 1..n
      PROVE  /\ PrintedNode(spec, slots, NodeItems[k]) \in Seq(Lines)
             /\ r[k] = r[k - 1] \o PrintedNode(spec, slots, NodeItems[k])
  <2>1. NodeItems[k] \in Nodes
    BY GraphAssumption
  <2>2. PICK m \in Nodes : m = NodeItems[k]
    BY <2>1
  <2>3. PrintedNode(spec, slots, m) \in Seq(Lines)
    <3>1. CASE slots[m] = 0
      BY <3>1 DEF PrintedNode
    <3>2. CASE slots[m] # 0
      <4>1. slots[m] * spec["cpu"] \in Nat /\ slots[m] * spec["gpu"] \in Nat
        BY SMT
      <4> QED BY <3>2, <4>1, NodePrinted
    <3> QED BY <3>1, <3>2
  <2>4. r[k] = Op("print", r[k - 1], PartsOf(spec, slots)[k])
    BY DEF Run
  <2>5. PartsOf(spec, slots)[k] = PrintedNode(spec, slots, NodeItems[k])
    BY DEF PartsOf
  <2> QED BY <2>2, <2>3, <2>4, <2>5 DEF Op
<1>2. r[0] = <<>>
  BY DEF Run
<1>3. \A k \in 0..n : r[k] \in Seq(Lines)
  <2> DEFINE Good == {k \in 0..n : r[k] \in Seq(Lines)}
  <2>1. 0 \in Good
    <3>1. <<>> \in Seq(Lines) /\ 0 \in 0..n
      OBVIOUS
    <3> QED BY <1>2, <3>1
  <2>2. ASSUME NEW k \in 0..(n - 1), k \in Good PROVE k + 1 \in Good
    <3>1. PICK j \in 1..n : j = k + 1 /\ j - 1 = k
      OBVIOUS
    <3>2. r[j] = r[k] \o PrintedNode(spec, slots, NodeItems[j])
          /\ PrintedNode(spec, slots, NodeItems[j]) \in Seq(Lines)
      BY <1>1, <3>1
    <3>3. r[j] \in Seq(Lines)
      BY <2>2, <3>2
    <3> QED BY <3>1, <3>3
  <2> HIDE DEF Good
  <2>3. \A k \in 0..n : k \in Good
    BY <2>1, <2>2, UpTo
  <2> QED BY <2>3 DEF Good
<1>4. /\ s \in Seq(Lines) /\ Len(s) = Len(r[n]) + 1 /\ s[Len(s)].type = "cluster"
      /\ BeginsWith(s, r[n])
  <2>1. PICK v \in Lines : v = [type |-> "cluster", basename |-> "k8scluster"] /\ v.type = "cluster"
    <3>1. [type |-> "cluster", basename |-> "k8scluster"] \in Lines
      BY DEF Lines, Names
    <3> QED BY <3>1
  <2>2. PICK q \in Seq(Lines) : q = r[n]
    BY <1>3
  <2>3. s = q \o <<v>>
    BY <2>1, <2>2
  <2>4. /\ s \in Seq(Lines) /\ Len(s) = Len(q) + 1 /\ s[Len(q) + 1] = v
        /\ \A i \in 1..Len(q) : s[i] = q[i]
    <3>1. PICK w \in Seq(Lines) : w = <<v>> /\ Len(w) = 1 /\ w[1] = v
      <4>1. <<v>> \in Seq(Lines) /\ Len(<<v>>) = 1 /\ <<v>>[1] = v
        OBVIOUS
      <4> QED BY <4>1, Zenon
    <3>2. /\ q \o w \in Seq(Lines) /\ Len(q \o w) = Len(q) + 1 /\ (q \o w)[Len(q) + 1] = w[1]
          /\ \A i \in 1..Len(q) : (q \o w)[i] = q[i]
      BY <3>1
    <3> QED BY <2>3, <3>1, <3>2
  <2> QED BY <2>1, <2>2, <2>4 DEF BeginsWith
<1>5. \A k \in 0..n : BeginsWith(s, r[k])
  <2> DEFINE Good == {m \in 0..n : BeginsWith(s, r[n - m])}
  <2>1. 0 \in Good
    BY <1>4
  <2>2. ASSUME NEW m \in 0..(n - 1), m \in Good PROVE m + 1 \in Good
    <3>1. PICK j \in 1..n : j = n - m /\ j - 1 = n - (m + 1)
      OBVIOUS
    <3>2. PICK q \in Seq(Lines), p \in Seq(Lines), u \in Seq(Lines) :
            q = r[j] /\ p = r[j - 1] /\ q = p \o u
      <4>1. j \in 0..n /\ j - 1 \in 0..n
        OBVIOUS
      <4>2. r[j] \in Seq(Lines) /\ r[j - 1] \in Seq(Lines)
        BY <1>3, <4>1
      <4> QED BY <1>1, <4>2
    <3>3. BeginsWith(s, q)
      BY <2>2, <3>1, <3>2
    <3>4. BeginsWith(s, p)
      <4>1. /\ Len(p) \in Nat /\ Len(q) \in Nat /\ Len(s) \in Nat /\ Len(p) <= Len(q)
            /\ \A i \in 1..Len(p) : q[i] = p[i]
        <5>1. Len(p \o u) = Len(p) + Len(u) /\ \A i \in 1..Len(p) : (p \o u)[i] = p[i]
          OBVIOUS
        <5>2. Len(u) \in Nat /\ Len(p) \in Nat /\ Len(s) \in Nat
          BY <1>4
        <5> QED BY <3>2, <5>1, <5>2
      <4>2. 1..Len(p) \subseteq 1..Len(q)
        BY <4>1
      <4> QED BY <3>3, <4>1, <4>2 DEF BeginsWith
    <3> QED BY <3>1, <3>2, <3>4
  <2> HIDE DEF Good
  <2>3. \A m \in 0..n : m \in Good
    BY <2>1, <2>2, UpTo
  <2> SUFFICES ASSUME NEW k \in 0..n PROVE BeginsWith(s, r[k])
    OBVIOUS
  <2>4. n - k \in 0..n /\ n - (n - k) = k
    OBVIOUS
  <2> QED BY <2>3, <2>4 DEF Good
<1> QED BY <1>1, <1>2, <1>3, <1>4, <1>5 DEF AllLines

-----------------------------------------------------------------------------
(* What is read back.                                                       *)

Entries == [node : Nodes, cores : Nat]
Acc(R, c) == [result |-> R, corecount |-> c]

LEMMA ParseSteps ==
    ASSUME NEW R, NEW c \in Nat, NEW v
    PROVE  /\ v.type = "core" => ParseVertex(Acc(R, c), v) = Acc(R, c + 1)
           /\ v.type = "node" => ParseVertex(Acc(R, c), v) =
                                   Acc(Append(R, [node |-> v.basename, cores |-> c]), 0)
<1>1. Acc(R, c).result = R /\ Acc(R, c).corecount = c
      /\ [Acc(R, c) EXCEPT !.corecount = @ + 1] = Acc(R, c + 1)
  BY DEF Acc
<1>2. ASSUME v.type = "core" PROVE ParseVertex(Acc(R, c), v) = Acc(R, c + 1)
  <2>1. ParseVertex(Acc(R, c), v) = [Acc(R, c) EXCEPT !.corecount = @ + 1]
    BY <1>2 DEF ParseVertex
  <2> QED BY <1>1, <2>1
<1>3. ASSUME v.type = "node"
      PROVE  ParseVertex(Acc(R, c), v) = Acc(Append(R, [node |-> v.basename, cores |-> c]), 0)
  <2>1. ParseVertex(Acc(R, c), v) =
          [result |-> Append(Acc(R, c).result, [node |-> v.basename, cores |-> Acc(R, c).corecount]),
           corecount |-> 0]
    BY <1>3 DEF ParseVertex
  <2>2. ParseVertex(Acc(R, c), v) =
          [result |-> Append(R, [node |-> v.basename, cores |-> c]), corecount |-> 0]
    BY <1>1, <2>1
  <2> QED BY <2>2 DEF Acc
<1> QED BY <1>2, <1>3

LEMMA ParseOther ==
    ASSUME NEW acc, NEW v, v.type # "core", v.type # "node"
    PROVE  ParseVertex(acc, v) = acc
BY DEF ParseVertex

LinesAt(s, L, u, l) == \A i \in 1..l : s[L + i] = u[i]

Has(r, i, R, c) == r[i] = Acc(R, c)

(* The lines of one node add one entry. *)
LEMMA NodeRead ==
    ASSUME NEW s, NEW N \in Nat, NEW r, Run("parse", Start, s, N, r),
           NEW L \in Nat, NEW n, NEW c \in Nat, NEW g \in Nat, NEW u, NodeLines(u, n, c, g),
           L + c + g + 2 <= N, LinesAt(s, L, u, c + g + 2),
           NEW R, Has(r, L, R, 0)
    PROVE  Has(r, L + c + g + 2, Append(R, [node |-> n, cores |-> c]), 0)
<1>1. ASSUME NEW i \in 1..(c + g + 2) PROVE r[L + i] = ParseVertex(r[L + i - 1], u[i])
  <2>1. PICK k \in 1..N : k = L + i
    OBVIOUS
  <2>2. r[k] = ParseVertex(r[k - 1], s[k])
    BY DEF Run, Op
  <2> QED BY <2>1, <2>2 DEF LinesAt
<1>2. r[L + c] = Acc(R, c)
  <2> DEFINE Good == {i \in 0..c : r[L + i] = Acc(R, i)}
  <2>1. 0 \in Good
    BY DEF Has
  <2>2. ASSUME NEW i \in 0..(c - 1), i \in Good PROVE i + 1 \in Good
    <3>1. PICK j \in 1..(c + g + 2) : j = i + 1 /\ j \in 1..c /\ L + j - 1 = L + i
      OBVIOUS
    <3>2. r[L + j] = ParseVertex(Acc(R, i), u[j])
      BY <1>1, <2>2, <3>1
    <3>3. u[j].type = "core"
      BY <3>1 DEF NodeLines
    <3>4. r[L + j] = Acc(R, i + 1)
      <4>1. i \in Nat
        OBVIOUS
      <4>2. PICK v : v = u[j] /\ v.type = "core"
        BY <3>3
      <4>3. ParseVertex(Acc(R, i), v) = Acc(R, i + 1)
        BY <4>1, <4>2, ParseSteps
      <4> QED BY <3>2, <4>2, <4>3
    <3> QED BY <3>1, <3>4
  <2> HIDE DEF Good
  <2>3. \A i \in 0..c : i \in Good
    BY <2>1, <2>2, UpTo
  <2>4. c \in 0..c
    OBVIOUS
  <2> QED BY <2>3, <2>4 DEF Good
<1>3. r[L + c + g] = Acc(R, c)
  <2> DEFINE Good == {i \in 0..g : r[L + c + i] = Acc(R, c)}
  <2>1. 0 \in Good
    BY <1>2
  <2>2. ASSUME NEW i \in 0..(g - 1), i \in Good PROVE i + 1 \in Good
    <3>1. PICK j \in 1..(c + g + 2) : /\ j = c + i + 1 /\ j \in (c + 1)..(c + g)
                                      /\ L + j - 1 = L + c + i /\ L + j = L + c + (i + 1)
      OBVIOUS
    <3>2. r[L + j] = ParseVertex(Acc(R, c), u[j])
      BY <1>1, <2>2, <3>1
    <3>3. u[j].type # "core" /\ u[j].type # "node"
      <4>1. u[j].type = "gpu"
        BY <3>1 DEF NodeLines
      <4> QED BY <4>1
    <3>4. r[L + j] = Acc(R, c)
      BY <3>2, <3>3, ParseOther
    <3> QED BY <3>1, <3>4
  <2> HIDE DEF Good
  <2>3. \A i \in 0..g : i \in Good
    BY <2>1, <2>2, UpTo
  <2>4. g \in 0..g
    OBVIOUS
  <2> QED BY <2>3, <2>4 DEF Good
<1> DEFINE Q == Append(R, [node |-> n, cores |-> c])
<1>4. r[L + c + g + 1] = Acc(Q, 0)
  <2>1. PICK j \in 1..(c + g + 2) : /\ j = c + g + 1 /\ L + j - 1 = L + c + g
                                    /\ L + j = L + c + g + 1
    OBVIOUS
  <2>2. r[L + j] = ParseVertex(Acc(R, c), u[j])
    BY <1>1, <1>3, <2>1
  <2>3. u[j].type = "node" /\ u[j].basename = n
    BY <2>1 DEF NodeLines
  <2>4. r[L + j] = Acc(Q, 0)
    BY <2>2, <2>3, ParseSteps
  <2> QED BY <2>1, <2>4
<1> HIDE DEF Q
<1>5. r[L + c + g + 2] = Acc(Q, 0)
  <2>1. PICK j \in 1..(c + g + 2) : /\ j = c + g + 2 /\ L + j - 1 = L + c + g + 1
                                    /\ L + j = L + c + g + 2
    OBVIOUS
  <2>2. r[L + j] = ParseVertex(Acc(Q, 0), u[j])
    BY <1>1, <1>4, <2>1
  <2>3. u[j].type # "core" /\ u[j].type # "node"
    <3>1. u[j].type = "subnet"
      BY <2>1 DEF NodeLines
    <3> QED BY <3>1
  <2>4. r[L + j] = Acc(Q, 0)
    BY <2>2, <2>3, ParseOther
  <2> QED BY <2>1, <2>4
<1> QED BY <1>5 DEF Q, Has

Elements(R) == {R[i] : i \in DOMAIN R}

LEMMA OneMore ==
    ASSUME NEW V, NEW R \in Seq(V), NEW e \in V
    PROVE  Append(R, e) \in Seq(V) /\ Elements(Append(R, e)) = Elements(R) \cup {e}
<1>1. /\ Append(R, e) \in Seq(V) /\ DOMAIN R = 1..Len(R) /\ Len(R) \in Nat
      /\ DOMAIN Append(R, e) = 1..(Len(R) + 1)
      /\ \A i \in 1..Len(R) : Append(R, e)[i] = R[i]
      /\ Append(R, e)[Len(R) + 1] = e
  OBVIOUS
<1>2. 1..(Len(R) + 1) = (1..Len(R)) \cup {Len(R) + 1}
  BY <1>1
<1> QED BY <1>1, <1>2 DEF Elements

LEMMA SecondPart ==
    ASSUME NEW V, NEW a \in Seq(V), NEW u \in Seq(V)
    PROVE  /\ Len(a \o u) = Len(a) + Len(u)
           /\ \A i \in 1..Len(u) : (a \o u)[Len(a) + i] = u[i]
OBVIOUS

(* The entries of the first k nodes. *)
Read(slots, cpu, k) ==
    {[node |-> NodeItems[i], cores |-> slots[NodeItems[i]] * cpu] :
        i \in {j \in 1..k : slots[NodeItems[j]] # 0}}

(* ParseAllocResult reads back what was allocated. *)
LEMMA ReadBack ==
    ASSUME NEW spec, NEW slots \in [Nodes -> Nat], NEW cpu \in Nat, NEW gpu \in Nat,
           spec["cpu"] = cpu, spec["gpu"] = gpu, NEW n \in Nat, DOMAIN NodeItems = 1..n
    PROVE  /\ ParseAllocResult(Printed(spec, slots)) \in Seq(Entries)
           /\ Elements(ParseAllocResult(Printed(spec, slots))) = Read(slots, cpu, n)
<1>1. PICK q : /\ Run("print", <<>>, PartsOf(spec, slots), n, q)
               /\ Printed(spec, slots) =
                    q[n] \o <<[type |-> "cluster", basename |-> "k8scluster"]>>
  BY PrintRuns
<1>2. PICK s : s = Printed(spec, slots)
  OBVIOUS
<1>3. /\ \A k \in 0..n : q[k] \in Seq(Lines) /\ BeginsWith(s, q[k])
      /\ s \in Seq(Lines) /\ Len(s) = Len(q[n]) + 1 /\ s[Len(s)].type = "cluster"
      /\ \A k \in 1..n : q[k] = q[k - 1] \o PrintedNode(spec, slots, NodeItems[k])
      /\ q[0] = <<>>
  <2>1. spec["cpu"] \in Nat /\ spec["gpu"] \in Nat
    OBVIOUS
  <2>2. AllLines(spec, slots, n, q, s)
    BY <1>1, <1>2, <2>1, PrintedLines
  <2> QED BY <2>2 DEF AllLines
<1>4. PICK N \in Nat : N = Len(s) /\ DOMAIN s = 1..N
  BY <1>3
<1>5. PICK r : Run("parse", Start, s, N, r) /\ ParseAllocResult(s) = r[N].result
  BY <1>4, ParseRuns
<1> DEFINE Done(k, R) == /\ R \in Seq(Entries) /\ r[Len(q[k])] = Acc(R, 0)
                         /\ Elements(R) = Read(slots, cpu, k)
           Good == {k \in 0..n : \E R : Done(k, R)}
<1>6. 0 \in Good
  <2>1. r[0] = Acc(<<>>, 0) /\ Len(q[0]) = 0
    BY <1>3, <1>5 DEF Run, Start, Acc
  <2>2. <<>> \in Seq(Entries) /\ Elements(<<>>) = {} /\ Read(slots, cpu, 0) = {}
    BY DEF Elements, Read
  <2>3. r[Len(q[0])] = Acc(<<>>, 0)
    BY <2>1
  <2>4. PICK E : E = <<>>
    OBVIOUS
  <2>5. E \in Seq(Entries) /\ Elements(E) = Read(slots, cpu, 0) /\ r[Len(q[0])] = Acc(E, 0)
    BY <2>2, <2>3, <2>4
  <2>6. Done(0, E)
    BY <2>5
  <2>7. 0 \in 0..n
    OBVIOUS
  <2> HIDE DEF Done
  <2> QED BY <2>6, <2>7
<1>7. ASSUME NEW k \in 0..(n - 1), k \in Good PROVE k + 1 \in Good
  <2>1. PICK R : Done(k, R)
    BY <1>7
  <2>2. PICK j \in 1..n : j = k + 1 /\ j - 1 = k
    OBVIOUS
  <2>3. PICK m \in Nodes : m = NodeItems[j]
    BY GraphAssumption
  <2>4. PICK a \in Seq(Lines), b \in Seq(Lines) : a = q[k] /\ b = q[j] /\ BeginsWith(s, b)
    <3>1. k \in 0..n /\ j \in 0..n
      OBVIOUS
    <3> QED BY <1>3, <3>1
  <2>5. b = a \o PrintedNode(spec, slots, m)
    BY <1>3, <2>2, <2>3, <2>4
  <2>6. CASE slots[m] = 0
    <3>1. b = a
      <4>1. PrintedNode(spec, slots, m) = <<>>
        BY <2>6 DEF PrintedNode
      <4>2. a \o <<>> = a
        OBVIOUS
      <4> QED BY <2>5, <4>1, <4>2
    <3>2. Read(slots, cpu, j) = Read(slots, cpu, k)
      <4>1. {i \in 1..j : slots[NodeItems[i]] # 0} = {i \in 1..k : slots[NodeItems[i]] # 0}
        BY <2>2, <2>3, <2>6
      <4> QED BY <4>1 DEF Read
    <3>3. Done(j, R)
      BY <2>1, <2>4, <3>1, <3>2
    <3> QED BY <2>2, <3>3
  <2>7. CASE slots[m] # 0
    <3>1. PICK c \in Nat, g \in Nat : c = slots[m] * cpu /\ g = slots[m] * gpu
      <4>1. slots[m] * cpu \in Nat /\ slots[m] * gpu \in Nat
        OBVIOUS
      <4> QED BY <4>1
    <3>2. PICK u \in Seq(Lines) : u = PrintedNode(spec, slots, m) /\ NodeLines(u, m, c, g)
      BY <2>7, <3>1, NodePrinted
    <3>3. PICK L \in Nat : L = Len(a)
      OBVIOUS
    <3>4. Len(u) = c + g + 2
      BY <3>2 DEF NodeLines
    <3>5. Len(b) = L + c + g + 2 /\ \A i \in 1..(c + g + 2) : b[L + i] = u[i]
      <4>1. Len(a \o u) = Len(a) + Len(u) /\ \A i \in 1..Len(u) : (a \o u)[Len(a) + i] = u[i]
        BY SecondPart
      <4> QED BY <2>5, <3>2, <3>3, <3>4, <4>1
    <3>6. L + c + g + 2 <= N /\ LinesAt(s, L, u, c + g + 2)
      <4>1. Len(b) <= N /\ \A i \in 1..Len(b) : s[i] = b[i]
        BY <1>4, <2>4 DEF BeginsWith
      <4>2. \A i \in 1..(c + g + 2) : L + i \in 1..Len(b)
        BY <3>5
      <4> QED BY <3>5, <4>1, <4>2 DEF LinesAt
    <3> DEFINE e == [node |-> m, cores |-> c]
    <3>7. Has(r, L, R, 0)
      BY <2>1, <2>4, <3>3 DEF Has
    <3>8. Has(r, L + c + g + 2, Append(R, [node |-> m, cores |-> c]), 0)
      BY <1>5, <3>2, <3>6, <3>7, NodeRead
    <3>9. e \in Entries
      BY DEF Entries
    <3>10. Read(slots, cpu, j) = Read(slots, cpu, k) \cup {e}
      <4>1. {i \in 1..j : slots[NodeItems[i]] # 0} = {i \in 1..k : slots[NodeItems[i]] # 0} \cup {j}
        BY <2>2, <2>3, <2>7
      <4> QED BY <2>3, <3>1, <4>1 DEF Read
    <3>11. r[Len(b)] = Acc(Append(R, e), 0)
      BY <3>5, <3>8 DEF Has
    <3> HIDE DEF e
    <3>12. Append(R, e) \in Seq(Entries) /\ Elements(Append(R, e)) = Elements(R) \cup {e}
      BY <2>1, <3>9, OneMore
    <3>13. Done(j, Append(R, e))
      BY <2>1, <2>4, <3>10, <3>11, <3>12
    <3> HIDE DEF Done
    <3> QED BY <2>2, <3>13
  <2> QED BY <2>6, <2>7
<1> HIDE DEF Good
<1>8. n \in Good
  <2>1. \A k \in 0..n : k \in Good
    BY <1>6, <1>7, UpTo
  <2>2. n \in 0..n
    OBVIOUS
  <2> QED BY <2>1, <2>2
<1>9. PICK R : Done(n, R)
  BY <1>8 DEF Good
<1>10. r[N] = Acc(R, 0)
  <2>1. Len(q[n]) \in Nat /\ N = Len(q[n]) + 1
    BY <1>3, <1>4
  <2>2. N \in 1..N /\ N - 1 = Len(q[n])
    BY <2>1
  <2>3. r[N] = ParseVertex(r[N - 1], s[N])
    BY <1>5, <2>2 DEF Run, Op
  <2>4. r[N] = ParseVertex(Acc(R, 0), s[N]) /\ s[N].type = "cluster"
    BY <1>3, <1>4, <1>9, <2>2, <2>3
  <2>5. s[N].type # "core" /\ s[N].type # "node"
    BY <2>4
  <2> QED BY <2>4, <2>5, ParseOther
<1>11. ParseAllocResult(s) = R
  BY <1>5, <1>10 DEF Acc
<1> QED BY <1>2, <1>9, <1>11

LEMMA SlotUnits ==
    ASSUME NEW p \in Pods
    PROVE  SlotSpec(PodSpec(p))["cpu"] \in Nat \ {0} /\ SlotSpec(PodSpec(p))["gpu"] \in Nat
<1>1. SlotSpec(PodSpec(p))["cpu"] \in Nat /\ SlotSpec(PodSpec(p))["gpu"] \in Nat
  BY SpecCovers DEF Kinds
<1>2. PICK cpus : PodSpec(p) = [cpu |-> IF cpus = 0 THEN 1 ELSE cpus,
                                mem |-> ContainersRequest(p, "mem"),
                                gpu |-> ContainersRequest(p, "gpu")]
  BY DEF PodSpec
<1>3. SlotSpec(PodSpec(p))["cpu"] # 0
  <2> DEFINE c == IF cpus = 0 THEN 1 ELSE cpus
             m == ContainersRequest(p, "mem")
             g == ContainersRequest(p, "gpu")
  <2>1. c # 0
    OBVIOUS
  <2>2. PICK x, y, z, q : x = c /\ y = m /\ z = g /\ q = [cpu |-> x, mem |-> y, gpu |-> z]
    OBVIOUS
  <2>3. q = PodSpec(p)
    BY <1>2, <2>2
  <2>4. SlotSpec(q)["cpu"] = x
    BY <2>2 DEF SlotSpec
  <2> QED BY <2>1, <2>2, <2>3, <2>4
<1> QED BY <1>1, <1>3

(* The list Match returns, for the slots of a job. *)
ListOf(slots) == {[node |-> n, tasks |-> slots[n]] : n \in {m \in Nodes : slots[m] > 0}}

LEMMA ListRead ==
    ASSUME NEW spec, NEW slots \in [Nodes -> Nat], spec["cpu"] \in Nat \ {0}, spec["gpu"] \in Nat
    PROVE  NodeAllocs(spec, slots) = ListOf(slots)
<1>1. PICK cpu \in Nat \ {0}, gpu \in Nat : cpu = spec["cpu"] /\ gpu = spec["gpu"]
  OBVIOUS
<1>2. PICK n \in Nat : DOMAIN NodeItems = 1..n
  BY GraphAssumption
<1>3. PICK R : R = ParseAllocResult(Printed(spec, slots))
  OBVIOUS
<1>4. R \in Seq(Entries) /\ Elements(R) = Read(slots, cpu, n)
  BY <1>1, <1>2, <1>3, ReadBack
<1>5. NodeAllocs(spec, slots) = {[node |-> e.node, tasks |-> e.cores \div cpu] : e \in Elements(R)}
  BY <1>1, <1>3 DEF NodeAllocs, Elements
<1>6. Nodes = {NodeItems[i] : i \in 1..n}
  BY <1>2 DEF Nodes, ToSet
<1>7. Read(slots, cpu, n) = {[node |-> m, cores |-> slots[m] * cpu] : m \in {x \in Nodes : slots[x] > 0}}
  <2>1. \A m \in Nodes : slots[m] # 0 <=> slots[m] > 0
    BY SMT
  <2>2. ASSUME NEW e \in Read(slots, cpu, n)
        PROVE  e \in {[node |-> m, cores |-> slots[m] * cpu] : m \in {x \in Nodes : slots[x] > 0}}
    BY <1>6, <2>1 DEF Read
  <2>3. ASSUME NEW m \in Nodes, slots[m] > 0
        PROVE  [node |-> m, cores |-> slots[m] * cpu] \in Read(slots, cpu, n)
    <3>1. PICK i \in 1..n : NodeItems[i] = m
      BY <1>6
    <3>2. slots[NodeItems[i]] # 0
      BY <2>1, <2>3, <3>1
    <3> QED BY <3>1, <3>2 DEF Read
  <2> QED BY <2>2, <2>3
<1>8. \A m \in Nodes : (slots[m] * cpu) \div cpu = slots[m]
  <2>1. ASSUME NEW a \in Nat, NEW c \in Nat \ {0} PROVE (a * c) \div c = a
    BY SMT
  <2> QED BY <2>1
<1> DEFINE F(e) == [node |-> e.node, tasks |-> e.cores \div cpu]
           M == {x \in Nodes : slots[x] > 0}
<1>9. ASSUME NEW m \in Nodes, NEW e, e = [node |-> m, cores |-> slots[m] * cpu]
      PROVE  F(e) = [node |-> m, tasks |-> slots[m]]
  <2>1. e.node = m /\ e.cores = slots[m] * cpu
    BY <1>9
  <2> QED BY <1>8, <2>1
<1>10. NodeAllocs(spec, slots) = {F(e) : e \in Read(slots, cpu, n)}
  BY <1>4, <1>5
<1> HIDE DEF F
<1>11. ASSUME NEW a \in NodeAllocs(spec, slots) PROVE a \in ListOf(slots)
  <2>1. PICK e \in Read(slots, cpu, n) : a = F(e)
    BY <1>10
  <2>2. PICK m \in M : e = [node |-> m, cores |-> slots[m] * cpu]
    BY <1>7
  <2>3. a = [node |-> m, tasks |-> slots[m]]
    BY <1>9, <2>1, <2>2
  <2> QED BY <2>3 DEF ListOf
<1>12. ASSUME NEW a \in ListOf(slots) PROVE a \in NodeAllocs(spec, slots)
  <2>1. PICK m \in M : a = [node |-> m, tasks |-> slots[m]]
    BY DEF ListOf
  <2>2. PICK e \in Read(slots, cpu, n) : e = [node |-> m, cores |-> slots[m] * cpu]
    BY <1>7
  <2>3. a = F(e)
    BY <1>9, <2>1, <2>2
  <2> QED BY <1>10, <2>3
<1> QED BY <1>11, <1>12

-----------------------------------------------------------------------------
(* The lists, and where the pods are.                                       *)

LEMMA ListsNext ==
    ASSUME Books, TasksMatchSlots, [Next]_vars PROVE TasksMatchSlots'
<1>1. \A j \in jobs : j.nodelist = ListOf(j.slots)
  BY DEF TasksMatchSlots, ListOf
<1>2. \A j \in jobs' : j.nodelist = ListOf(j.slots)
  <2>1. CASE \E p \in Pods : GangBind(p)
    <3>1. PICK j, r : /\ j \in jobs /\ r.slots = j.slots /\ r.nodelist = j.nodelist
                      /\ jobs' = (jobs \ {j}) \cup {r}
      BY <2>1, GangEffect DEF Books
    <3> QED BY <1>1, <3>1
  <2>2. CASE \E p \in Pods : Match(p)
    <3>1. PICK r : IsJob(r) /\ jobs' = jobs \cup {r} /\ r.nodelist = NodeAllocs(r.spec, r.slots)
      BY <2>2, MatchEffect
    <3>2. r.spec["cpu"] \in Nat \ {0} /\ r.spec["gpu"] \in Nat /\ r.slots \in [Nodes -> Nat]
      BY <3>1, SlotUnits DEF IsJob
    <3>3. r.nodelist = ListOf(r.slots)
      BY <3>1, <3>2, ListRead
    <3> QED BY <1>1, <3>1, <3>3
  <2>3. CASE jobs' \subseteq jobs
    BY <1>1, <2>3
  <2> QED BY <2>1, <2>2, <2>3, JobSteps
<1> QED BY <1>2 DEF TasksMatchSlots, ListOf

Seats == at \in [Pods -> Nodes \cup {NoNode}]

LEMMA OpenNodes ==
    ASSUME TasksMatchSlots, NEW j \in jobs, NEW n \in Open(j)
    PROVE  n \in Nodes /\ j.slots[n] > 0 /\ \A p \in j.bound : at[p] # n
<1>1. PICK a \in j.nodelist : a.node = n
  BY DEF Open
<1>2. PICK m \in Nodes : j.slots[m] > 0 /\ a = [node |-> m, tasks |-> j.slots[m]]
  BY <1>1 DEF TasksMatchSlots
<1>3. m = n
  BY <1>1, <1>2
<1>4. \A p \in j.bound : at[p] # n
  BY DEF Open
<1> QED BY <1>2, <1>3, <1>4

LEMMA SeatsNext ==
    ASSUME Books, TasksMatchSlots, Seats, [Next]_vars PROVE Seats'
<1>1. ASSUME NEW p \in Pods, NEW n \in Nodes, Place(p, n) PROVE Seats'
  BY <1>1 DEF Place, Seats
<1>2. CASE \E p \in Pods : GangBind(p)
  <2>1. PICK p \in Pods : GangBind(p)
    BY <1>2
  <2>2. PICK j, n : j \in jobs /\ n \in Open(j) /\ Place(p, n)
    BY <2>1 DEF GangBind
  <2>3. n \in Nodes
    BY <2>2, OpenNodes
  <2> QED BY <1>1, <2>2, <2>3
<1>3. CASE \E p \in Pods : OtherBind(p)
  BY <1>1, <1>3 DEF OtherBind
<1>4. CASE UNCHANGED at
  BY <1>4 DEF Seats
<1> QED BY <1>2, <1>3, <1>4
        DEF Next, End, Match, SkipNode, ReadNode, LoadGraph, BuildFails, Cancel, Restart, vars

(* The list of nodes and tasks that Match returns is the allocation,        *)
(* whatever the nodes, the pod and the slots: ParseAllocResult attributes   *)
(* to every node of the printed graph the cores printed before it, and the  *)
(* division by the cores of one pod gives its slots back.                   *)
THEOREM ListsAreAllocations == Spec => []TasksMatchSlots
<1>1. Init => Books /\ TasksMatchSlots
  BY BooksInit DEF Init, TasksMatchSlots
<1>2. Books /\ TasksMatchSlots /\ [Next]_vars => (Books /\ TasksMatchSlots)'
  BY BooksNext, ListsNext
<1> QED BY <1>1, <1>2, PTL DEF Spec

(* Type correctness, and the shape of the graph at every step of            *)
(* CreateInClusterJGF: a tree whose edges join the right types, with every  *)
(* node once.                                                               *)
THEOREM GraphTypes == Spec => []TypeOK
<1> DEFINE Inv == Books /\ TasksMatchSlots /\ Seats
<1>1. Init => Inv
  <2> SUFFICES ASSUME Init PROVE Inv
    OBVIOUS
  <2>1. TasksMatchSlots /\ Seats
    BY DEF Init, TasksMatchSlots, Seats
  <2> QED BY <2>1, BooksInit
<1>2. Inv /\ [Next]_vars => Inv'
  BY BooksNext, ListsNext, SeatsNext
<1>3. Inv => TypeOK
  <2> SUFFICES ASSUME Inv PROVE TypeOK
    OBVIOUS
  <2>1. Tree(graph)
    BY DEF Books, GraphShape
  <2>2. \A j \in jobs : /\ j.id \in JobIds /\ j.asker \in Pods
                        /\ j.slots \in [Nodes -> Nat] /\ j.bound \subseteq Pods
    BY DEF Books, JobShape, IsJob
  <2>3. /\ phase \in [Pods -> {"new", "running", "ended"}]
        /\ pos \in 0..Len(NodeItems) + 1 /\ counted \subseteq Pods
    BY DEF Books, PodShape
  <2> QED BY <2>1, <2>2, <2>3 DEF Seats, Tree, TypeOK
<1> QED BY <1>1, <1>2, <1>3, PTL DEF Spec

-----------------------------------------------------------------------------
(* Gangs.                                                                   *)

(* The pods of a group request the same: the sidecar is asked on behalf of  *)
(* one of them only.                                                        *)
LikeGangs ==
    \A p, q \in Pods : GroupOf[p] = GroupOf[q] /\ GroupOf[p] # NoGroup =>
        \A k \in Kinds : Request(p, k) = Request(q, k)

(* The pods bound for a job are of its group, each on another node of its   *)
(* slots.                                                                   *)
Gang(j) ==
    /\ GroupOf[j.asker] # NoGroup
    /\ \A p \in j.bound : /\ phase[p] # "new" /\ GroupOf[p] = GroupOf[j.asker]
                          /\ j.slots[at[p]] > 0
    /\ \A p, q \in j.bound : at[p] = at[q] => p = q

Gangs == \A j \in jobs : Gang(j)

LEMMA PodsKept ==
    ASSUME PodShape, [Next]_vars, NEW q \in Pods, phase[q] # "new"
    PROVE  phase'[q] # "new" /\ at'[q] = at[q]
<1>1. phase \in [Pods -> {"new", "running", "ended"}] /\ DOMAIN at = Pods
  BY DEF PodShape
<1>2. CASE \E p, n : p \in Pods /\ Place(p, n)
  <2>1. PICK p, n : p \in Pods /\ Place(p, n)
    BY <1>2
  <2>2. phase[p] = "new" /\ phase' = [phase EXCEPT ![p] = "running"] /\ at' = [at EXCEPT ![p] = n]
    BY <2>1 DEF Place
  <2>3. phase'[q] = phase[q] /\ at'[q] = at[q]
    BY <1>1, <2>1, <2>2
  <2> QED BY <2>3
<1>3. CASE \E p \in Pods : End(p)
  BY <1>1, <1>3 DEF End
<1>4. CASE UNCHANGED <<phase, at>>
  BY <1>4
<1> QED BY <1>2, <1>3, <1>4, PodSteps

LEMMA GangKept ==
    ASSUME PodShape, [Next]_vars, NEW i, Gang(i), IsJob(i) PROVE Gang(i)'
<1>1. \A p \in i.bound : phase'[p] # "new" /\ at'[p] = at[p]
  <2> SUFFICES ASSUME NEW p \in i.bound PROVE phase'[p] # "new" /\ at'[p] = at[p]
    OBVIOUS
  <2>1. p \in Pods /\ phase[p] # "new"
    BY DEF IsJob, Gang
  <2> QED BY <2>1, PodsKept
<1> QED BY <1>1 DEF Gang

LEMMA GangsNext ==
    ASSUME Books, TasksMatchSlots, Gangs, [Next]_vars PROVE Gangs'
<1>1. PodShape /\ JobShape /\ \A j \in jobs : IsJob(j)
  BY DEF Books, JobShape
<1>2. \A j \in jobs : Gang(j)'
  BY <1>1, GangKept DEF Gangs
<1>3. ASSUME \A j \in jobs' : Gang(j)' PROVE Gangs'
  BY <1>3 DEF Gangs
<1>4. CASE \E p \in Pods : GangBind(p)
  <2>1. PICK p \in Pods : GangBind(p)
    BY <1>4
  <2>2. PICK j, r, n :
             /\ j \in jobs /\ IsJob(r) /\ r.slots = j.slots
             /\ r.asker = j.asker /\ r.bound = j.bound \cup {p}
             /\ jobs' = (jobs \ {j}) \cup {r}
             /\ n \in Open(j) /\ GroupOf[p] = GroupOf[j.asker] /\ Place(p, n)
    BY <1>1, <2>1, GangEffect
  <2>3. j.slots[n] > 0 /\ \A q \in j.bound : at[q] # n
    BY <2>2, OpenNodes
  <2>4. phase'[p] # "new" /\ at'[p] = n
    <3>1. phase \in [Pods -> {"new", "running", "ended"}] /\ DOMAIN at = Pods
      BY <1>1 DEF PodShape
    <3> QED BY <2>2, <3>1 DEF Place
  <2>5. \A q \in j.bound : at'[q] = at[q]
    <3>1. Gang(j) /\ j.bound \subseteq Pods
      BY <1>1, <2>2 DEF Gangs, IsJob
    <3>2. \A q \in j.bound : q \in Pods /\ phase[q] # "new"
      BY <3>1 DEF Gang
    <3> QED BY <1>1, <3>2, PodsKept
  <2>6. Gang(j)'
    BY <1>2, <2>2
  <2>7. Gang(r)'
    <3>1. GroupOf[r.asker] # NoGroup
      BY <2>2, <2>6 DEF Gang
    <3>2. ASSUME NEW q \in r.bound
          PROVE  phase'[q] # "new" /\ GroupOf[q] = GroupOf[r.asker] /\ r.slots[at'[q]] > 0
      BY <2>2, <2>3, <2>4, <2>6 DEF Gang
    <3>3. ASSUME NEW q \in r.bound, NEW x \in r.bound, at'[q] = at'[x] PROVE q = x
      <4>1. \A y, z \in j.bound : at'[y] = at'[z] => y = z
        BY <2>6 DEF Gang
      <4>2. \A y \in j.bound : at'[y] # n
        BY <2>3, <2>5
      <4> QED BY <2>2, <2>4, <3>3, <4>1, <4>2
    <3> QED BY <3>1, <3>2, <3>3 DEF Gang
  <2>8. \A i \in jobs' : Gang(i)'
    BY <1>2, <2>2, <2>7
  <2> QED BY <1>3, <2>8
<1>5. CASE \E p \in Pods : Match(p)
  <2>1. PICK p \in Pods : Match(p)
    BY <1>5
  <2>2. PICK r : IsJob(r) /\ r.asker = p /\ r.bound = {} /\ jobs' = jobs \cup {r}
    BY <2>1, MatchEffect
  <2>3. GroupOf[p] # NoGroup
    BY <2>1 DEF Match
  <2>4. Gang(r)'
    BY <2>2, <2>3 DEF Gang
  <2>5. \A i \in jobs' : Gang(i)'
    BY <1>2, <2>2, <2>4
  <2> QED BY <1>3, <2>5
<1>6. CASE jobs' \subseteq jobs
  <2>1. \A i \in jobs' : Gang(i)'
    BY <1>2, <1>6
  <2> QED BY <1>3, <2>1
<1> QED BY <1>4, <1>5, <1>6, JobSteps

(* The pods on a node for the slots of the live jobs, and one more that a   *)
(* job sends there, request no more than was promised.                      *)
LEMMA GangsFit ==
    ASSUME LikeGangs, Books, TasksMatchSlots, Gangs, NEW k \in Kinds,
           NEW j \in jobs, NEW n \in Open(j),
           NEW p \in Pods, phase[p] = "new", GroupOf[p] = GroupOf[j.asker],
           NEW B \in SUBSET Pods,
           \A q \in B : q = p \/ (at[q] = n /\ \E i \in jobs : q \in i.bound)
    PROVE  TotalRequests(B, k) <= Promised(n, k)
<1>1. IsFiniteSet(jobs) /\ \A i \in jobs : IsJob(i) /\ Gang(i)
  BY DEF Books, JobShape, Gangs
<1>2. n \in Nodes /\ j.slots[n] > 0 /\ \A q \in j.bound : at[q] # n
  BY OpenNodes
<1>3. \A i \in jobs : p \notin i.bound
  BY <1>1 DEF Gang
<1> DEFINE Owns(q, i) == IF q = p THEN i = j ELSE i \in jobs /\ q \in i.bound
           m == [q \in B |-> CHOOSE i : Owns(q, i)]
           f == [q \in Pods |-> Request(q, k)]
           g == [i \in jobs |-> i.slots[n] * Request(i.asker, k)]
<1>4. ASSUME NEW q \in B
      PROVE  /\ m[q] \in jobs /\ Owns(q, m[q])
             /\ GroupOf[q] = GroupOf[m[q].asker] /\ m[q].slots[n] > 0
  <2>1. \E i : Owns(q, i)
    <3>1. CASE q = p
      BY <3>1
    <3>2. CASE q # p
      <4>1. PICK i \in jobs : q \in i.bound
        BY <3>2
      <4> QED BY <3>2, <4>1
    <3> QED BY <3>1, <3>2
  <2>2. PICK i : i = m[q] /\ Owns(q, i)
    BY <2>1
  <2>3. i \in jobs
    BY <2>2
  <2>4. GroupOf[q] = GroupOf[i.asker] /\ i.slots[n] > 0
    <3>1. CASE q = p
      BY <1>2, <2>2, <3>1
    <3>2. CASE q # p
      <4>1. q \in i.bound /\ at[q] = n
        BY <2>2, <3>2
      <4> QED BY <1>1, <2>3, <4>1 DEF Gang
    <3> QED BY <3>1, <3>2
  <2> HIDE DEF m, Owns
  <2> QED BY <2>2, <2>3, <2>4
<1>5. ASSUME NEW q \in B, NEW x \in B, m[q] = m[x] PROVE q = x
  <2>1. PICK i \in jobs : i = m[q] /\ i = m[x] /\ Owns(q, i) /\ Owns(x, i)
    BY <1>4, <1>5
  <2> HIDE DEF m
  <2>2. CASE q = p /\ x # p
    BY <1>2, <2>1, <2>2
  <2>3. CASE q # p /\ x = p
    BY <1>2, <2>1, <2>3
  <2>4. CASE q # p /\ x # p
    <3>1. q \in i.bound /\ x \in i.bound /\ at[q] = n /\ at[x] = n
      BY <2>1, <2>4
    <3> QED BY <1>1, <2>1, <3>1 DEF Gang
  <2> QED BY <2>2, <2>3, <2>4
<1>6. \A i \in jobs : i.asker \in Pods /\ i.slots[n] \in Nat /\ Request(i.asker, k) \in Nat
                      /\ g[i] \in Nat /\ g[i] = i.slots[n] * Request(i.asker, k)
  <2> SUFFICES ASSUME NEW i \in jobs
               PROVE  /\ i.asker \in Pods /\ i.slots[n] \in Nat /\ Request(i.asker, k) \in Nat
                      /\ g[i] \in Nat /\ g[i] = i.slots[n] * Request(i.asker, k)
    OBVIOUS
  <2>1. i.asker \in Pods /\ i.slots[n] \in Nat
    BY <1>1, <1>2 DEF IsJob
  <2>2. Request(i.asker, k) \in Nat
    BY <2>1, RequestTypes
  <2> QED BY <2>1, <2>2
<1>7. ASSUME NEW q \in B PROVE m[q] \in jobs /\ f[q] \in Nat /\ f[q] <= g[m[q]]
  <2>1. PICK i \in jobs : i = m[q] /\ GroupOf[q] = GroupOf[i.asker] /\ i.slots[n] > 0
    BY <1>4
  <2>2. GroupOf[i.asker] # NoGroup
    BY <1>1 DEF Gang
  <2>3. f[q] = Request(i.asker, k)
    <3>1. i.asker \in Pods
      BY <1>6
    <3> QED BY <2>1, <2>2, <3>1 DEF LikeGangs
  <2>4. PICK a \in Nat, s \in Nat : a = Request(i.asker, k) /\ s = i.slots[n] /\ s > 0
    BY <1>6, <2>1
  <2>5. a <= s * a
    <3>1. PICK t \in Nat : s = t + 1
      <4>1. s - 1 \in Nat /\ s = (s - 1) + 1
        BY <2>4
      <4> QED BY <4>1
    <3>2. t * a \in Nat /\ s * a = t * a + a
      BY <3>1
    <3> QED BY <3>2
  <2>6. g[i] = s * a
    BY <1>6, <2>4
  <2> HIDE DEF m, f, g
  <2> QED BY <2>1, <2>3, <2>4, <2>5, <2>6
<1>8. IsFiniteSet(B)
  BY GraphAssumption, FS_Subset
<1>9. TotalRequests(B, k) = SumOver(B, f) /\ Promised(n, k) = SumOver(jobs, g)
  BY DEF TotalRequests, Promised
<1> HIDE DEF m, f, g, Owns
<1>10. SumOver(B, f) <= SumOver(jobs, g)
  <2>1. \A q \in B : m[q] \in jobs /\ f[q] \in Nat /\ f[q] <= g[m[q]]
    BY <1>7
  <2>2. \A q, x \in B : m[q] = m[x] => q = x
    BY <1>5
  <2>3. \A i \in jobs : g[i] \in Nat
    BY <1>6
  <2> QED BY <1>1, <1>8, <2>1, <2>2, <2>3, SumInject
<1> QED BY <1>9, <1>10

LEMMA SentFits ==
    ASSUME LikeGangs, Books, TasksMatchSlots, Gangs PROVE SentWhereItFits
<1> SUFFICES ASSUME NEW j \in jobs, NEW p \in Pods, NEW n \in Open(j),
                    phase[p] = "new", GroupOf[p] = GroupOf[j.asker], Accounted(n),
                    \A k \in Kinds : /\ Uncounted(n, k) = 0
                                     /\ \A i \in jobs : i.slots[n] > 0 => Unasked(i.asker, k) = 0,
                    NEW k \in Kinds
             PROVE  TotalRequests(Running(n) \cup {p}, k) <= Allocatable[n][k]
  BY DEF SentWhereItFits, Fits
<1>1. n \in Nodes
  BY OpenNodes
<1> DEFINE C == counted \cap Running(n)
           B == {q \in Running(n) : \E i \in jobs : q \in i.bound} \cup {p}
           f == [q \in Pods |-> Request(q, k)]
<1>2. B \in SUBSET Pods /\ C \in SUBSET Pods /\ Running(n) \cup {p} \subseteq C \cup B
      /\ C \cup B \subseteq Running(n) \cup {p}
  BY DEF Running, Accounted
<1>3. TotalRequests(B, k) <= Promised(n, k)
  <2>1. \A q \in B : q = p \/ (at[q] = n /\ \E i \in jobs : q \in i.bound)
    BY DEF Running
  <2> HIDE DEF B
  <2> QED BY <1>2, <2>1, GangsFit
<1>4. TotalRequests(C, k) = Used(n, k)
  BY UsedNow
<1> HIDE DEF B, C
<1>5. Running(n) \cup {p} = C \cup B
  BY <1>2
<1>6. IsFiniteSet(B) /\ IsFiniteSet(C) /\ \A q \in C \cup B : f[q] \in Nat
  BY <1>2, GraphAssumption, FS_Subset, RequestTypes
<1>7. TotalRequests(C \cup B, k) <= TotalRequests(C, k) + TotalRequests(B, k)
  <2>1. /\ TotalRequests(C \cup B, k) = SumOver(C \cup B, f)
        /\ TotalRequests(C, k) = SumOver(C, f) /\ TotalRequests(B, k) = SumOver(B, f)
    BY DEF TotalRequests
  <2> HIDE DEF f
  <2>2. SumOver(C \cup B, f) <= SumOver(C, f) + SumOver(B, f)
    BY <1>6, SumUnion
  <2> QED BY <2>1, <2>2
<1>8. PICK J : J = jobs /\ IsFiniteSet(J) /\ \A i \in J : IsJob(i)
  BY DEF Books, JobShape
<1>9. SumOver(jobs, [i \in jobs |-> i.slots[n] * Unasked(i.asker, k)]) = 0
  <2> DEFINE u == [i \in J |-> i.slots[n] * Unasked(i.asker, k)]
  <2>1. ASSUME NEW i \in J PROVE u[i] = 0
    <3>1. i.slots[n] \in Nat /\ Unasked(i.asker, k) \in Int
      BY <1>1, <1>8, SpecCovers DEF IsJob
    <3>2. PICK s \in Nat, x \in Int : s = i.slots[n] /\ x = Unasked(i.asker, k)
      BY <3>1
    <3>3. s = 0 \/ x = 0
      BY <1>8, <3>2
    <3>4. s * x = 0
      BY <3>3
    <3> QED BY <3>2, <3>4
  <2> HIDE DEF u
  <2>2. \A i \in J : u[i] \in Int /\ u[i] = 0 * u[i]
    BY <2>1
  <2>3. SumOver(J, u) = 0 * SumOver(J, u) /\ SumOver(J, u) \in Int
    BY <1>8, <2>2, SumScale, SumInt
  <2>4. SumOver(J, u) = 0
    BY <2>3
  <2> QED BY <1>8, <2>4 DEF u
<1>10. Used(n, k) + Promised(n, k) <=
         Allocatable[n][k] + Uncounted(n, k)
           + SumOver(jobs, [i \in jobs |-> i.slots[n] * Unasked(i.asker, k)])
  BY <1>1, BooksBalance DEF NodeNotOversold
<1>11. PICK P \in Int : P = Promised(n, k)
  <2>1. Promised(n, k) = SumOver(J, [i \in J |-> i.slots[n] * Request(i.asker, k)])
    BY <1>8 DEF Promised
  <2>2. SumOver(J, [i \in J |-> i.slots[n] * Request(i.asker, k)]) \in Int
    BY <1>1, <1>8, PromisedSplit
  <2> QED BY <2>1, <2>2
<1>12. PICK A \in Nat, U \in Nat, T \in Nat, S \in Nat :
         /\ A = Allocatable[n][k] /\ U = TotalRequests(C, k) /\ T = TotalRequests(B, k)
         /\ S = TotalRequests(C \cup B, k)
  <2>1. Allocatable[n][k] \in Nat
    BY <1>1, GraphAssumption DEF Amounts
  <2>2. C \cup B \in SUBSET Pods /\ C \in SUBSET (C \cup B) /\ B \in SUBSET (C \cup B)
    BY <1>2
  <2>3. TotalRequests(C, k) \in Nat /\ TotalRequests(B, k) \in Nat /\ TotalRequests(C \cup B, k) \in Nat
    BY <2>2, TotalTypes
  <2> QED BY <2>1, <2>3
<1>13. U + P <= A + 0 + 0 /\ T <= P /\ S <= U + T
  BY <1>3, <1>4, <1>7, <1>9, <1>10, <1>11, <1>12
<1>14. S <= A
  BY <1>13
<1> QED BY <1>5, <1>12, <1>14

(* A pod that a live job sends to a node fits there, when the pods of a     *)
(* group request the same, the pods on the node are known to the sidecar,   *)
(* and their requests are among those the code passes on: at PreFilter the  *)
(* node of the list is not a node where the pod must wait in vain.  The     *)
(* first condition is the code's own: AskFlux sends one pod of the group.   *)
THEOREM GangsAreSentWhereTheyFit == LikeGangs => (Spec => []SentWhereItFits)
<1> SUFFICES ASSUME LikeGangs PROVE Spec => []SentWhereItFits
  OBVIOUS
<1> DEFINE Inv == Books /\ TasksMatchSlots /\ Gangs
<1>1. Init => Inv
  <2> SUFFICES ASSUME Init PROVE Inv
    OBVIOUS
  <2>1. TasksMatchSlots /\ Gangs
    BY DEF Init, TasksMatchSlots, Gangs
  <2> QED BY <2>1, BooksInit
<1>2. Inv /\ [Next]_vars => Inv'
  BY BooksNext, ListsNext, GangsNext
<1>3. Inv => SentWhereItFits
  BY SentFits
<1> QED BY <1>1, <1>2, <1>3, PTL DEF Spec
=============================================================================
