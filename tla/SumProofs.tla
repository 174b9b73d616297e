----------------------------- MODULE SumProofs -----------------------------
(***************************************************************************)
(* What a sum over a finite set is, whatever order the fold takes: typed,   *)
(* one element at a time, monotone, additive.  The induction over finite    *)
(* sets is by a minimal counterexample, so that every lemma is first-order. *)
(***************************************************************************)
EXTENDS Sums, FiniteSetTheorems, TLAPS

(* A set of subsets that contains a subset when it contains all its proper  *)
(* subsets contains them all.                                               *)
LEMMA SubsetInduction ==
    ASSUME NEW S, IsFiniteSet(S), NEW Good,
           \A T \in SUBSET S : (\A U \in SUBSET T : U # T => U \in Good) => T \in Good
    PROVE  \A T \in SUBSET S : T \in Good
<1> DEFINE R == StrictSubsetOrdering(S)
           Bad == {T \in SUBSET S : T \notin Good}
<1> SUFFICES ASSUME Bad # {} PROVE FALSE
  OBVIOUS
<1>1. IsWellFoundedOn(R, SUBSET S)
  <2>1. IsWellFoundedOn(StrictSubsetOrdering(S), FiniteSubsetsOf(S))
    BY FS_StrictSubsetOrderingWellFounded
  <2>2. FiniteSubsetsOf(S) = SUBSET S
    BY FS_FiniteSubsetsOfFinite
  <2> QED BY <2>1, <2>2
<1>2. Bad \subseteq SUBSET S
  OBVIOUS
<1> HIDE DEF R, Bad
<1>3. PICK T \in Bad : \A U \in Bad : ~(<<U, T>> \in R)
  <2> DEFINE P == SUBSET S
  <2>1. IsWellFoundedOn(R, P) /\ Bad \subseteq P /\ Bad # {}
    BY <1>1, <1>2
  <2> HIDE DEF P
  <2> QED BY <2>1, WFMin
<1>4. \A U \in SUBSET T : U # T => U \in Good
  <2> SUFFICES ASSUME NEW U \in SUBSET T, U # T, U \notin Good PROVE FALSE
    OBVIOUS
  <2>1. U \in Bad
    BY <1>2 DEF Bad
  <2>2. <<U, T>> \in R
    BY <1>2, <1>3, <2>1 DEF R, StrictSubsetOrdering
  <2> QED BY <1>3, <2>1, <2>2
<1> QED BY <1>2, <1>3, <1>4 DEF Bad

-----------------------------------------------------------------------------
(* The function behind the fold.                                            *)

First(S) == CHOOSE x \in S : TRUE

SumFun(S, f, it) ==
    it = [T \in SUBSET S |-> IF T = {} THEN 0 ELSE f[First(T)] + it[T \ {First(T)}]]

LEMMA SumIsFun ==
    ASSUME NEW S, NEW f PROVE SumOver(S, f) = (CHOOSE it : SumFun(S, f, it))[S]
BY DEF SumOver, FoldFunctionOnSet, MapThenFoldSet, SumFun, First

LEMMA FirstIn == ASSUME NEW S, S # {} PROVE First(S) \in S
BY DEF First

LEMMA SumFunAt ==
    ASSUME NEW S, NEW f, NEW it, SumFun(S, f, it), NEW T \in SUBSET S
    PROVE  it[T] = IF T = {} THEN 0 ELSE f[First(T)] + it[T \ {First(T)}]
<1> DEFINE body == [U \in SUBSET S |-> IF U = {} THEN 0 ELSE f[First(U)] + it[U \ {First(U)}]]
<1>1. it = body
  BY DEF SumFun
<1>2. body[T] = IF T = {} THEN 0 ELSE f[First(T)] + it[T \ {First(T)}]
  OBVIOUS
<1> HIDE DEF body
<1> QED BY <1>1, <1>2

LEMMA SumFunUnique ==
    ASSUME NEW S, IsFiniteSet(S), NEW f, NEW a, NEW b, SumFun(S, f, a), SumFun(S, f, b)
    PROVE  \A T \in SUBSET S : a[T] = b[T]
<1> DEFINE Good == {T \in SUBSET S : a[T] = b[T]}
<1>1. ASSUME NEW T \in SUBSET S, \A U \in SUBSET T : U # T => U \in Good PROVE T \in Good
  <2>1. CASE T = {}
    BY <2>1, SumFunAt
  <2>2. CASE T # {}
    <3> DEFINE U == T \ {First(T)}
    <3>1. U \in SUBSET T /\ U # T
      BY <2>2, FirstIn
    <3>2. a[U] = b[U]
      BY <1>1, <3>1
    <3> QED BY <2>2, <3>2, SumFunAt
  <2> QED BY <2>1, <2>2
<1> HIDE DEF Good
<1>2. \A T \in SUBSET S : T \in Good
  BY <1>1, SubsetInduction
<1> QED BY <1>2 DEF Good

(* The sum of no elements, and of some. *)
LEMMA SumUnfold ==
    ASSUME NEW S, IsFiniteSet(S), NEW f
    PROVE  SumOver(S, f) = IF S = {} THEN 0 ELSE f[First(S)] + SumOver(S \ {First(S)}, f)
<1> DEFINE Step(T) == IF T = {} THEN 0 ELSE f[First(T)] + SumOver(T \ {First(T)}, f)
           Good == {T \in SUBSET S : SumOver(T, f) = Step(T)}
<1>1. ASSUME NEW T \in SUBSET S, \A U \in SUBSET T : U # T => U \in Good PROVE T \in Good
  <2> DEFINE w == [U \in SUBSET T |-> Step(U)]
             it == CHOOSE i : SumFun(T, f, i)
  <2>1. ASSUME NEW U \in SUBSET T
        PROVE  w[U] = IF U = {} THEN 0 ELSE f[First(U)] + w[U \ {First(U)}]
    <3>1. CASE U = {}
      BY <3>1
    <3>2. CASE U # {}
      <4> DEFINE V == U \ {First(U)}
      <4>1. V \in SUBSET T /\ V # T
        BY <3>2, FirstIn
      <4>2. SumOver(V, f) = Step(V)
        BY <1>1, <4>1
      <4>3. w[V] = Step(V) /\ w[U] = Step(U)
        BY <4>1
      <4>4. Step(U) = f[First(U)] + SumOver(V, f)
        BY <3>2
      <4> HIDE DEF w, Step
      <4> QED BY <3>2, <4>2, <4>3, <4>4
    <3> QED BY <3>1, <3>2
  <2>2. SumFun(T, f, w)
    <3> DEFINE body == [U \in SUBSET T |-> IF U = {} THEN 0 ELSE f[First(U)] + w[U \ {First(U)}]]
    <3>1. \A U \in SUBSET T : body[U] = w[U]
      BY <2>1
    <3>2. DOMAIN w = SUBSET T /\ w = [U \in DOMAIN w |-> w[U]]
      OBVIOUS
    <3> HIDE DEF w
    <3>3. w = body
      BY <3>1, <3>2
    <3> QED BY <3>3 DEF SumFun
  <2> HIDE DEF w
  <2>3. SumFun(T, f, it)
    BY <2>2
  <2>4. IsFiniteSet(T)
    BY FS_Subset
  <2>5. SumOver(T, f) = it[T]
    BY SumIsFun
  <2> HIDE DEF it
  <2>6. it[T] = w[T]
    BY <2>2, <2>3, <2>4, SumFunUnique
  <2>7. w[T] = Step(T)
    BY DEF w
  <2> QED BY <2>5, <2>6, <2>7
<1> HIDE DEF Good
<1>2. \A T \in SUBSET S : T \in Good
  BY <1>1, SubsetInduction
<1>3. S \in Good
  BY <1>2
<1> QED BY <1>3 DEF Good

LEMMA RestOf ==
    ASSUME NEW S, IsFiniteSet(S), S # {}
    PROVE  /\ First(S) \in S /\ S \ {First(S)} \in SUBSET S /\ S \ {First(S)} # S
           /\ IsFiniteSet(S \ {First(S)})
BY FirstIn, FS_RemoveElement

LEMMA SumEmpty == ASSUME NEW f PROVE SumOver({}, f) = 0
BY SumUnfold, FS_EmptySet

-----------------------------------------------------------------------------
(* Sums of integers.                                                        *)

LEMMA SumInt ==
    ASSUME NEW S, IsFiniteSet(S), NEW f, \A x \in S : f[x] \in Int
    PROVE  SumOver(S, f) \in Int
<1> DEFINE Good == {T \in SUBSET S : SumOver(T, f) \in Int}
<1>1. ASSUME NEW T \in SUBSET S, \A U \in SUBSET T : U # T => U \in Good PROVE T \in Good
  <2>1. IsFiniteSet(T)
    BY FS_Subset
  <2>2. CASE T = {}
    BY <2>2, SumEmpty
  <2>3. CASE T # {}
    <3>1. /\ f[First(T)] \in Int /\ SumOver(T \ {First(T)}, f) \in Int
      BY <1>1, <2>1, <2>3, RestOf
    <3>2. SumOver(T, f) = f[First(T)] + SumOver(T \ {First(T)}, f)
      BY <2>1, <2>3, SumUnfold
    <3> QED BY <3>1, <3>2
  <2> QED BY <2>2, <2>3
<1> HIDE DEF Good
<1>2. \A T \in SUBSET S : T \in Good
  BY <1>1, SubsetInduction
<1> QED BY <1>2 DEF Good

(* The sum does not depend on the order: any element may be the first. *)
LEMMA SumRemove ==
    ASSUME NEW S, IsFiniteSet(S), NEW f, \A x \in S : f[x] \in Int, NEW a \in S
    PROVE  SumOver(S, f) = f[a] + SumOver(S \ {a}, f)
<1> DEFINE Good == {T \in SUBSET S : \A x \in T : SumOver(T, f) = f[x] + SumOver(T \ {x}, f)}
<1>1. ASSUME NEW T \in SUBSET S, \A U \in SUBSET T : U # T => U \in Good PROVE T \in Good
  <2> SUFFICES ASSUME NEW x \in T PROVE SumOver(T, f) = f[x] + SumOver(T \ {x}, f)
    OBVIOUS
  <2> DEFINE y == First(T)
             Tx == T \ {x}
             Ty == T \ {y}
             Txy == (T \ {x}) \ {y}
  <2>1. IsFiniteSet(T) /\ IsFiniteSet(Tx) /\ IsFiniteSet(Ty) /\ IsFiniteSet(Txy)
    BY FS_Subset
  <2>2. y \in T
    BY FirstIn
  <2> HIDE DEF y
  <2>3. SumOver(T, f) = f[y] + SumOver(Ty, f)
    BY <2>1, SumUnfold DEF y
  <2>4. CASE x = y
    BY <2>3, <2>4
  <2>5. CASE x # y
    <3>1. Ty \in Good /\ Tx \in Good /\ x \in Ty /\ y \in Tx /\ Ty \ {x} = Txy
      BY <1>1, <2>2, <2>5
    <3>2. SumOver(Ty, f) = f[x] + SumOver(Txy, f) /\ SumOver(Tx, f) = f[y] + SumOver(Txy, f)
      BY <3>1
    <3>3. f[x] \in Int /\ f[y] \in Int /\ SumOver(Txy, f) \in Int
      BY <2>1, <2>2, SumInt
    <3> HIDE DEF Good, Tx, Ty, Txy
    <3> QED BY <2>3, <3>2, <3>3 DEF Tx
  <2> QED BY <2>4, <2>5
<1> HIDE DEF Good
<1>2. \A T \in SUBSET S : T \in Good
  BY <1>1, SubsetInduction
<1> QED BY <1>2 DEF Good

LEMMA SumAdd ==
    ASSUME NEW S, IsFiniteSet(S), NEW a, a \notin S, NEW f, \A x \in S \cup {a} : f[x] \in Int
    PROVE  SumOver(S \cup {a}, f) = f[a] + SumOver(S, f)
<1>1. IsFiniteSet(S \cup {a}) /\ (S \cup {a}) \ {a} = S
  BY FS_AddElement
<1> QED BY <1>1, SumRemove

(* A sum of sums, and of multiples; a sum of larger numbers is larger. *)
LEMMA SumPlus ==
    ASSUME NEW S, IsFiniteSet(S), NEW f, NEW g, NEW h,
           \A x \in S : f[x] \in Int /\ g[x] \in Int /\ h[x] = f[x] + g[x]
    PROVE  SumOver(S, h) = SumOver(S, f) + SumOver(S, g)
<1> DEFINE Good == {T \in SUBSET S : SumOver(T, h) = SumOver(T, f) + SumOver(T, g)}
<1>1. ASSUME NEW T \in SUBSET S, \A U \in SUBSET T : U # T => U \in Good PROVE T \in Good
  <2>1. IsFiniteSet(T)
    BY FS_Subset
  <2>2. CASE T = {}
    BY <2>2, SumEmpty
  <2>3. CASE T # {}
    <3> DEFINE y == First(T)
               U == T \ {y}
    <3>1. y \in T /\ U \in SUBSET T /\ U # T /\ IsFiniteSet(U)
      BY <2>1, <2>3, RestOf
    <3>2. /\ SumOver(T, f) = f[y] + SumOver(U, f) /\ SumOver(T, g) = g[y] + SumOver(U, g)
          /\ SumOver(T, h) = h[y] + SumOver(U, h)
      BY <2>1, <2>3, SumUnfold
    <3> HIDE DEF y, U
    <3>3. /\ f[y] \in Int /\ g[y] \in Int /\ h[y] = f[y] + g[y]
          /\ SumOver(U, f) \in Int /\ SumOver(U, g) \in Int
      BY <3>1, SumInt
    <3>4. SumOver(U, h) = SumOver(U, f) + SumOver(U, g)
      BY <1>1, <3>1
    <3>5. SumOver(T, h) = SumOver(T, f) + SumOver(T, g)
      BY <3>2, <3>3, <3>4
    <3> QED BY <3>5
  <2> QED BY <2>2, <2>3
<1> HIDE DEF Good
<1>2. \A T \in SUBSET S : T \in Good
  BY <1>1, SubsetInduction
<1> QED BY <1>2 DEF Good

LEMMA SumScale ==
    ASSUME NEW S, IsFiniteSet(S), NEW f, NEW h, NEW c \in Int,
           \A x \in S : f[x] \in Int /\ h[x] = c * f[x]
    PROVE  SumOver(S, h) = c * SumOver(S, f)
<1> DEFINE Good == {T \in SUBSET S : SumOver(T, h) = c * SumOver(T, f)}
<1>0. \A m, n \in Int : c * (m + n) = c * m + c * n
  OBVIOUS
<1>1. ASSUME NEW T \in SUBSET S, \A U \in SUBSET T : U # T => U \in Good PROVE T \in Good
  <2>1. IsFiniteSet(T)
    BY FS_Subset
  <2>2. CASE T = {}
    BY <2>2, SumEmpty
  <2>3. CASE T # {}
    <3> DEFINE y == First(T)
               U == T \ {y}
    <3>1. y \in T /\ U \in SUBSET T /\ U # T /\ IsFiniteSet(U)
      BY <2>1, <2>3, RestOf
    <3>2. SumOver(T, f) = f[y] + SumOver(U, f) /\ SumOver(T, h) = h[y] + SumOver(U, h)
      BY <2>1, <2>3, SumUnfold
    <3> HIDE DEF y, U
    <3>3. f[y] \in Int /\ h[y] = c * f[y] /\ SumOver(U, f) \in Int
      BY <3>1, SumInt
    <3>4. SumOver(U, h) = c * SumOver(U, f)
      BY <1>1, <3>1
    <3>5. SumOver(T, h) = c * SumOver(T, f)
      BY <1>0, <3>2, <3>3, <3>4
    <3> QED BY <3>5
  <2> QED BY <2>2, <2>3
<1> HIDE DEF Good
<1>2. \A T \in SUBSET S : T \in Good
  BY <1>1, SubsetInduction
<1> QED BY <1>2 DEF Good

LEMMA SumMonotone ==
    ASSUME NEW S, IsFiniteSet(S), NEW f, NEW g,
           \A x \in S : f[x] \in Int /\ g[x] \in Int /\ f[x] <= g[x]
    PROVE  SumOver(S, f) <= SumOver(S, g)
<1> DEFINE Good == {T \in SUBSET S : SumOver(T, f) <= SumOver(T, g)}
<1>1. ASSUME NEW T \in SUBSET S, \A U \in SUBSET T : U # T => U \in Good PROVE T \in Good
  <2>1. IsFiniteSet(T)
    BY FS_Subset
  <2>2. CASE T = {}
    BY <2>2, SumEmpty
  <2>3. CASE T # {}
    <3> DEFINE y == First(T)
               U == T \ {y}
    <3>1. y \in T /\ U \in SUBSET T /\ U # T /\ IsFiniteSet(U)
      BY <2>1, <2>3, RestOf
    <3>2. SumOver(T, f) = f[y] + SumOver(U, f) /\ SumOver(T, g) = g[y] + SumOver(U, g)
      BY <2>1, <2>3, SumUnfold
    <3> HIDE DEF y, U
    <3>3. /\ f[y] \in Int /\ g[y] \in Int /\ f[y] <= g[y]
          /\ SumOver(U, f) \in Int /\ SumOver(U, g) \in Int
      BY <3>1, SumInt
    <3>4. SumOver(U, f) <= SumOver(U, g)
      BY <1>1, <3>1
    <3>5. SumOver(T, f) <= SumOver(T, g)
      BY <3>2, <3>3, <3>4
    <3> QED BY <3>5
  <2> QED BY <2>2, <2>3
<1> HIDE DEF Good
<1>2. \A T \in SUBSET S : T \in Good
  BY <1>1, SubsetInduction
<1> QED BY <1>2 DEF Good

(* Equal elements have equal sums. *)
LEMMA SumSame ==
    ASSUME NEW S, IsFiniteSet(S), NEW f, NEW g, \A x \in S : f[x] \in Int /\ g[x] = f[x]
    PROVE  SumOver(S, g) = SumOver(S, f)
<1>1. SumOver(S, f) <= SumOver(S, g) /\ SumOver(S, g) <= SumOver(S, f)
  BY SumMonotone
<1>2. SumOver(S, f) \in Int /\ SumOver(S, g) \in Int
  BY SumInt
<1> QED BY <1>1, <1>2

LEMMA SumNat ==
    ASSUME NEW S, IsFiniteSet(S), NEW f, \A x \in S : f[x] \in Nat
    PROVE  SumOver(S, f) \in Nat
<1> DEFINE Good == {T \in SUBSET S : SumOver(T, f) \in Nat}
<1>1. ASSUME NEW T \in SUBSET S, \A U \in SUBSET T : U # T => U \in Good PROVE T \in Good
  <2>1. IsFiniteSet(T)
    BY FS_Subset
  <2>2. CASE T = {}
    BY <2>2, SumEmpty
  <2>3. CASE T # {}
    <3>1. f[First(T)] \in Nat /\ SumOver(T \ {First(T)}, f) \in Nat
      BY <1>1, <2>1, <2>3, RestOf
    <3>2. SumOver(T, f) = f[First(T)] + SumOver(T \ {First(T)}, f)
      BY <2>1, <2>3, SumUnfold
    <3> QED BY <3>1, <3>2
  <2> QED BY <2>2, <2>3
<1> HIDE DEF Good
<1>2. \A T \in SUBSET S : T \in Good
  BY <1>1, SubsetInduction
<1> QED BY <1>2 DEF Good

(* Fewer natural numbers have a smaller sum. *)
LEMMA SumSubset ==
    ASSUME NEW S, IsFiniteSet(S), NEW f, \A x \in S : f[x] \in Nat, NEW T \in SUBSET S
    PROVE  SumOver(T, f) <= SumOver(S, f)
<1> DEFINE Good == {V \in SUBSET S : \A U \in SUBSET V : SumOver(U, f) <= SumOver(V, f)}
<1>1. ASSUME NEW V \in SUBSET S, \A U \in SUBSET V : U # V => U \in Good PROVE V \in Good
  <2> SUFFICES ASSUME NEW U \in SUBSET V PROVE SumOver(U, f) <= SumOver(V, f)
    OBVIOUS
  <2>1. IsFiniteSet(V) /\ IsFiniteSet(U) /\ SumOver(U, f) \in Nat
    BY FS_Subset, SumNat
  <2>2. CASE U = V
    BY <2>1, <2>2
  <2>3. CASE U # V
    <3>1. PICK a \in V : a \notin U
      BY <2>3
    <3> DEFINE W == V \ {a}
    <3>2. W \in SUBSET V /\ W # V /\ U \in SUBSET W /\ IsFiniteSet(W)
      BY <2>1, <3>1, FS_Subset
    <3>3. SumOver(V, f) = f[a] + SumOver(W, f)
      BY <2>1, SumRemove
    <3> HIDE DEF W
    <3>4. SumOver(U, f) <= SumOver(W, f)
      BY <1>1, <3>2
    <3>5. f[a] \in Nat /\ SumOver(W, f) \in Nat
      BY <3>2, SumNat
    <3> QED BY <2>1, <3>3, <3>4, <3>5
  <2> QED BY <2>2, <2>3
<1> HIDE DEF Good
<1>2. \A V \in SUBSET S : V \in Good
  BY <1>1, SubsetInduction
<1> QED BY <1>2 DEF Good

LEMMA SumUnion ==
    ASSUME NEW S, IsFiniteSet(S), NEW T, IsFiniteSet(T), NEW f, \A x \in S \cup T : f[x] \in Nat
    PROVE  SumOver(S \cup T, f) <= SumOver(S, f) + SumOver(T, f)
<1> DEFINE Good == {U \in SUBSET T : SumOver(S \cup U, f) <= SumOver(S, f) + SumOver(U, f)}
<1>1. SumOver(S, f) \in Nat
  BY SumNat
<1>2. ASSUME NEW U \in SUBSET T, \A V \in SUBSET U : V # U => V \in Good PROVE U \in Good
  <2>1. IsFiniteSet(U)
    BY FS_Subset
  <2>2. CASE U = {}
    <3>1. S \cup U = S /\ SumOver(U, f) = 0
      BY <2>2, SumEmpty
    <3> QED BY <1>1, <3>1
  <2>3. CASE U # {}
    <3>1. PICK a : a \in U
      BY <2>3
    <3> DEFINE V == U \ {a}
               W == S \cup V
    <3>2. V \in SUBSET U /\ V # U /\ IsFiniteSet(V) /\ W \cup {a} = S \cup U
      BY <2>1, <3>1, FS_Subset
    <3>3. IsFiniteSet(W)
      BY <3>2, FS_Union
    <3>4. SumOver(U, f) = f[a] + SumOver(V, f)
      <4>1. \A x \in U : f[x] \in Int
        OBVIOUS
      <4> QED BY <2>1, <3>1, <4>1, SumRemove
    <3>5. SumOver(W, f) <= SumOver(S, f) + SumOver(V, f)
      BY <1>2, <3>2
    <3>6. f[a] \in Nat /\ \A x \in W \cup {a} : f[x] \in Nat
      BY <3>1
    <3> HIDE DEF V, W
    <3>7. SumOver(V, f) \in Nat /\ SumOver(W, f) \in Nat
      <4>1. \A x \in V : f[x] \in Nat
        BY <3>2
      <4> QED BY <3>2, <3>3, <3>6, <4>1, SumNat
    <3>8. SumOver(W \cup {a}, f) <= f[a] + SumOver(W, f)
      <4>1. CASE a \in W
        <5>1. W \cup {a} = W
          BY <4>1
        <5>2. SumOver(W \cup {a}, f) = SumOver(W, f)
          BY <5>1
        <5> QED BY <3>6, <3>7, <5>2
      <4>2. CASE a \notin W
        <5>1. \A x \in W \cup {a} : f[x] \in Int
          BY <3>6
        <5>2. SumOver(W \cup {a}, f) = f[a] + SumOver(W, f)
          BY <3>3, <4>2, <5>1, SumAdd
        <5> QED BY <3>6, <3>7, <5>2
      <4> QED BY <4>1, <4>2
    <3>9. SumOver(W \cup {a}, f) \in Nat
      <4>1. IsFiniteSet(W \cup {a})
        BY <3>3, FS_AddElement
      <4> QED BY <3>6, <4>1, SumNat
    <3>10. SumOver(S \cup U, f) <= SumOver(S, f) + SumOver(U, f)
      <4>1. SumOver(W \cup {a}, f) = SumOver(S \cup U, f)
        BY <3>2
      <4> QED BY <1>1, <3>4, <3>5, <3>6, <3>7, <3>8, <3>9, <4>1
    <3> QED BY <3>10
  <2> QED BY <2>2, <2>3
<1> HIDE DEF Good
<1>3. T \in Good
  BY <1>2, SubsetInduction
<1> QED BY <1>3 DEF Good

(* Different elements with different, larger ones to stand for them. *)
LEMMA SumInject ==
    ASSUME NEW S, IsFiniteSet(S), NEW J, IsFiniteSet(J), NEW m, NEW f, NEW g,
           \A x \in S : m[x] \in J /\ f[x] \in Nat /\ f[x] <= g[m[x]],
           \A x, y \in S : m[x] = m[y] => x = y,
           \A j \in J : g[j] \in Nat
    PROVE  SumOver(S, f) <= SumOver(J, g)
<1> DEFINE Good == {T \in SUBSET S : \A K \in SUBSET J :
                      (\A x \in T : m[x] \in K) => SumOver(T, f) <= SumOver(K, g)}
<1>1. ASSUME NEW T \in SUBSET S, \A U \in SUBSET T : U # T => U \in Good PROVE T \in Good
  <2> SUFFICES ASSUME NEW K \in SUBSET J, \A x \in T : m[x] \in K
               PROVE  SumOver(T, f) <= SumOver(K, g)
    OBVIOUS
  <2>1. IsFiniteSet(T) /\ IsFiniteSet(K)
    BY FS_Subset
  <2>2. SumOver(K, g) \in Nat
    BY <2>1, SumNat
  <2>3. CASE T = {}
    BY <2>2, <2>3, SumEmpty
  <2>4. CASE T # {}
    <3>1. PICK a : a \in T
      BY <2>4
    <3> DEFINE U == T \ {a}
               L == K \ {m[a]}
    <3>2. /\ U \in SUBSET T /\ U # T /\ IsFiniteSet(U) /\ L \in SUBSET J /\ IsFiniteSet(L)
          /\ L \in SUBSET K
      BY <2>1, <3>1, FS_Subset
    <3>3. \A x \in U : m[x] \in L
      BY <3>1
    <3>4. SumOver(U, f) <= SumOver(L, g)
      BY <1>1, <3>2, <3>3
    <3>5. SumOver(T, f) = f[a] + SumOver(U, f)
      <4>1. \A x \in T : f[x] \in Int
        OBVIOUS
      <4> QED BY <2>1, <3>1, <4>1, SumRemove
    <3>6. SumOver(K, g) = g[m[a]] + SumOver(L, g)
      <4>1. m[a] \in K /\ \A j \in K : g[j] \in Int
        BY <3>1
      <4> QED BY <2>1, <4>1, SumRemove
    <3> HIDE DEF U, L
    <3>7. SumOver(U, f) \in Nat /\ SumOver(L, g) \in Nat
      <4>1. (\A x \in U : f[x] \in Nat) /\ (\A j \in L : g[j] \in Nat)
        BY <3>2
      <4> QED BY <3>2, <4>1, SumNat
    <3>8. f[a] \in Nat /\ g[m[a]] \in Nat /\ f[a] <= g[m[a]]
      BY <3>1
    <3> QED BY <3>4, <3>5, <3>6, <3>7, <3>8
  <2> QED BY <2>3, <2>4
<1> HIDE DEF Good
<1>2. S \in Good
  BY <1>1, SubsetInduction
<1> QED BY <1>2 DEF Good
=============================================================================
