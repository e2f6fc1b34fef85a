-------------------------------- MODULE Sums --------------------------------
(***************************************************************************)
(* Facts about SumFunctionOnSet of the community modules, the sum of a     *)
(* function over a finite set, which the conservation theorems rest on.    *)
(* The operator folds a recursively defined function over the subsets of   *)
(* the set.  Each induction on a finite set is replaced by the choice of a *)
(* minimal counterexample: a set of finite sets that is not empty has a    *)
(* member none of whose proper subsets is in it (MinimalSubset).           *)
(***************************************************************************)
EXTENDS Integers, FiniteSets, Functions, FiniteSetTheorems, WellFoundedInduction, TLAPS

\* The element of T that the fold takes out first.
LOCAL Pick(T) == CHOOSE x \in T : TRUE
\* g maps every subset of S to the sum of f over it.
LOCAL IsSum(g, f, S) ==
  g = [T \in SUBSET S |-> IF T = {} THEN 0 ELSE f[Pick(T)] + g[T \ {Pick(T)}]]

\* A collection of finite subsets that is not empty has a minimal member.
LEMMA MinimalSubset ==
  ASSUME NEW S, NEW B, B \subseteq FiniteSubsetsOf(S), B # {}
  PROVE  \E T \in B : \A U \in B : U \subseteq T => U = T
<1>1. IsWellFoundedOn(StrictSubsetOrdering(S), FiniteSubsetsOf(S))
  BY FS_StrictSubsetOrderingWellFounded
<1>2. \E x \in B : \A y \in B : ~(<<y, x>> \in StrictSubsetOrdering(S))
  BY <1>1, WFMin
<1> QED  BY <1>2 DEF StrictSubsetOrdering, FiniteSubsetsOf

\* The element taken out of a set that is not empty is one of its own.
LEMMA PickIn == ASSUME NEW T, T # {} PROVE Pick(T) \in T
BY DEF Pick

\* Two functions that satisfy the recursion of the sum agree, whatever
\* the sets they were defined on.
LEMMA SumUnique ==
  ASSUME NEW f, NEW S, IsFiniteSet(S), NEW R \in SUBSET S, NEW g, NEW h,
         IsSum(g, f, S), IsSum(h, f, R)
  PROVE  g[R] = h[R]
<1> DEFINE B == {T \in FiniteSubsetsOf(R) : g[T] # h[T]}
<1>1. SUFFICES ASSUME B # {} PROVE FALSE
  <2>1. IsFiniteSet(R)  BY FS_Subset
  <2> QED  BY <1>1, <2>1 DEF FiniteSubsetsOf
<1>2. PICK T \in B : \A U \in B : U \subseteq T => U = T
  <2> B \subseteq FiniteSubsetsOf(R)  OBVIOUS
  <2> HIDE DEF B
  <2> QED  BY <1>1, MinimalSubset
<1>3. T \in SUBSET R /\ T \in SUBSET S /\ IsFiniteSet(T) BY DEF FiniteSubsetsOf
<1>4. T # {} BY <1>3 DEF IsSum
<1>5. Pick(T) \in T  BY <1>4, PickIn
<1> DEFINE W == T \ {Pick(T)}
<1>6. W \in FiniteSubsetsOf(R) /\ W # T /\ W \subseteq T
  BY <1>3, <1>5, FS_RemoveElement DEF FiniteSubsetsOf
<1>7. g[W] = h[W]  BY <1>2, <1>6
<1>8. g[T] = f[Pick(T)] + g[W]  BY <1>3, <1>4 DEF IsSum
<1>9. h[T] = f[Pick(T)] + h[W]  BY <1>3, <1>4 DEF IsSum
<1> QED  BY <1>7, <1>8, <1>9

\* On a finite set some function satisfies the recursion of the sum.
LEMMA SumExists ==
  ASSUME NEW f, NEW S, IsFiniteSet(S)
  PROVE  \E g : IsSum(g, f, S)
<1> DEFINE B == {T \in FiniteSubsetsOf(S) : ~ \E g : IsSum(g, f, T)}
<1>1. SUFFICES ASSUME B # {} PROVE FALSE
  BY <1>1 DEF FiniteSubsetsOf
<1>2. PICK T \in B : \A U \in B : U \subseteq T => U = T
  <2> B \subseteq FiniteSubsetsOf(S)  OBVIOUS
  <2> HIDE DEF B
  <2> QED  BY <1>1, MinimalSubset
<1>3. T \in SUBSET S /\ IsFiniteSet(T) BY DEF FiniteSubsetsOf
<1>4. \A U \in SUBSET T : U # T => \E g : IsSum(g, f, U)
  <2> TAKE U \in SUBSET T
  <2> HAVE U # T
  <2>1. U \in FiniteSubsetsOf(S) BY <1>3, FS_Subset DEF FiniteSubsetsOf
  <2> QED  BY <1>2, <2>1
<1> DEFINE G(U) == CHOOSE g : IsSum(g, f, U)
           v(U) == IF U = {} THEN 0 ELSE f[Pick(U)] + G(U \ {Pick(U)})[U \ {Pick(U)}]
           h == [U \in SUBSET T |-> v(U)]
<1>5. \A U \in SUBSET T : U # T => IsSum(G(U), f, U)  BY <1>4
<1>6. \A U \in SUBSET T : U # T => h[U] = G(U)[U]
  <2> TAKE U \in SUBSET T
  <2> HAVE U # T
  <2>1. IsSum(G(U), f, U)  BY <1>5
  <2> HIDE DEF G
  <2>2. CASE U = {}  BY <2>1, <2>2 DEF IsSum
  <2>3. CASE U # {}
    <3> DEFINE W == U \ {Pick(U)}
    <3>1. G(U)[U] = f[Pick(U)] + G(U)[W]  BY <2>1, <2>3 DEF IsSum
    <3>2. W \in SUBSET U /\ W # U /\ W \in SUBSET T /\ W # T BY <2>3, PickIn
    <3>3. IsSum(G(W), f, W)  BY <3>2, <1>5
    <3>4. IsFiniteSet(U)  BY <1>3, FS_Subset
    <3>5. G(U)[W] = G(W)[W]  
      <4> HIDE DEF W
      <4> QED BY <2>1, <3>2, <3>3, <3>4, SumUnique
    <3> QED  BY <3>1, <3>5, <2>3
  <2> QED  BY <2>2, <2>3
<1> HIDE DEF G
<1>7. \A U \in SUBSET T : U # {} => h[U \ {Pick(U)}] = G(U \ {Pick(U)})[U \ {Pick(U)}]
  <2> TAKE U \in SUBSET T
  <2> HAVE U # {}
  <2>1. U \ {Pick(U)} \in SUBSET T /\ U \ {Pick(U)} # T BY PickIn
  <2> QED BY <2>1, <1>6
<1>8. h = [U \in SUBSET T |-> IF U = {} THEN 0 ELSE f[Pick(U)] + h[U \ {Pick(U)}]]
  <2> DEFINE k == [U \in SUBSET T |-> IF U = {} THEN 0 ELSE f[Pick(U)] + h[U \ {Pick(U)}]]
  <2>1. \A U \in SUBSET T : h[U] = k[U] 
    <3> TAKE U \in SUBSET T
    <3>1. CASE U = {} BY <3>1
    <3>2. CASE U # {} 
      <4>1. h[U] = f[Pick(U)] + G(U \ {Pick(U)})[U \ {Pick(U)}] BY <3>2
      <4>2. h[U \ {Pick(U)}] = G(U \ {Pick(U)})[U \ {Pick(U)}] BY <1>7, <3>2
      <4>3. k[U] = f[Pick(U)] + h[U \ {Pick(U)}] BY <3>2
      <4> QED BY <4>1, <4>2, <4>3
    <3> QED BY <3>1, <3>2
  <2>2. h \in [SUBSET T -> {v(U) : U \in SUBSET T}] OBVIOUS
  <2>3. DOMAIN h = SUBSET T /\ DOMAIN k = SUBSET T /\ h = [U \in DOMAIN h |-> h[U]] /\ k = [U \in DOMAIN k |-> k[U]] OBVIOUS
  <2>4. h = k
    <3> HIDE DEF h, k
    <3> QED BY <2>1, <2>3
  <2> HIDE DEF h
  <2> QED BY <2>4
<1>9. IsSum(h, f, T) BY <1>8 DEF IsSum
<1> QED  BY <1>9, <1>2

\* The recursion of SumFunctionOnSet, without the fold.
LEMMA SumStep ==
  ASSUME NEW f, NEW S, IsFiniteSet(S)
  PROVE  /\ S = {} => SumFunctionOnSet(f, S) = 0
         /\ S # {} => SumFunctionOnSet(f, S) = f[Pick(S)] + SumFunctionOnSet(f, S \ {Pick(S)})
<1> DEFINE G(T) == CHOOSE g : IsSum(g, f, T)
<1>1. \A T \in SUBSET S : SumFunctionOnSet(f, T) = G(T)[T]
  BY DEF SumFunctionOnSet, FoldFunctionOnSet, MapThenFoldSet, IsSum, Pick
<1>2. \A T \in SUBSET S : IsFiniteSet(T) /\ IsSum(G(T), f, T) 
  BY SumExists, FS_Subset
<1> HIDE DEF G
<1>3. S = {} => G(S)[S] = 0  BY <1>2 DEF IsSum
<1>4. ASSUME S # {} PROVE G(S)[S] = f[Pick(S)] + G(S \ {Pick(S)})[S \ {Pick(S)}]
  <2> DEFINE W == S \ {Pick(S)}
  <2>1. W \in SUBSET S OBVIOUS
  <2>2. G(S)[S] = f[Pick(S)] + G(S)[W] BY <1>2, <1>4 DEF IsSum
  <2> HIDE DEF W
  <2>3. G(S)[W] = G(W)[W] BY <1>2, <2>1, SumUnique
  <2> QED BY <2>2, <2>3 DEF W
<1> QED BY <1>1, <1>3, <1>4

\* A sum of integers is an integer.
LEMMA SumInt ==
  ASSUME NEW f, NEW S, IsFiniteSet(S), \A x \in S : f[x] \in Int
  PROVE  SumFunctionOnSet(f, S) \in Int
<1> DEFINE B == {T \in FiniteSubsetsOf(S) : SumFunctionOnSet(f, T) \notin Int}
<1>1. SUFFICES ASSUME B # {} PROVE FALSE
  BY <1>1 DEF FiniteSubsetsOf
<1>2. PICK T \in B : \A U \in B : U \subseteq T => U = T
  <2> B \subseteq FiniteSubsetsOf(S)  OBVIOUS
  <2> HIDE DEF B
  <2> QED  BY <1>1, MinimalSubset
<1>3. T \in SUBSET S /\ IsFiniteSet(T) BY DEF FiniteSubsetsOf
<1>4. T # {} BY <1>3, <1>2, SumStep
<1>5. Pick(T) \in T BY <1>4, PickIn
<1>6. T \ {Pick(T)} \in FiniteSubsetsOf(S)  BY <1>3, FS_RemoveElement DEF FiniteSubsetsOf
<1>7. SumFunctionOnSet(f, T \ {Pick(T)}) \in Int  BY <1>2, <1>5, <1>6
<1>8. SumFunctionOnSet(f, T) = f[Pick(T)] + SumFunctionOnSet(f, T \ {Pick(T)})
  BY <1>3, <1>4, SumStep
<1> QED  BY <1>2, <1>3, <1>5, <1>7, <1>8

\* Any element may be taken out of a sum, not only the one the fold takes.
LEMMA SumRemove ==
  ASSUME NEW f, NEW S, IsFiniteSet(S), \A x \in S : f[x] \in Int, NEW a \in S
  PROVE  SumFunctionOnSet(f, S) = f[a] + SumFunctionOnSet(f, S \ {a})
<1> DEFINE Good(T, x) == SumFunctionOnSet(f, T) = f[x] + SumFunctionOnSet(f, T \ {x})
           B == {T \in FiniteSubsetsOf(S) : \E x \in T : ~ Good(T, x)}
<1>1. SUFFICES ASSUME B # {} PROVE FALSE
  BY <1>1 DEF FiniteSubsetsOf
<1>2. PICK T \in B : \A U \in B : U \subseteq T => U = T
  <2> B \subseteq FiniteSubsetsOf(S)  OBVIOUS
  <2> HIDE DEF B
  <2> QED  BY <1>1, MinimalSubset
<1>3. T \in SUBSET S /\ IsFiniteSet(T) BY DEF FiniteSubsetsOf
<1>4. PICK x \in T : ~ Good(T, x)  BY <1>2
<1> DEFINE y == Pick(T)
<1>5. y \in T BY PickIn
<1>6. Good(T, y) BY <1>3, <1>4, SumStep
<1>7. x # y BY <1>4, <1>6
<1> DEFINE V == T \ {y}   W == T \ {x}
<1>8. V \in FiniteSubsetsOf(S) /\ W \in FiniteSubsetsOf(S) /\ V # T /\ W # T /\ IsFiniteSet(V) /\ IsFiniteSet(W)
  BY <1>3, <1>5, FS_RemoveElement DEF FiniteSubsetsOf
<1>9. Good(V, x) /\ Good(W, y)
  <2>1. V \notin B /\ W \notin B BY <1>2, <1>8
  <2> QED BY <2>1, <1>5, <1>7, <1>8
<1>10. V \ {x} = W \ {y} /\ W \ {y} \in SUBSET S /\ IsFiniteSet(W \ {y}) BY <1>3, <1>8, FS_RemoveElement
<1>11. SumFunctionOnSet(f, W \ {y}) \in Int /\ f[x] \in Int /\ f[y] \in Int
  BY <1>3, <1>5, <1>10, SumInt
<1>12. SumFunctionOnSet(f, T) = f[y] + SumFunctionOnSet(f, V) BY <1>6
<1>13. SumFunctionOnSet(f, V) = f[x] + SumFunctionOnSet(f, W \ {y}) BY <1>9, <1>10
<1>14. SumFunctionOnSet(f, W) = f[y] + SumFunctionOnSet(f, W \ {y}) BY <1>9
<1>15. SumFunctionOnSet(f, T) = f[x] + SumFunctionOnSet(f, W) 
  <2> HIDE DEF V, W, y
  <2> QED BY <1>11, <1>12, <1>13, <1>14
<1> QED BY <1>4, <1>15

\* Functions that agree on a set have the same sum over it.
LEMMA SumEqual ==
  ASSUME NEW f, NEW g, NEW S, IsFiniteSet(S), \A x \in S : f[x] = g[x]
  PROVE  SumFunctionOnSet(f, S) = SumFunctionOnSet(g, S)
<1> DEFINE B == {T \in FiniteSubsetsOf(S) : SumFunctionOnSet(f, T) # SumFunctionOnSet(g, T)}
<1>1. SUFFICES ASSUME B # {} PROVE FALSE
  BY <1>1 DEF FiniteSubsetsOf
<1>2. PICK T \in B : \A U \in B : U \subseteq T => U = T
  <2> B \subseteq FiniteSubsetsOf(S)  OBVIOUS
  <2> HIDE DEF B
  <2> QED  BY <1>1, MinimalSubset
<1>3. T \in SUBSET S /\ IsFiniteSet(T) BY DEF FiniteSubsetsOf
<1>4. T # {} BY <1>3, <1>2, SumStep
<1>5. Pick(T) \in T BY <1>4, PickIn
<1>6. T \ {Pick(T)} \in FiniteSubsetsOf(S)  BY <1>3, FS_RemoveElement DEF FiniteSubsetsOf
<1>7. SumFunctionOnSet(f, T \ {Pick(T)}) = SumFunctionOnSet(g, T \ {Pick(T)})  BY <1>2, <1>5, <1>6
<1>8. SumFunctionOnSet(f, T) = f[Pick(T)] + SumFunctionOnSet(f, T \ {Pick(T)})
  BY <1>3, <1>4, SumStep
<1>9. SumFunctionOnSet(g, T) = g[Pick(T)] + SumFunctionOnSet(g, T \ {Pick(T)})
  BY <1>3, <1>4, SumStep
<1> QED  BY <1>2, <1>3, <1>5, <1>7, <1>8, <1>9

\* Changing a function at one point changes its sum by the difference: what
\* an action that writes one row does to the total of a table.
LEMMA SumUpdate ==
  ASSUME NEW f, NEW g, NEW S, IsFiniteSet(S), NEW a \in S,
         \A x \in S : f[x] \in Int /\ g[x] \in Int,
         \A x \in S \ {a} : g[x] = f[x]
  PROVE  SumFunctionOnSet(g, S) = SumFunctionOnSet(f, S) - f[a] + g[a]
<1>1. IsFiniteSet(S \ {a}) BY FS_RemoveElement
<1>2. SumFunctionOnSet(g, S \ {a}) = SumFunctionOnSet(f, S \ {a}) BY <1>1, SumEqual
<1>3. SumFunctionOnSet(f, S \ {a}) \in Int BY <1>1, SumInt
<1>4. SumFunctionOnSet(f, S) = f[a] + SumFunctionOnSet(f, S \ {a}) BY SumRemove
<1>5. SumFunctionOnSet(g, S) = g[a] + SumFunctionOnSet(g, S \ {a}) BY SumRemove
<1> QED BY <1>2, <1>3, <1>4, <1>5

\* A sum of natural numbers is one, and no term exceeds it.
LEMMA SumNat ==
  ASSUME NEW f, NEW S, IsFiniteSet(S), \A x \in S : f[x] \in Nat
  PROVE  /\ SumFunctionOnSet(f, S) \in Nat
         /\ \A a \in S : f[a] <= SumFunctionOnSet(f, S)
<1> DEFINE B == {T \in FiniteSubsetsOf(S) : SumFunctionOnSet(f, T) \notin Nat}
<1>1. SumFunctionOnSet(f, S) \in Nat /\ \A T \in FiniteSubsetsOf(S) : SumFunctionOnSet(f, T) \in Nat
  <2>1. SUFFICES ASSUME B # {} PROVE FALSE
    BY <2>1 DEF FiniteSubsetsOf
  <2>2. PICK T \in B : \A U \in B : U \subseteq T => U = T
    <3> B \subseteq FiniteSubsetsOf(S)  OBVIOUS
    <3> HIDE DEF B
    <3> QED  BY <2>1, MinimalSubset
  <2>3. T \in SUBSET S /\ IsFiniteSet(T) BY DEF FiniteSubsetsOf
  <2>4. SumFunctionOnSet(f, T) \notin Nat BY <2>2
  <2>4a. T # {}
    <3>1. T = {} => SumFunctionOnSet(f, T) = 0 BY <2>3, SumStep
    <3> QED BY <2>4, <3>1
  <2>5. Pick(T) \in T BY <2>4a, PickIn
  <2>6. T \ {Pick(T)} \in FiniteSubsetsOf(S)  BY <2>3, FS_RemoveElement DEF FiniteSubsetsOf
  <2>7. SumFunctionOnSet(f, T \ {Pick(T)}) \in Nat  BY <2>2, <2>5, <2>6
  <2>8. SumFunctionOnSet(f, T) = f[Pick(T)] + SumFunctionOnSet(f, T \ {Pick(T)})
    BY <2>3, <2>4a, SumStep
  <2> QED  BY <2>2, <2>3, <2>5, <2>7, <2>8
<1>2. ASSUME NEW a \in S PROVE f[a] <= SumFunctionOnSet(f, S)
  <2>1. S \ {a} \in FiniteSubsetsOf(S) BY FS_RemoveElement DEF FiniteSubsetsOf
  <2>2. SumFunctionOnSet(f, S) = f[a] + SumFunctionOnSet(f, S \ {a}) BY SumRemove
  <2> QED BY <1>1, <2>1, <2>2
<1> QED BY <1>1, <1>2

\* A sum of zeros is zero.
LEMMA SumZero ==
  ASSUME NEW f, NEW S, IsFiniteSet(S), \A x \in S : f[x] = 0
  PROVE  SumFunctionOnSet(f, S) = 0
<1> DEFINE B == {T \in FiniteSubsetsOf(S) : SumFunctionOnSet(f, T) # 0}
<1>1. SUFFICES ASSUME B # {} PROVE FALSE
  BY <1>1 DEF FiniteSubsetsOf
<1>2. PICK T \in B : \A U \in B : U \subseteq T => U = T
  <2> B \subseteq FiniteSubsetsOf(S)  OBVIOUS
  <2> HIDE DEF B
  <2> QED  BY <1>1, MinimalSubset
<1>3. T \in SUBSET S /\ IsFiniteSet(T) BY DEF FiniteSubsetsOf
<1>4. SumFunctionOnSet(f, T) # 0 /\ T # {} BY <1>2, <1>3, SumStep
<1>5. Pick(T) \in T BY <1>4, PickIn
<1>6. T \ {Pick(T)} \in FiniteSubsetsOf(S)  BY <1>3, FS_RemoveElement DEF FiniteSubsetsOf
<1>7. SumFunctionOnSet(f, T \ {Pick(T)}) = 0  BY <1>2, <1>5, <1>6
<1>8. SumFunctionOnSet(f, T) = f[Pick(T)] + SumFunctionOnSet(f, T \ {Pick(T)})
  BY <1>3, <1>4, SumStep
<1> QED  BY <1>3, <1>4, <1>5, <1>7, <1>8

\* The sum of a pointwise sum of functions: what an action that moves one table
\* into another does to the totals of both.
LEMMA SumPlus ==
  ASSUME NEW f, NEW g, NEW h, NEW S, IsFiniteSet(S),
         \A x \in S : f[x] \in Int /\ g[x] \in Int /\ h[x] = f[x] + g[x]
  PROVE  SumFunctionOnSet(h, S) = SumFunctionOnSet(f, S) + SumFunctionOnSet(g, S)
<1> DEFINE B == {T \in FiniteSubsetsOf(S) :
             SumFunctionOnSet(h, T) # SumFunctionOnSet(f, T) + SumFunctionOnSet(g, T)}
<1>1. SUFFICES ASSUME B # {} PROVE FALSE
  BY <1>1 DEF FiniteSubsetsOf
<1>2. PICK T \in B : \A U \in B : U \subseteq T => U = T
  <2> B \subseteq FiniteSubsetsOf(S)  OBVIOUS
  <2> HIDE DEF B
  <2> QED  BY <1>1, MinimalSubset
<1>3. T \in SUBSET S /\ IsFiniteSet(T) BY DEF FiniteSubsetsOf
<1>4. T # {}
  <2>1. T = {} => /\ SumFunctionOnSet(h, T) = 0 /\ SumFunctionOnSet(f, T) = 0
                  /\ SumFunctionOnSet(g, T) = 0
    BY <1>3, SumStep
  <2> QED BY <1>2, <2>1
<1> DEFINE y == Pick(T)   U == T \ {Pick(T)}
<1>5. y \in T BY <1>4, PickIn
<1>6. U \in FiniteSubsetsOf(S) /\ U \in SUBSET S /\ IsFiniteSet(U)
  BY <1>3, FS_RemoveElement DEF FiniteSubsetsOf
<1>7. SumFunctionOnSet(h, U) = SumFunctionOnSet(f, U) + SumFunctionOnSet(g, U)
  BY <1>2, <1>5, <1>6
<1>8. /\ SumFunctionOnSet(h, T) = h[y] + SumFunctionOnSet(h, U)
      /\ SumFunctionOnSet(f, T) = f[y] + SumFunctionOnSet(f, U)
      /\ SumFunctionOnSet(g, T) = g[y] + SumFunctionOnSet(g, U)
  BY <1>3, <1>4, SumStep
<1>9. SumFunctionOnSet(f, U) \in Int /\ SumFunctionOnSet(g, U) \in Int
  BY <1>6, SumInt
<1>10. f[y] \in Int /\ g[y] \in Int /\ h[y] = f[y] + g[y] BY <1>3, <1>5
<1>11. SumFunctionOnSet(h, T) # SumFunctionOnSet(f, T) + SumFunctionOnSet(g, T) BY <1>2
<1> HIDE DEF y, U, B
<1> QED BY <1>7, <1>8, <1>9, <1>10, <1>11

\* A sum over a part of a set is the sum over the set with zeros elsewhere.
LEMMA SumPart ==
  ASSUME NEW f, NEW g, NEW S, NEW R \in SUBSET S, IsFiniteSet(S),
         \A x \in R : f[x] \in Int /\ g[x] = f[x], \A x \in S \ R : g[x] = 0
  PROVE  SumFunctionOnSet(f, R) = SumFunctionOnSet(g, S)
<1>0. IsFiniteSet(R) /\ IsFiniteSet(S \ R) BY FS_Subset
<1> DEFINE B == {T \in FiniteSubsetsOf(S \ R) :
                   SumFunctionOnSet(g, R \cup T) # SumFunctionOnSet(f, R)}
<1>1. SUFFICES ASSUME B # {} PROVE FALSE
  <2>1. S \ R \in FiniteSubsetsOf(S \ R) /\ R \cup (S \ R) = S BY <1>0 DEF FiniteSubsetsOf
  <2>2. S \ R \notin B => SumFunctionOnSet(g, R \cup (S \ R)) = SumFunctionOnSet(f, R)
    BY <2>1
  <2>3. S \ R \notin B => SumFunctionOnSet(g, S) = SumFunctionOnSet(f, R) BY <2>1, <2>2
  <2> HIDE DEF B
  <2> QED BY <1>1, <2>3
<1>2. PICK T \in B : \A U \in B : U \subseteq T => U = T
  <2> B \subseteq FiniteSubsetsOf(S \ R)  OBVIOUS
  <2> HIDE DEF B
  <2> QED  BY <1>1, MinimalSubset
<1>3. T \in SUBSET (S \ R) /\ IsFiniteSet(T) BY DEF FiniteSubsetsOf
<1>4. SumFunctionOnSet(g, R \cup T) # SumFunctionOnSet(f, R) BY <1>2
<1>5. T # {}
  <2>1. SumFunctionOnSet(g, R) = SumFunctionOnSet(f, R) BY <1>0, SumEqual
  <2>2. R \cup {} = R OBVIOUS
  <2> QED BY <1>4, <2>1, <2>2
<1>6. PICK a \in T : TRUE BY <1>5
<1> DEFINE U == T \ {a}
<1>7. U \in FiniteSubsetsOf(S \ R) /\ U # T /\ U \subseteq T /\ IsFiniteSet(U)
  BY <1>3, <1>6, FS_RemoveElement DEF FiniteSubsetsOf
<1>8. SumFunctionOnSet(g, R \cup U) = SumFunctionOnSet(f, R) BY <1>2, <1>7
<1>9. IsFiniteSet(R \cup T) /\ a \in R \cup T /\ (R \cup T) \ {a} = R \cup U
  BY <1>0, <1>3, <1>6, FS_Union
<1>10. \A x \in R \cup T : g[x] \in Int BY <1>3
<1>11. SumFunctionOnSet(g, R \cup T) = g[a] + SumFunctionOnSet(g, R \cup U)
  <2> HIDE DEF U
  <2> QED BY <1>9, <1>10, SumRemove
<1>12. g[a] = 0 /\ SumFunctionOnSet(f, R) \in Int BY <1>0, <1>3, <1>6, SumInt
<1> QED BY <1>4, <1>8, <1>11, <1>12

\* A sum of values that change by e at some points.
LEMMA SumShift ==
  ASSUME NEW S, NEW T \in SUBSET S, IsFiniteSet(S), NEW a, NEW b, NEW e,
         \A p \in S : a[p] \in Int, \A p \in T : e[p] \in Int /\ b[p] = a[p] + e[p],
         \A p \in S \ T : b[p] = a[p]
  PROVE  /\ SumFunctionOnSet(b, S) = SumFunctionOnSet(a, S) + SumFunctionOnSet(e, T)
         /\ SumFunctionOnSet(e, T) \in Int
<1> DEFINE k == [x \in S |-> IF x \in T THEN e[x] ELSE 0]
<1>1. \A x \in S : a[x] \in Int /\ k[x] \in Int /\ b[x] = a[x] + k[x] OBVIOUS
<1>2. (\A x \in T : e[x] \in Int /\ k[x] = e[x]) /\ \A x \in S \ T : k[x] = 0 OBVIOUS
<1> HIDE DEF k
<1>3. SumFunctionOnSet(b, S) = SumFunctionOnSet(a, S) + SumFunctionOnSet(k, S)
  BY <1>1, SumPlus
<1>4. SumFunctionOnSet(e, T) = SumFunctionOnSet(k, S) BY <1>2, SumPart
<1>5. SumFunctionOnSet(a, S) \in Int BY SumInt
<1>6. IsFiniteSet(T) BY FS_Subset
<1>7. SumFunctionOnSet(e, T) \in Int BY <1>6, SumInt
<1> QED BY <1>3, <1>4, <1>7

\* A factor goes before the sum.
LEMMA SumScaled ==
  ASSUME NEW f, NEW h, NEW S, IsFiniteSet(S), NEW c \in Int,
         \A x \in S : f[x] \in Int /\ h[x] = c * f[x]
  PROVE  SumFunctionOnSet(h, S) = c * SumFunctionOnSet(f, S)
<1> DEFINE B == {T \in FiniteSubsetsOf(S) : SumFunctionOnSet(h, T) # c * SumFunctionOnSet(f, T)}
<1>1. SUFFICES ASSUME B # {} PROVE FALSE
  BY <1>1 DEF FiniteSubsetsOf
<1>2. PICK T \in B : \A U \in B : U \subseteq T => U = T
  <2> B \subseteq FiniteSubsetsOf(S)  OBVIOUS
  <2> HIDE DEF B
  <2> QED  BY <1>1, MinimalSubset
<1>3. T \in SUBSET S /\ IsFiniteSet(T) BY DEF FiniteSubsetsOf
<1>4. T # {}
  <2>1. T = {} => SumFunctionOnSet(h, T) = 0 /\ SumFunctionOnSet(f, T) = 0 BY <1>3, SumStep
  <2>2. c * 0 = 0 OBVIOUS
  <2> QED BY <1>2, <2>1, <2>2
<1> DEFINE y == Pick(T)   U == T \ {Pick(T)}
<1>5. y \in T BY <1>4, PickIn
<1>6. U \in FiniteSubsetsOf(S) /\ U \in SUBSET S /\ IsFiniteSet(U)
  BY <1>3, FS_RemoveElement DEF FiniteSubsetsOf
<1>7. SumFunctionOnSet(h, U) = c * SumFunctionOnSet(f, U) BY <1>2, <1>5, <1>6
<1>8. /\ SumFunctionOnSet(h, T) = h[y] + SumFunctionOnSet(h, U)
      /\ SumFunctionOnSet(f, T) = f[y] + SumFunctionOnSet(f, U)
  BY <1>3, <1>4, SumStep
<1>9. SumFunctionOnSet(f, U) \in Int /\ f[y] \in Int /\ h[y] = c * f[y]
  BY <1>3, <1>5, <1>6, SumInt
<1>10. SumFunctionOnSet(h, T) # c * SumFunctionOnSet(f, T) BY <1>2
<1>11. \A a, b \in Int : c * (a + b) = c * a + c * b OBVIOUS
<1> HIDE DEF y, U, B
<1> QED BY <1>7, <1>8, <1>9, <1>10, <1>11

\* Smaller values have the smaller sum.
LEMMA SumAtMost ==
  ASSUME NEW f, NEW h, NEW S, IsFiniteSet(S),
         \A x \in S : f[x] \in Int /\ h[x] \in Int /\ f[x] <= h[x]
  PROVE  SumFunctionOnSet(f, S) <= SumFunctionOnSet(h, S)
<1> DEFINE g == [x \in S |-> h[x] - f[x]]
<1>1. \A x \in S : g[x] \in Nat /\ h[x] = f[x] + g[x] OBVIOUS
<1> HIDE DEF g
<1>2. SumFunctionOnSet(h, S) = SumFunctionOnSet(f, S) + SumFunctionOnSet(g, S) BY <1>1, SumPlus
<1>3. SumFunctionOnSet(g, S) \in Nat /\ SumFunctionOnSet(f, S) \in Int BY <1>1, SumNat, SumInt
<1> QED BY <1>2, <1>3

\* What each y of T gets of those x of S that it has, together: each x is
\* counted with the one that k gives it to.
Getting(S, g, k, y) == SumFunctionOnSet([x \in S |-> IF k[x] = y THEN g[x] ELSE 0], S)
GettingAll(S, g, k, T) == SumFunctionOnSet([x \in S |-> IF k[x] \in T THEN g[x] ELSE 0], S)

LEMMA GettingOne ==
  ASSUME NEW S, IsFiniteSet(S), NEW g, NEW k, \A x \in S : g[x] \in Int, NEW T, NEW y \in T
  PROVE  GettingAll(S, g, k, T) = Getting(S, g, k, y) + GettingAll(S, g, k, T \ {y})
<1> DEFINE a == [x \in S |-> IF k[x] = y THEN g[x] ELSE 0]
           b == [x \in S |-> IF k[x] \in T \ {y} THEN g[x] ELSE 0]
           h == [x \in S |-> IF k[x] \in T THEN g[x] ELSE 0]
<1>1. \A x \in S : a[x] \in Int /\ b[x] \in Int /\ h[x] = a[x] + b[x] OBVIOUS
<1>2. /\ Getting(S, g, k, y) = SumFunctionOnSet(a, S)
      /\ GettingAll(S, g, k, T) = SumFunctionOnSet(h, S)
      /\ GettingAll(S, g, k, T \ {y}) = SumFunctionOnSet(b, S)
  BY DEF Getting, GettingAll
<1> HIDE DEF a, b, h
<1>3. SumFunctionOnSet(h, S) = SumFunctionOnSet(a, S) + SumFunctionOnSet(b, S) BY <1>1, SumPlus
<1> QED BY <1>2, <1>3

LEMMA SumGroups ==
  ASSUME NEW S, IsFiniteSet(S), NEW T, IsFiniteSet(T), NEW g, NEW k,
         \A x \in S : g[x] \in Int, NEW h, \A y \in T : h[y] = Getting(S, g, k, y)
  PROVE  SumFunctionOnSet(h, T) = GettingAll(S, g, k, T)
<1> DEFINE B == {R \in FiniteSubsetsOf(T) : SumFunctionOnSet(h, R) # GettingAll(S, g, k, R)}
<1>1. SUFFICES ASSUME B # {} PROVE FALSE
  BY <1>1 DEF FiniteSubsetsOf
<1>2. PICK R \in B : \A U \in B : U \subseteq R => U = R
  <2> B \subseteq FiniteSubsetsOf(T)  OBVIOUS
  <2> HIDE DEF B
  <2> QED  BY <1>1, MinimalSubset
<1>3. R \in SUBSET T /\ IsFiniteSet(R) BY DEF FiniteSubsetsOf
<1>4. R # {}
  <2> DEFINE b == [x \in S |-> IF k[x] \in {} THEN g[x] ELSE 0]
  <2>1. SumFunctionOnSet(h, {}) = 0 BY <1>3, FS_EmptySet, SumStep
  <2>2. GettingAll(S, g, k, {}) = SumFunctionOnSet(b, S) BY DEF GettingAll
  <2>3. \A x \in S : b[x] = 0 OBVIOUS
  <2> HIDE DEF b
  <2>4. SumFunctionOnSet(b, S) = 0 BY <2>3, SumZero
  <2> QED BY <1>2, <2>1, <2>2, <2>4
<1> DEFINE y == Pick(R)   U == R \ {Pick(R)}
<1>5. y \in R BY <1>4, PickIn
<1>6. U \in FiniteSubsetsOf(T) /\ U \in SUBSET T
  BY <1>3, FS_RemoveElement DEF FiniteSubsetsOf
<1>7. SumFunctionOnSet(h, U) = GettingAll(S, g, k, U) BY <1>2, <1>5, <1>6
<1>8. SumFunctionOnSet(h, R) = h[y] + SumFunctionOnSet(h, U) BY <1>3, <1>4, SumStep
<1>9. GettingAll(S, g, k, R) = Getting(S, g, k, y) + GettingAll(S, g, k, U)
  BY <1>5, GettingOne
<1>10. h[y] = Getting(S, g, k, y) BY <1>3, <1>5
<1>11. SumFunctionOnSet(h, R) # GettingAll(S, g, k, R) BY <1>2
<1> HIDE DEF y, U, B
<1> QED BY <1>7, <1>8, <1>9, <1>10, <1>11
=============================================================================
