------------------------------ MODULE SumProofs ------------------------------
(***************************************************************************)
(* Sums over finite sets: what SumFunctionOnSet computes, for every finite *)
(* set.  The operator is a fold that takes the elements in the order       *)
(* CHOOSE gives; the facts below hold whatever that order is.  Each is     *)
(* proved by looking at a smallest set for which it fails.                 *)
(***************************************************************************)
EXTENDS Integers, FiniteSets, Functions, FiniteSetTheorems, TLAPS

Pick(S) == CHOOSE x \in S : TRUE

\* g gives the sums of f over the subsets of S, the way the fold defines them.
IsSum(g, f, S) ==
  g = [s \in SUBSET S |-> IF s = {} THEN 0 ELSE f[Pick(s)] + g[s \ {Pick(s)}]]

LEMMA SumDef ==
  ASSUME NEW f, NEW S
  PROVE  SumFunctionOnSet(f, S) = (CHOOSE g : IsSum(g, f, S))[S]
BY Zenon DEF SumFunctionOnSet, FoldFunctionOnSet, MapThenFoldSet, IsSum, Pick

\* A family of subsets of a finite set that is not empty has a smallest member.
LEMMA SmallestSubset ==
  ASSUME NEW S, IsFiniteSet(S), NEW F, F \subseteq SUBSET S, F # {}
  PROVE  \E T \in F : \A U \in F : U \subseteq T => U = T
<1>1. FiniteSubsetsOf(S) = SUBSET S
  BY FS_FiniteSubsetsOfFinite
<1>2. IsWellFoundedOn(StrictSubsetOrdering(S), SUBSET S)
  BY <1>1, FS_StrictSubsetOrderingWellFounded
<1>3. PICK T \in F : \A U \in F : ~(<<U, T>> \in StrictSubsetOrdering(S))
  BY <1>2, WFMin
<1>4. \A U \in F : U \subseteq T => U = T
  BY <1>3 DEF StrictSubsetOrdering
<1> QED
  BY <1>4

LEMMA PickIn == \A S : S # {} => Pick(S) \in S
BY DEF Pick

LEMMA SumUnique ==
  ASSUME NEW S, IsFiniteSet(S), NEW f, NEW g, NEW h, IsSum(g, f, S), IsSum(h, f, S)
  PROVE  \A s \in SUBSET S : g[s] = h[s]
<1> DEFINE F == {s \in SUBSET S : g[s] # h[s]}
<1> SUFFICES ASSUME F # {} PROVE FALSE
  OBVIOUS
<1>1. PICK T \in F : \A U \in F : U \subseteq T => U = T
  <2>1. F \subseteq SUBSET S
    OBVIOUS
  <2> HIDE DEF F
  <2> QED
    BY <2>1, SmallestSubset
<1>2. \A s \in SUBSET S : /\ g[s] = IF s = {} THEN 0 ELSE f[Pick(s)] + g[s \ {Pick(s)}]
                          /\ h[s] = IF s = {} THEN 0 ELSE f[Pick(s)] + h[s \ {Pick(s)}]
  <2>1. g = [s \in SUBSET S |-> IF s = {} THEN 0 ELSE f[Pick(s)] + g[s \ {Pick(s)}]]
    BY DEF IsSum
  <2>2. h = [s \in SUBSET S |-> IF s = {} THEN 0 ELSE f[Pick(s)] + h[s \ {Pick(s)}]]
    BY DEF IsSum
  <2> QED
    BY <2>1, <2>2
<1>3. T # {}
  BY <1>2
<1>4. T \ {Pick(T)} \in SUBSET S /\ Pick(T) \in T
  BY <1>3, PickIn
<1>5. g[T \ {Pick(T)}] = h[T \ {Pick(T)}]
  BY <1>1, <1>4
<1> QED
  BY <1>2, <1>3, <1>5

LEMMA SumRestrict ==
  ASSUME NEW U, NEW V \in SUBSET U, NEW f, NEW g, IsSum(g, f, U)
  PROVE  IsSum([s \in SUBSET V |-> g[s]], f, V)
<1> DEFINE r == [s \in SUBSET V |-> g[s]]
           q == [s \in SUBSET V |-> IF s = {} THEN 0 ELSE f[Pick(s)] + r[s \ {Pick(s)}]]
<1>1. g = [s \in SUBSET U |-> IF s = {} THEN 0 ELSE f[Pick(s)] + g[s \ {Pick(s)}]]
  BY DEF IsSum
<1>2. ASSUME NEW s \in SUBSET V
      PROVE  r[s] = q[s]
  <2>1. s \in SUBSET U /\ s \ {Pick(s)} \in SUBSET V
    OBVIOUS
  <2>2. g[s] = IF s = {} THEN 0 ELSE f[Pick(s)] + g[s \ {Pick(s)}]
    BY <1>1, <2>1
  <2>3. r[s \ {Pick(s)}] = g[s \ {Pick(s)}]
    BY <2>1
  <2> QED
    BY <2>2, <2>3
<1>3. r = q
  <2>1. /\ r = [s \in SUBSET V |-> r[s]]
        /\ q = [s \in SUBSET V |-> q[s]]
    OBVIOUS
  <2> HIDE DEF r, q
  <2> QED
    BY <1>2, <2>1
<1> QED
  BY <1>3 DEF IsSum

LEMMA SumExists ==
  ASSUME NEW S, IsFiniteSet(S), NEW f
  PROVE  \E g : IsSum(g, f, S)
<1> DEFINE F == {T \in SUBSET S : ~ \E g : IsSum(g, f, T)}
<1> SUFFICES ASSUME F # {} PROVE FALSE
  OBVIOUS
<1>1. PICK T \in F : \A U \in F : U \subseteq T => U = T
  <2>1. F \subseteq SUBSET S
    OBVIOUS
  <2> HIDE DEF F
  <2> QED
    BY <2>1, SmallestSubset
<1>2. \A U \in SUBSET T : U # T => \E g : IsSum(g, f, U)
  BY <1>1
<1> DEFINE rest(s) == s \ {Pick(s)}
           sum(s) == SumFunctionOnSet(f, s)
           G == [s \in SUBSET T |-> IF s = {} THEN 0 ELSE f[Pick(s)] + sum(rest(s))]
<1>3. IsFiniteSet(T) /\ T \in SUBSET S
  BY <1>1, FS_Subset
<1>4. ASSUME NEW U \in SUBSET T, U # T
      PROVE  sum(U) = IF U = {} THEN 0 ELSE f[Pick(U)] + sum(rest(U))
  <2>1. PICK g : g = CHOOSE gg : IsSum(gg, f, U)
    OBVIOUS
  <2>2. IsSum(g, f, U)
    BY <1>2, <1>4, <2>1
  <2>3. sum(U) = g[U]
    BY <2>1, SumDef
  <2>4. g = [s \in SUBSET U |-> IF s = {} THEN 0 ELSE f[Pick(s)] + g[s \ {Pick(s)}]]
    BY <2>2 DEF IsSum
  <2>5. g[U] = IF U = {} THEN 0 ELSE f[Pick(U)] + g[rest(U)]
    BY <2>4
  <2>6. CASE U = {}
    BY <2>3, <2>5, <2>6
  <2>7. CASE U # {}
    <3> DEFINE V == rest(U)
               r == [s \in SUBSET V |-> g[s]]
               h == CHOOSE gg : IsSum(gg, f, V)
    <3>1. V \in SUBSET U /\ V # T /\ V \in SUBSET T /\ IsFiniteSet(V)
      BY <1>3, <2>7, PickIn, FS_Subset
    <3>2. IsSum(r, f, V)
      <4>1. V \in SUBSET U /\ IsSum(g, f, U)
        BY <2>2, <3>1
      <4> HIDE DEF V, F, G, h
      <4> QED
        BY <4>1, SumRestrict
    <3>3. IsSum(h, f, V)
      BY <3>2
    <3>4. r[V] = h[V]
      <4> HIDE DEF r, h, V
      <4> QED
        BY <3>1, <3>2, <3>3, SumUnique
    <3>5. sum(V) = h[V]
      BY SumDef
    <3>6. r[V] = g[V]
      OBVIOUS
    <3> QED
      BY <2>3, <2>5, <2>7, <3>4, <3>5, <3>6
  <2> QED
    BY <2>6, <2>7
<1>5. ASSUME NEW s \in SUBSET T, s # {}
      PROVE  G[rest(s)] = sum(rest(s))
  <2>1. rest(s) \in SUBSET T /\ rest(s) # T
    BY <1>5, PickIn
  <2> HIDE DEF sum
  <2> QED
    BY <1>4, <2>1
<1>6. G = [s \in SUBSET T |-> IF s = {} THEN 0 ELSE f[Pick(s)] + G[s \ {Pick(s)}]]
  <2> HIDE DEF sum
  <2> SUFFICES ASSUME NEW s \in SUBSET T
               PROVE  G[s] = IF s = {} THEN 0 ELSE f[Pick(s)] + G[s \ {Pick(s)}]
    OBVIOUS
  <2>1. CASE s = {}
    BY <2>1
  <2>2. CASE s # {}
    BY <1>5, <2>2
  <2> QED
    BY <2>1, <2>2
<1>7. IsSum(G, f, T)
  BY <1>6 DEF IsSum
<1> QED
  BY <1>1, <1>7

-----------------------------------------------------------------------------
(* What a sum is.                                                            *)

LEMMA SumEmpty == \A f : SumFunctionOnSet(f, {}) = 0
<1> SUFFICES ASSUME NEW f PROVE SumFunctionOnSet(f, {}) = 0
  OBVIOUS
<1> DEFINE g == CHOOSE gg : IsSum(gg, f, {})
<1>1. IsSum(g, f, {})
  BY SumExists, FS_EmptySet
<1>2. g = [s \in SUBSET {} |-> IF s = {} THEN 0 ELSE f[Pick(s)] + g[s \ {Pick(s)}]]
  BY <1>1 DEF IsSum
<1>3. g[{}] = 0
  BY <1>2
<1> QED
  BY <1>3, SumDef

LEMMA SumStep ==
  ASSUME NEW S, IsFiniteSet(S), S # {}, NEW f
  PROVE  SumFunctionOnSet(f, S) = f[Pick(S)] + SumFunctionOnSet(f, S \ {Pick(S)})
<1> DEFINE V == S \ {Pick(S)}
           g == CHOOSE gg : IsSum(gg, f, S)
           h == CHOOSE gg : IsSum(gg, f, V)
           r == [s \in SUBSET V |-> g[s]]
<1>1. V \in SUBSET S /\ IsFiniteSet(V)
  BY FS_RemoveElement
<1>2. IsSum(g, f, S) /\ IsSum(h, f, V)
  BY <1>1, SumExists
<1>3. g = [s \in SUBSET S |-> IF s = {} THEN 0 ELSE f[Pick(s)] + g[s \ {Pick(s)}]]
  BY <1>2 DEF IsSum
<1>4. g[S] = f[Pick(S)] + g[V]
  BY <1>3
<1>5. IsSum(r, f, V)
  BY <1>1, <1>2, SumRestrict
<1>6. r[V] = h[V]
  <2> HIDE DEF r, h, V
  <2> QED
    BY <1>1, <1>2, <1>5, SumUnique
<1>7. SumFunctionOnSet(f, S) = g[S] /\ SumFunctionOnSet(f, V) = h[V]
  BY SumDef
<1>8. r[V] = g[V]
  OBVIOUS
<1> QED
  BY <1>4, <1>6, <1>7, <1>8

LEMMA SumType ==
  ASSUME NEW S, IsFiniteSet(S), NEW f, \A x \in S : f[x] \in Int
  PROVE  SumFunctionOnSet(f, S) \in Int
<1> DEFINE F == {T \in SUBSET S : SumFunctionOnSet(f, T) \notin Int}
<1> SUFFICES ASSUME F # {} PROVE FALSE
  OBVIOUS
<1>1. PICK T \in F : \A U \in F : U \subseteq T => U = T
  <2>1. F \subseteq SUBSET S
    OBVIOUS
  <2> HIDE DEF F
  <2> QED
    BY <2>1, SmallestSubset
<1>2. T # {}
  BY SumEmpty
<1>3. Pick(T) \in T /\ IsFiniteSet(T)
  BY <1>2, PickIn, FS_Subset
<1>4. SumFunctionOnSet(f, T \ {Pick(T)}) \in Int
  BY <1>1, <1>3
<1>5. SumFunctionOnSet(f, T) = f[Pick(T)] + SumFunctionOnSet(f, T \ {Pick(T)})
  BY <1>2, <1>3, SumStep
<1>6. f[Pick(T)] \in Int
  BY <1>3
<1> QED
  BY <1>4, <1>5, <1>6

\* The order does not matter: any element can be taken out first.
LEMMA SumRemove ==
  ASSUME NEW S, IsFiniteSet(S), NEW f, \A x \in S : f[x] \in Int, NEW x \in S
  PROVE  SumFunctionOnSet(f, S) = f[x] + SumFunctionOnSet(f, S \ {x})
<1> DEFINE sum(T) == SumFunctionOnSet(f, T)
           F == {T \in SUBSET S : \E y \in T : sum(T) # f[y] + sum(T \ {y})}
<1> SUFFICES ASSUME F # {} PROVE FALSE
  OBVIOUS
<1>1. PICK T \in F : \A U \in F : U \subseteq T => U = T
  <2>1. F \subseteq SUBSET S
    OBVIOUS
  <2> HIDE DEF F
  <2> QED
    BY <2>1, SmallestSubset
<1>2. PICK y \in T : sum(T) # f[y] + sum(T \ {y})
  OBVIOUS
<1> DEFINE z == Pick(T)
<1>3. z \in T /\ sum(T) = f[z] + sum(T \ {z}) /\ IsFiniteSet(T)
  BY PickIn, FS_Subset, SumStep
<1>4. y # z
  BY <1>2, <1>3
<1>5. sum(T \ {z}) = f[y] + sum((T \ {z}) \ {y})
  <2>1. T \ {z} \notin F
    BY <1>1, <1>3
  <2> QED
    BY <2>1, <1>3, <1>4
<1>6. sum(T \ {y}) = f[z] + sum((T \ {y}) \ {z})
  <2>1. T \ {y} \notin F
    BY <1>1, <1>2
  <2> QED
    BY <2>1, <1>3, <1>4
<1>7. (T \ {y}) \ {z} = (T \ {z}) \ {y}
  OBVIOUS
<1>8. sum((T \ {z}) \ {y}) \in Int /\ f[y] \in Int /\ f[z] \in Int
  BY <1>3, FS_Subset, SumType
<1> HIDE DEF sum, z, F
<1>9. sum(T) = f[y] + (f[z] + sum((T \ {z}) \ {y}))
  BY <1>3, <1>5, <1>8
<1> QED
  BY <1>2, <1>6, <1>7, <1>9

LEMMA SumAdd ==
  ASSUME NEW S, IsFiniteSet(S), NEW f, NEW x, x \notin S,
         \A y \in S \cup {x} : f[y] \in Int
  PROVE  SumFunctionOnSet(f, S \cup {x}) = f[x] + SumFunctionOnSet(f, S)
<1>1. IsFiniteSet(S \cup {x}) /\ (S \cup {x}) \ {x} = S
  BY FS_AddElement
<1> QED
  BY <1>1, SumRemove

\* A sum depends only on the summands.
LEMMA SumExt ==
  ASSUME NEW S, IsFiniteSet(S), NEW f, NEW g, \A x \in S : f[x] = g[x]
  PROVE  SumFunctionOnSet(f, S) = SumFunctionOnSet(g, S)
<1> DEFINE F == {T \in SUBSET S : SumFunctionOnSet(f, T) # SumFunctionOnSet(g, T)}
<1> SUFFICES ASSUME F # {} PROVE FALSE
  OBVIOUS
<1>1. PICK T \in F : \A U \in F : U \subseteq T => U = T
  <2>1. F \subseteq SUBSET S
    OBVIOUS
  <2> HIDE DEF F
  <2> QED
    BY <2>1, SmallestSubset
<1>2. T # {}
  BY SumEmpty
<1>3. Pick(T) \in T /\ IsFiniteSet(T)
  BY <1>2, PickIn, FS_Subset
<1>4. SumFunctionOnSet(f, T \ {Pick(T)}) = SumFunctionOnSet(g, T \ {Pick(T)})
  BY <1>1, <1>3
<1> QED
  BY <1>2, <1>3, <1>4, SumStep

\* Nor on what the elements are called.
LEMMA SumImage ==
  ASSUME NEW S, IsFiniteSet(S), NEW f, NEW g, NEW r,
         \A x \in S : g[x] \in Int /\ f[r[x]] = g[x],
         \A x, y \in S : r[x] = r[y] => x = y
  PROVE  SumFunctionOnSet(f, {r[x] : x \in S}) = SumFunctionOnSet(g, S)
<1> DEFINE im(T) == {r[x] : x \in T}
           F == {T \in SUBSET S : ~ /\ IsFiniteSet(im(T))
                                    /\ SumFunctionOnSet(f, im(T)) = SumFunctionOnSet(g, T)}
<1> SUFFICES ASSUME F # {} PROVE FALSE
  OBVIOUS
<1>1. PICK T \in F : \A U \in F : U \subseteq T => U = T
  <2>1. F \subseteq SUBSET S
    OBVIOUS
  <2> HIDE DEF F
  <2> QED
    BY <2>1, SmallestSubset
<1>2. T # {}
  <2>1. im({}) = {}
    OBVIOUS
  <2> QED
    BY <2>1, SumEmpty, FS_EmptySet
<1>3. PICK x \in T : TRUE
  BY <1>2
<1>4. IsFiniteSet(T) /\ IsFiniteSet(T \ {x}) /\ T \subseteq S
  BY FS_Subset
<1>5. /\ IsFiniteSet(im(T \ {x}))
      /\ SumFunctionOnSet(f, im(T \ {x})) = SumFunctionOnSet(g, T \ {x})
  BY <1>1, <1>3
<1>6. SumFunctionOnSet(g, T) = g[x] + SumFunctionOnSet(g, T \ {x})
  BY <1>4, SumRemove
<1>7. im(T) = im(T \ {x}) \cup {r[x]} /\ r[x] \notin im(T \ {x})
  BY <1>4
<1>8. IsFiniteSet(im(T))
  <2> DEFINE A == im(T \ {x})
             b == r[x]
  <2>1. IsFiniteSet(A) /\ im(T) = A \cup {b}
    BY <1>5, <1>7
  <2> HIDE DEF A, b, im
  <2> QED
    BY <2>1, FS_AddElement
<1>9. \A y \in im(T \ {x}) \cup {r[x]} : f[y] \in Int
  BY <1>4
<1>10. SumFunctionOnSet(f, im(T)) = f[r[x]] + SumFunctionOnSet(f, im(T \ {x}))
  <2> DEFINE A == im(T \ {x})
             b == r[x]
  <2>1. IsFiniteSet(A) /\ b \notin A /\ \A y \in A \cup {b} : f[y] \in Int
    BY <1>5, <1>7, <1>9
  <2>2. im(T) = A \cup {b}
    BY <1>7
  <2> HIDE DEF A, b
  <2>3. SumFunctionOnSet(f, A \cup {b}) = f[b] + SumFunctionOnSet(f, A)
    BY <2>1, SumAdd
  <2> QED
    BY <2>2, <2>3 DEF A, b
<1> QED
  BY <1>4, <1>5, <1>6, <1>8, <1>10
=============================================================================
