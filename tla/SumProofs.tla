------------------------------- MODULE SumProofs -------------------------------
(***************************************************************************)
(* Sums over a finite set: the model adds up rows with MapThenSumSet,      *)
(* which picks the elements in an order of its own.  The lemmas say that   *)
(* the order does not matter.                                              *)
(***************************************************************************)
EXTENDS FiniteSetsExt, FiniteSetTheorems, WellFoundedInduction, TLAPS

Pick(T) == CHOOSE x \in T : TRUE

\* The function MapThenSumSet defines recursively on the subsets of S.
IsSummation(g, S, f) ==
    f = [T \in SUBSET S |-> IF T = {} THEN 0 ELSE g[Pick(T)] + f[T \ {Pick(T)}]]
Total(g, S) == (CHOOSE f : IsSummation(g, S, f))[S]

LEMMA PickIsIn ==
    ASSUME NEW T, T # {} PROVE Pick(T) \in T
BY DEF Pick

\* Of the subsets of a finite set that fail, one fails with no smaller one failing.
LEMMA SmallestFailure ==
    ASSUME NEW S, IsFiniteSet(S), NEW Failures \in SUBSET SUBSET S, Failures # {}
    PROVE  \E T \in Failures : \A U \in SUBSET T : U # T => U \notin Failures
<1>1. IsWellFoundedOn(StrictSubsetOrdering(S), SUBSET S)
  BY FS_StrictSubsetOrderingWellFounded, FS_FiniteSubsetsOfFinite
<1>2. PICK T \in Failures : \A U \in Failures : <<U, T>> \notin StrictSubsetOrdering(S)
  BY <1>1, WFMin
<1>3. ASSUME NEW U \in SUBSET T, U # T, U \in Failures PROVE FALSE
  BY <1>2, <1>3 DEF StrictSubsetOrdering
<1> QED
  BY <1>2, <1>3

LEMMA OneSummation ==
    ASSUME NEW S, IsFiniteSet(S), NEW g, NEW f, NEW h,
           IsSummation(g, S, f), IsSummation(g, S, h)
    PROVE  f = h
<1> DEFINE Failures == {T \in SUBSET S : f[T] # h[T]}
<1>1. CASE Failures = {}
  <2>1. \A T \in SUBSET S : f[T] = h[T]
    BY <1>1
  <2>2. \A T \in SUBSET S : T \ {Pick(T)} \in SUBSET S
    OBVIOUS
  <2>3. DOMAIN f = SUBSET S /\ DOMAIN h = SUBSET S
    BY DEF IsSummation
  <2>4. f = [T \in SUBSET S |-> f[T]] /\ h = [T \in SUBSET S |-> h[T]]
    BY <2>3 DEF IsSummation
  <2> QED
    BY <2>1, <2>4
<1>2. CASE Failures # {}
  <2>0. Failures \in SUBSET SUBSET S
    BY Zenon
  <2> HIDE DEF Failures
  <2>1. PICK T \in Failures : \A U \in SUBSET T : U # T => U \notin Failures
    BY <1>2, <2>0, SmallestFailure
  <2> USE DEF Failures
  <2>2. T # {}
    BY DEF IsSummation
  <2>3. f[T \ {Pick(T)}] = h[T \ {Pick(T)}]
    BY <2>1, <2>2, PickIsIn
  <2>4. f[T] = g[Pick(T)] + f[T \ {Pick(T)}]
    BY <2>2 DEF IsSummation
  <2>5. h[T] = g[Pick(T)] + h[T \ {Pick(T)}]
    BY <2>2 DEF IsSummation
  <2> QED
    BY <2>3, <2>4, <2>5
<1> QED
  BY <1>1, <1>2

LEMMA SummationsTotal ==
    ASSUME NEW S, IsFiniteSet(S), NEW g, NEW f, IsSummation(g, S, f), NEW U \in SUBSET S
    PROVE  f[U] = Total(g, U)
<1> DEFINE h == [T \in SUBSET U |-> f[T]]
<1>1. IsFiniteSet(U)
  BY FS_Subset
<1>2. \A T \in SUBSET U : h[T] = IF T = {} THEN 0 ELSE g[Pick(T)] + h[T \ {Pick(T)}]
  BY DEF IsSummation
<1>3. IsSummation(g, U, h)
  BY <1>2, Zenon DEF IsSummation
<1>4. h[U] = f[U]
  OBVIOUS
<1> HIDE DEF h
<1>5. IsSummation(g, U, CHOOSE e : IsSummation(g, U, e))
  BY <1>3
<1>6. (CHOOSE e : IsSummation(g, U, e)) = h
  BY <1>1, <1>3, <1>5, OneSummation
<1> QED
  BY <1>4, <1>6 DEF Total

LEMMA SummationExists ==
    ASSUME NEW S, IsFiniteSet(S), NEW g
    PROVE  \E f : IsSummation(g, S, f)
<1> DEFINE Failures == {T \in SUBSET S : ~ \E f : IsSummation(g, T, f)}
<1> SUFFICES ASSUME Failures # {} PROVE FALSE
  OBVIOUS
<1>0. Failures \in SUBSET SUBSET S
  BY Zenon
<1> HIDE DEF Failures
<1>1. PICK T \in Failures : \A U \in SUBSET T : U # T => U \notin Failures
  BY <1>0, SmallestFailure
<1> USE DEF Failures
<1> DEFINE h == [U \in SUBSET T |-> IF U = {} THEN 0 ELSE g[Pick(U)] + Total(g, U \ {Pick(U)})]
<1>2. ASSUME NEW U \in SUBSET T, U # T PROVE h[U] = Total(g, U)
  <2>1. PICK f : IsSummation(g, U, f)
    BY <1>1, <1>2
  <2>2. IsFiniteSet(U)
    BY FS_Subset
  <2>3. f[U] = Total(g, U) /\ f[U \ {Pick(U)}] = Total(g, U \ {Pick(U)})
    BY <2>1, <2>2, SummationsTotal
  <2>4. f[U] = IF U = {} THEN 0 ELSE g[Pick(U)] + f[U \ {Pick(U)}]
    BY <2>1 DEF IsSummation
  <2> QED
    BY <2>3, <2>4
<1>3. ASSUME NEW U \in SUBSET T, U # {} PROVE h[U] = g[Pick(U)] + h[U \ {Pick(U)}]
  <2>1. U \ {Pick(U)} \in SUBSET T /\ U \ {Pick(U)} # T
    BY <1>3, PickIsIn
  <2> QED
    BY <1>2, <1>3, <2>1
<1>4. h[{}] = 0
  OBVIOUS
<1>5. \A U \in SUBSET T : h[U] = IF U = {} THEN 0 ELSE g[Pick(U)] + h[U \ {Pick(U)}]
  BY <1>3, <1>4
<1>6. h = [U \in SUBSET T |-> h[U]]
  OBVIOUS
<1> HIDE DEF h
<1>7. IsSummation(g, T, h)
  BY <1>5, <1>6 DEF IsSummation
<1> QED
  BY <1>1, <1>7

LEMMA TotalOfNone == ASSUME NEW g PROVE Total(g, {}) = 0
<1>1. IsFiniteSet({})
  BY FS_EmptySet
<1>2. PICK f : IsSummation(g, {}, f)
  BY <1>1, SummationExists
<1>3. f[{}] = 0
  BY <1>2 DEF IsSummation
<1> QED
  BY <1>1, <1>2, <1>3, SummationsTotal

LEMMA TotalPicks ==
    ASSUME NEW S, IsFiniteSet(S), S # {}, NEW g
    PROVE  Total(g, S) = g[Pick(S)] + Total(g, S \ {Pick(S)})
<1>1. PICK f : IsSummation(g, S, f)
  BY SummationExists
<1>2. f[S] = g[Pick(S)] + f[S \ {Pick(S)}]
  BY <1>1 DEF IsSummation
<1>3. f[S] = Total(g, S) /\ f[S \ {Pick(S)}] = Total(g, S \ {Pick(S)})
  BY <1>1, SummationsTotal
<1> QED
  BY <1>2, <1>3

LEMMA TotalIsInt ==
    ASSUME NEW S, IsFiniteSet(S), NEW g, \A x \in S : g[x] \in Int
    PROVE  Total(g, S) \in Int
<1> DEFINE Failures == {T \in SUBSET S : Total(g, T) \notin Int}
<1> SUFFICES ASSUME Failures # {} PROVE FALSE
  OBVIOUS
<1>0. Failures \in SUBSET SUBSET S
  BY Zenon
<1> HIDE DEF Failures
<1>1. PICK T \in Failures : \A U \in SUBSET T : U # T => U \notin Failures
  BY <1>0, SmallestFailure
<1> USE DEF Failures
<1>2. T # {}
  BY TotalOfNone
<1>3. Pick(T) \in T
  BY <1>2, PickIsIn
<1>4. IsFiniteSet(T)
  BY FS_Subset
<1>5. Total(g, T) = g[Pick(T)] + Total(g, T \ {Pick(T)})
  BY <1>2, <1>4, TotalPicks
<1>6. T \ {Pick(T)} \in SUBSET T /\ T \ {Pick(T)} # T
  BY <1>3
<1>7. Total(g, T \ {Pick(T)}) \in Int /\ g[Pick(T)] \in Int
  BY <1>1, <1>3, <1>6
<1> QED
  BY <1>1, <1>5, <1>7

\* Whatever order MapThenSumSet picks the rows in, the sum is that of any element and the
\* rest: the totals of the balance snapshot and of a debt's payments are sums indeed.
THEOREM TotalTakes ==
    ASSUME NEW S, IsFiniteSet(S), NEW g, \A x \in S : g[x] \in Int, NEW y \in S
    PROVE  Total(g, S) = g[y] + Total(g, S \ {y})
<1> DEFINE Failures == {T \in SUBSET S : \E z \in T : Total(g, T) # g[z] + Total(g, T \ {z})}
<1> SUFFICES ASSUME Failures # {} PROVE FALSE
  OBVIOUS
<1>0. Failures \in SUBSET SUBSET S
  BY Zenon
<1> HIDE DEF Failures
<1>1. PICK T \in Failures : \A U \in SUBSET T : U # T => U \notin Failures
  BY <1>0, SmallestFailure
<1> USE DEF Failures
<1>2. PICK z \in T : Total(g, T) # g[z] + Total(g, T \ {z})
  OBVIOUS
<1> DEFINE x == Pick(T)
<1>3. x \in T /\ T \in SUBSET S /\ IsFiniteSet(T)
  BY PickIsIn, FS_Subset
<1>4. Total(g, T) = g[x] + Total(g, T \ {x})
  BY <1>3, TotalPicks
<1> HIDE DEF x
<1>5. x # z
  BY <1>2, <1>4
<1>6. Total(g, T \ {x}) = g[z] + Total(g, (T \ {x}) \ {z})
  <2>1. T \ {x} \in SUBSET T /\ T \ {x} # T /\ z \in T \ {x} /\ T \ {x} \in SUBSET S
    BY <1>3, <1>5
  <2> QED
    BY <1>1, <2>1
<1>7. Total(g, T \ {z}) = g[x] + Total(g, (T \ {z}) \ {x})
  <2>1. T \ {z} \in SUBSET T /\ T \ {z} # T /\ x \in T \ {z} /\ T \ {z} \in SUBSET S
    BY <1>2, <1>3, <1>5
  <2> QED
    BY <1>1, <2>1
<1> DEFINE rest == Total(g, (T \ {x}) \ {z})
<1>8. rest = Total(g, (T \ {z}) \ {x})
  <2>1. (T \ {z}) \ {x} = (T \ {x}) \ {z}
    OBVIOUS
  <2> QED
    BY <2>1
<1>9. rest \in Int /\ g[x] \in Int /\ g[z] \in Int
  <2>1. (T \ {x}) \ {z} \in SUBSET S
    BY <1>3
  <2>2. IsFiniteSet((T \ {x}) \ {z})
    BY <2>1, FS_Subset
  <2>3. rest \in Int
    BY <2>1, <2>2, TotalIsInt
  <2> QED
    BY <1>2, <1>3, <2>3
<1> HIDE DEF rest
<1>10. Total(g, T) = g[x] + (g[z] + rest) /\ Total(g, T \ {z}) = g[x] + rest
  BY <1>4, <1>6, <1>7, <1>8 DEF rest
<1>11. g[x] + (g[z] + rest) = g[z] + (g[x] + rest)
  BY <1>9
<1> QED
  BY <1>2, <1>10, <1>11

\* A sum depends on its terms alone.
LEMMA TotalOfSame ==
    ASSUME NEW S, IsFiniteSet(S), NEW g, NEW h, \A x \in S : g[x] = h[x]
    PROVE  Total(g, S) = Total(h, S)
<1> DEFINE Failures == {T \in SUBSET S : Total(g, T) # Total(h, T)}
<1> SUFFICES ASSUME Failures # {} PROVE FALSE
  OBVIOUS
<1>0. Failures \in SUBSET SUBSET S
  BY Zenon
<1> HIDE DEF Failures
<1>1. PICK T \in Failures : \A U \in SUBSET T : U # T => U \notin Failures
  BY <1>0, SmallestFailure
<1> USE DEF Failures
<1>2. T # {}
  BY TotalOfNone
<1> DEFINE x == Pick(T)
<1>3. x \in T /\ IsFiniteSet(T)
  BY <1>2, PickIsIn, FS_Subset
<1>4. /\ Total(g, T) = g[x] + Total(g, T \ {x})
      /\ Total(h, T) = h[x] + Total(h, T \ {x})
  BY <1>2, <1>3, TotalPicks
<1> HIDE DEF x
<1>5. T \ {x} \in SUBSET T /\ T \ {x} # T
  BY <1>3
<1>6. Total(g, T \ {x}) = Total(h, T \ {x})
  BY <1>1, <1>5
<1> QED
  BY <1>1, <1>3, <1>4, <1>6

\* A sum in which one term changes, appears or goes.
LEMMA TotalMoves ==
    ASSUME NEW S, IsFiniteSet(S), NEW g, NEW h, NEW y \in S,
           \A x \in S : g[x] \in Int /\ h[x] \in Int,
           \A x \in S \ {y} : g[x] = h[x]
    PROVE  Total(h, S) = Total(g, S) - g[y] + h[y]
<1>1. IsFiniteSet(S \ {y})
  BY FS_RemoveElement
<1>2. Total(g, S) = g[y] + Total(g, S \ {y}) /\ Total(h, S) = h[y] + Total(h, S \ {y})
  BY TotalTakes
<1>3. Total(g, S \ {y}) = Total(h, S \ {y}) /\ Total(g, S \ {y}) \in Int
  BY <1>1, TotalOfSame, TotalIsInt
<1> QED
  BY <1>2, <1>3

LEMMA TotalGains ==
    ASSUME NEW S, IsFiniteSet(S), NEW g, NEW h, NEW y, y \notin S,
           \A x \in S : g[x] = h[x] /\ h[x] \in Int, h[y] \in Int,
           NEW T, T = S \cup {y}
    PROVE  Total(h, T) = Total(g, S) + h[y]
<1>1. IsFiniteSet(S \cup {y}) /\ (S \cup {y}) \ {y} = S /\ y \in S \cup {y}
  BY FS_AddElement
<1>2. Total(h, S \cup {y}) = h[y] + Total(h, S)
  BY <1>1, TotalTakes
<1>3. Total(h, S) = Total(g, S) /\ Total(g, S) \in Int
  BY TotalOfSame, TotalIsInt
<1> QED
  BY <1>2, <1>3

\* A sum that gains a set of equal terms.
LEMMA TotalGainsMany ==
    ASSUME NEW S, IsFiniteSet(S), NEW N, IsFiniteSet(N), S \cap N = {}, NEW g, NEW h,
           NEW k \in Int, \A x \in S : g[x] = h[x] /\ h[x] \in Int, \A x \in N : h[x] = k
    PROVE  Total(h, S \cup N) = Total(g, S) + Cardinality(N) * k
<1> DEFINE Failures == {T \in SUBSET N : Total(h, S \cup T) # Total(g, S) + Cardinality(T) * k}
<1> SUFFICES ASSUME Failures # {} PROVE FALSE
  OBVIOUS
<1>0. Failures \in SUBSET SUBSET N
  BY Zenon
<1> HIDE DEF Failures
<1>1. PICK T \in Failures : \A U \in SUBSET T : U # T => U \notin Failures
  BY <1>0, SmallestFailure
<1> USE DEF Failures
<1>2. Total(h, S) = Total(g, S) /\ Total(g, S) \in Int
  BY TotalOfSame, TotalIsInt
<1>3. T # {}
  <2> SUFFICES ASSUME T = {} PROVE FALSE
    OBVIOUS
  <2>1. Total(h, S \cup T) = Total(g, S) /\ S \cup {} = S
    BY <1>2
  <2>2. Cardinality(T) * k = 0
    BY FS_EmptySet
  <2> QED
    BY <1>1, <1>2, <2>1, <2>2
<1>4. PICK y : y \in T
  BY <1>3
<1> DEFINE U == T \ {y}
<1>5. /\ IsFiniteSet(T) /\ IsFiniteSet(U) /\ Cardinality(T) \in Nat
      /\ Cardinality(U) = Cardinality(T) - 1
  BY <1>4, FS_Subset, FS_RemoveElement, FS_CardinalityType
<1>6. U \in SUBSET T /\ U # T /\ y \notin S \cup U /\ S \cup T = (S \cup U) \cup {y} /\ h[y] = k
  BY <1>4
<1> HIDE DEF U
<1>7. Total(h, S \cup U) = Total(g, S) + Cardinality(U) * k
  BY <1>1, <1>6
<1>8. IsFiniteSet(S \cup U)
  BY <1>5, FS_Union
<1>9. Total(h, S \cup T) = Total(h, S \cup U) + k
  <2>1. \A x \in (S \cup U) \cup {y} : h[x] \in Int
    BY <1>4, <1>6
  <2>2. Total(h, (S \cup U) \cup {y}) = Total(h, S \cup U) + h[y]
    <3> DEFINE V == S \cup U
    <3>1. IsFiniteSet(V) /\ y \notin V /\ \A x \in V \cup {y} : h[x] \in Int
      BY <1>6, <1>8, <2>1
    <3> HIDE DEF V
    <3>2. IsFiniteSet(V \cup {y}) /\ y \in V \cup {y} /\ (V \cup {y}) \ {y} = V
      BY <3>1, FS_AddElement
    <3>3. Total(h, V \cup {y}) = h[y] + Total(h, V)
      BY <3>1, <3>2, TotalTakes
    <3>4. Total(h, V) \in Int /\ h[y] \in Int
      BY <3>1, TotalIsInt
    <3>5. Total(h, V \cup {y}) = Total(h, V) + h[y]
      BY <3>3, <3>4
    <3> QED
      BY <3>5 DEF V
  <2> QED
    BY <1>6, <2>2
<1>10. Cardinality(U) * k + k = Cardinality(T) * k
  <2> PICK n \in Nat : n = Cardinality(T)
    BY <1>5
  <2>1. (n - 1) * k + k = n * k
    BY Z3
  <2> QED
    BY <1>5, <2>1
<1>11. Total(h, S \cup T) = Total(g, S) + Cardinality(T) * k
  <2> PICK m \in Int : m = Cardinality(U) * k
    BY <1>5
  <2>1. Total(h, S \cup T) = (Total(g, S) + m) + k /\ m + k = Cardinality(T) * k
    BY <1>7, <1>9, <1>10
  <2> QED
    BY <1>2, <2>1
<1> QED
  BY <1>1, <1>11
\* A set of numbers that is not empty has a least one.
LEMMA SmallestNumber ==
    ASSUME NEW T \in SUBSET Nat, T # {}
    PROVE  \E x \in T : \A y \in T : x <= y
<1>1. IsWellFoundedOn(OpToRel(<, Nat), Nat)
  BY NatLessThanWellFounded
<1>2. PICK x \in T : \A y \in T : <<y, x>> \notin OpToRel(<, Nat)
  BY <1>1, WFMin
<1>3. ASSUME NEW y \in T PROVE x <= y
  <2>1. ~(y < x)
    BY <1>2 DEF OpToRel
  <2> QED
    BY <2>1
<1> QED
  BY <1>3

LEMMA TotalIsNat ==
    ASSUME NEW S, IsFiniteSet(S), NEW g, \A x \in S : g[x] \in Nat
    PROVE  Total(g, S) \in Nat
<1> DEFINE Failures == {T \in SUBSET S : Total(g, T) \notin Nat}
<1> SUFFICES ASSUME Failures # {} PROVE FALSE
  OBVIOUS
<1>0. Failures \in SUBSET SUBSET S
  BY Zenon
<1> HIDE DEF Failures
<1>1. PICK T \in Failures : \A U \in SUBSET T : U # T => U \notin Failures
  BY <1>0, SmallestFailure
<1> USE DEF Failures
<1>2. T # {}
  BY TotalOfNone
<1>3. Pick(T) \in T
  BY <1>2, PickIsIn
<1>4. IsFiniteSet(T)
  BY FS_Subset
<1>5. Total(g, T) = g[Pick(T)] + Total(g, T \ {Pick(T)})
  BY <1>2, <1>4, TotalPicks
<1>6. T \ {Pick(T)} \in SUBSET T /\ T \ {Pick(T)} # T
  BY <1>3
<1>7. Total(g, T \ {Pick(T)}) \in Nat /\ g[Pick(T)] \in Nat
  BY <1>1, <1>3, <1>6
<1> QED
  BY <1>1, <1>5, <1>7

\* More of them are not less together.
LEMMA TotalGrows ==
    ASSUME NEW T, IsFiniteSet(T), NEW g, \A x \in T : g[x] \in Nat, NEW S \in SUBSET T
    PROVE  Total(g, S) <= Total(g, T)
<1> DEFINE Failures == {V \in SUBSET T : S \subseteq V /\ ~(Total(g, S) <= Total(g, V))}
<1> SUFFICES ASSUME Failures # {} PROVE FALSE
  OBVIOUS
<1>0. Failures \in SUBSET SUBSET T
  BY Zenon
<1> HIDE DEF Failures
<1>1. PICK V \in Failures : \A U \in SUBSET V : U # V => U \notin Failures
  BY <1>0, SmallestFailure
<1> USE DEF Failures
<1>2. V \in SUBSET T /\ S \subseteq V /\ IsFiniteSet(V) /\ IsFiniteSet(S)
  BY <1>1, FS_Subset
<1>3. Total(g, S) \in Nat /\ Total(g, V) \in Nat
  BY <1>2, TotalIsNat
<1>4. S # V
  BY <1>1, <1>3
<1>5. PICK y \in V : y \notin S
  BY <1>2, <1>4
<1>6. Total(g, V) = g[y] + Total(g, V \ {y})
  BY <1>2, TotalTakes
<1>7. V \ {y} \in SUBSET V /\ V \ {y} # V /\ S \subseteq V \ {y}
  BY <1>2, <1>5
<1>8. Total(g, S) <= Total(g, V \ {y})
  BY <1>1, <1>2, <1>7
<1>9. IsFiniteSet(V \ {y})
  BY <1>2, FS_RemoveElement
<1>10. Total(g, V \ {y}) \in Nat /\ g[y] \in Nat
  BY <1>2, <1>9, TotalIsNat
<1> QED
  BY <1>1, <1>3, <1>6, <1>8, <1>10

LEMMA TotalOfZeros ==
    ASSUME NEW S, IsFiniteSet(S), NEW g, \A x \in S : g[x] = 0
    PROVE  Total(g, S) = 0
<1> DEFINE Failures == {T \in SUBSET S : Total(g, T) # 0}
<1> SUFFICES ASSUME Failures # {} PROVE FALSE
  OBVIOUS
<1>0. Failures \in SUBSET SUBSET S
  BY Zenon
<1> HIDE DEF Failures
<1>1. PICK T \in Failures : \A U \in SUBSET T : U # T => U \notin Failures
  BY <1>0, SmallestFailure
<1> USE DEF Failures
<1>2. T # {}
  BY TotalOfNone
<1>3. PICK y \in T : TRUE
  BY <1>2
<1>4. IsFiniteSet(T) /\ \A x \in T : g[x] \in Int
  BY FS_Subset
<1>5. Total(g, T) = g[y] + Total(g, T \ {y})
  BY <1>4, TotalTakes
<1>6. T \ {y} \in SUBSET T /\ T \ {y} # T
  BY <1>3
<1> QED
  BY <1>1, <1>3, <1>5, <1>6

\* Terms added one by one are sums added.
LEMMA TotalAdds ==
    ASSUME NEW S, IsFiniteSet(S), NEW g, NEW h, NEW k,
           \A x \in S : g[x] \in Int /\ h[x] \in Int /\ k[x] = g[x] + h[x]
    PROVE  Total(k, S) = Total(g, S) + Total(h, S)
<1> DEFINE Failures == {T \in SUBSET S : Total(k, T) # Total(g, T) + Total(h, T)}
<1> SUFFICES ASSUME Failures # {} PROVE FALSE
  OBVIOUS
<1>0. Failures \in SUBSET SUBSET S
  BY Zenon
<1> HIDE DEF Failures
<1>1. PICK T \in Failures : \A U \in SUBSET T : U # T => U \notin Failures
  BY <1>0, SmallestFailure
<1> USE DEF Failures
<1>2. T # {}
  <2>1. Total(k, {}) = Total(g, {}) + Total(h, {})
    BY TotalOfNone
  <2> QED
    BY <2>1
<1>3. Pick(T) \in T /\ IsFiniteSet(T) /\ T \in SUBSET S
  BY <1>2, PickIsIn, FS_Subset
<1>4. /\ Total(g, T) = g[Pick(T)] + Total(g, T \ {Pick(T)})
      /\ Total(h, T) = h[Pick(T)] + Total(h, T \ {Pick(T)})
      /\ Total(k, T) = k[Pick(T)] + Total(k, T \ {Pick(T)})
  BY <1>2, <1>3, TotalPicks
<1>5. T \ {Pick(T)} \in SUBSET T /\ T \ {Pick(T)} # T /\ IsFiniteSet(T \ {Pick(T)})
  BY <1>3, FS_RemoveElement
<1>6. Total(k, T \ {Pick(T)}) = Total(g, T \ {Pick(T)}) + Total(h, T \ {Pick(T)})
  BY <1>1, <1>3, <1>5
<1>7. Total(g, T \ {Pick(T)}) \in Int /\ Total(h, T \ {Pick(T)}) \in Int
  BY <1>3, <1>5, TotalIsInt
<1>8. g[Pick(T)] \in Int /\ h[Pick(T)] \in Int /\ k[Pick(T)] = g[Pick(T)] + h[Pick(T)]
  BY <1>3
<1> HIDE DEF Failures
<1>9. Total(k, T) = Total(g, T) + Total(h, T)
  BY <1>4, <1>6, <1>7, <1>8
<1> QED
  BY <1>1, <1>9 DEF Failures

\* Terms of zero may be left out.
LEMMA TotalOfTheRest ==
    ASSUME NEW T, IsFiniteSet(T), NEW g, \A x \in T : g[x] \in Int, NEW S \in SUBSET T,
           \A x \in T \ S : g[x] = 0
    PROVE  Total(g, T) = Total(g, S)
<1> DEFINE Failures == {V \in SUBSET T : S \subseteq V /\ Total(g, V) # Total(g, S)}
<1> SUFFICES ASSUME Failures # {} PROVE FALSE
  OBVIOUS
<1>0. Failures \in SUBSET SUBSET T
  BY Zenon
<1> HIDE DEF Failures
<1>1. PICK V \in Failures : \A U \in SUBSET V : U # V => U \notin Failures
  BY <1>0, SmallestFailure
<1> USE DEF Failures
<1>2. V \in SUBSET T /\ S \subseteq V /\ IsFiniteSet(V) /\ S # V
  BY <1>1, FS_Subset
<1>3. PICK y \in V : y \notin S
  BY <1>2
<1>4. Total(g, V) = g[y] + Total(g, V \ {y}) /\ g[y] = 0
  BY <1>2, <1>3, TotalTakes
<1>5. V \ {y} \in SUBSET V /\ V \ {y} # V /\ S \subseteq V \ {y} /\ IsFiniteSet(V \ {y})
  BY <1>2, <1>3, FS_RemoveElement
<1>6. Total(g, V \ {y}) = Total(g, S) /\ Total(g, V \ {y}) \in Int
  BY <1>1, <1>2, <1>5, TotalIsInt
<1> QED
  BY <1>1, <1>4, <1>6

\* Of finitely many elements that a transitive relation compares, one comes before the others.
LEMMA SomeIsFirst ==
    ASSUME NEW S, IsFiniteSet(S), S # {}, NEW R,
           \A x, y \in S : x = y \/ <<x, y>> \in R \/ <<y, x>> \in R,
           \A x, y, z \in S : <<x, y>> \in R /\ <<y, z>> \in R => <<x, z>> \in R
    PROVE  \E x \in S : \A y \in S \ {x} : <<x, y>> \in R
<1> DEFINE Leads(x, T) == \A y \in T \ {x} : <<x, y>> \in R
           Failures == {T \in SUBSET S : T # {} /\ \A x \in T : ~Leads(x, T)}
<1> SUFFICES ASSUME Failures # {} PROVE FALSE
  OBVIOUS
<1>0. Failures \in SUBSET SUBSET S
  BY Zenon
<1> HIDE DEF Failures
<1>1. PICK T \in Failures : \A U \in SUBSET T : U # T => U \notin Failures
  BY <1>0, SmallestFailure
<1> USE DEF Failures
<1>2. T \in SUBSET S /\ T # {} /\ \A x \in T : ~Leads(x, T)
  BY <1>1
<1>3. PICK x : x \in T
  BY <1>2
<1>4. T \ {x} # {}
  BY <1>2, <1>3
<1>5. PICK y \in T \ {x} : Leads(y, T \ {x})
  <2>1. T \ {x} \in SUBSET T /\ T \ {x} # T /\ T \ {x} \in SUBSET S
    BY <1>2, <1>3
  <2>2. T \ {x} \notin Failures
    BY <1>1, <2>1
  <2> QED
    BY <1>4, <2>1, <2>2
<1>6. CASE <<y, x>> \in R
  BY <1>2, <1>5, <1>6
<1>7. CASE <<x, y>> \in R
  BY <1>2, <1>3, <1>5, <1>7
<1> QED
  BY <1>2, <1>3, <1>5, <1>6, <1>7

================================================================================
