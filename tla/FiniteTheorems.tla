----------------------------- MODULE FiniteTheorems -----------------------------
(***************************************************************************)
(* Smallest sets, least numbers, and sums over finite sets as              *)
(* MapThenSumSet of the community modules computes them: one chosen        *)
(* element after the other.  Proved here: it does not matter which.  The   *)
(* inductions are on a smallest set for which the claim fails.             *)
(***************************************************************************)
EXTENDS Integers, FiniteSetsExt, FiniteSetTheorems, TLAPS

\* The sum of w[s] over the elements s of S.
Sum(w, S) == MapThenSumSet(LAMBDA s : w[s], S)

\* The element that is added next when those of S are left.
Pick(S) == CHOOSE s \in S : TRUE

\* What the fold's recursive function is, if there is one.
IsFold(f, w, S) ==
  f = [T \in SUBSET S |-> IF T = {} THEN 0 ELSE w[Pick(T)] + f[T \ {Pick(T)}]]
Fold(w, S) == CHOOSE f : IsFold(f, w, S)

\* A family of subsets of a finite set has a smallest member.
LEMMA SmallestSet ==
  ASSUME NEW S, IsFiniteSet(S), NEW C \in SUBSET (SUBSET S), C # {}
  PROVE  \E T \in C : \A U \in C : U \subseteq T => U = T
<1>1. FiniteSubsetsOf(S) = SUBSET S
  BY FS_FiniteSubsetsOfFinite
<1>2. IsWellFoundedOn(StrictSubsetOrdering(S), SUBSET S)
  BY <1>1, FS_StrictSubsetOrderingWellFounded
<1>3. PICK T \in C : \A U \in C : <<U, T>> \notin StrictSubsetOrdering(S)
  BY <1>2, WFMin
<1>4. \A U \in C : U \subseteq T => U = T
  BY <1>3 DEF StrictSubsetOrdering
<1> QED BY <1>4

\* A set of numbers has a least one.
LEMMA LeastNumber ==
  ASSUME NEW W \in SUBSET Nat, W # {}
  PROVE  \E w \in W : \A v \in W : w <= v
<1>1. PICK u \in W : TRUE
  OBVIOUS
<1> DEFINE S == 0..u
           C == {0..v : v \in {x \in W : x <= u}}
<1>2. C # {} /\ C \in SUBSET (SUBSET S)
  BY <1>1
<1>3. IsFiniteSet(S)
  BY <1>1, FS_Interval
<1> HIDE DEF S, C
<1>4. PICK T \in C : \A U \in C : U \subseteq T => U = T
  BY <1>2, <1>3, SmallestSet
<1>5. PICK w \in W : T = 0..w /\ w <= u
  BY <1>4 DEF C
<1>6. ASSUME NEW v \in W, v < w
      PROVE  FALSE
  <2>1. 0..v \in C
    BY <1>5, <1>6 DEF C
  <2>2. 0..v \subseteq 0..w /\ w \in 0..w /\ w \notin 0..v
    BY <1>6
  <2> QED BY <1>4, <1>5, <2>1, <2>2
<1> QED BY <1>6

LEMMA PickIn == \A S : S # {} => Pick(S) \in S
  BY DEF Pick

\* Two folds agree where both are defined.
LEMMA FoldsAgree ==
  ASSUME NEW R, IsFiniteSet(R), NEW S, NEW T, NEW f, NEW g, NEW w,
         IsFold(f, w, S), IsFold(g, w, T), R \subseteq S, R \subseteq T
  PROVE  f[R] = g[R]
<1> DEFINE C == {U \in SUBSET R : f[U] # g[U]}
<1>1. SUFFICES ASSUME C # {}
               PROVE  FALSE
  OBVIOUS
<1>2. PICK U \in C : \A V \in C : V \subseteq U => V = U
  <2>1. C \in SUBSET (SUBSET R)
    OBVIOUS
  <2> HIDE DEF C
  <2> QED BY <1>1, <2>1, SmallestSet
<1>3. f[U] = IF U = {} THEN 0 ELSE w[Pick(U)] + f[U \ {Pick(U)}]
  BY DEF IsFold
<1>4. g[U] = IF U = {} THEN 0 ELSE w[Pick(U)] + g[U \ {Pick(U)}]
  BY DEF IsFold
<1>5. U # {} => f[U \ {Pick(U)}] = g[U \ {Pick(U)}]
  BY <1>2, PickIn
<1> QED BY <1>2, <1>3, <1>4, <1>5

\* There is one on every finite set.
LEMMA FoldExists ==
  ASSUME NEW S, IsFiniteSet(S), NEW w
  PROVE  IsFold(Fold(w, S), w, S)
<1> DEFINE C == {T \in SUBSET S : ~ \E f : IsFold(f, w, T)}
<1>1. C = {}
  <2>1. SUFFICES ASSUME C # {}
                 PROVE  FALSE
    OBVIOUS
  <2>2. PICK T \in C : \A U \in C : U \subseteq T => U = T
    <3>1. C \in SUBSET (SUBSET S)
      OBVIOUS
    <3> HIDE DEF C
    <3> QED BY <2>1, <3>1, SmallestSet
  <2>3. IsFiniteSet(T)
    BY FS_Subset
  <2>4. \A U \in SUBSET T : U # T => IsFold(Fold(w, U), w, U)
    BY <2>2 DEF Fold
  <2> DEFINE Rest(U) == U \ {Pick(U)}
             f == [U \in SUBSET T |-> IF U = {} THEN 0
                                      ELSE w[Pick(U)] + Fold(w, Rest(U))[Rest(U)]]
  <2>5. ASSUME NEW U \in SUBSET T, U # {}
        PROVE  f[Rest(U)] = Fold(w, Rest(U))[Rest(U)]
    <3>1. Rest(U) \in SUBSET T /\ Rest(U) # T /\ IsFold(Fold(w, Rest(U)), w, Rest(U))
      BY <2>4, <2>5, PickIn
    <3>2. CASE Rest(U) = {}
      BY <3>1, <3>2 DEF IsFold
    <3>3. CASE Rest(U) # {}
      <4> DEFINE V == Rest(U)
      <4>1. f[V] = w[Pick(V)] + Fold(w, Rest(V))[Rest(V)]
        BY <3>1, <3>3
      <4>2. Fold(w, V)[V] = w[Pick(V)] + Fold(w, V)[Rest(V)]
        BY <3>1, <3>3 DEF IsFold
      <4>3. Rest(V) \in SUBSET T /\ Rest(V) \subseteq V /\ Rest(V) # T
        BY <3>1, <3>3, PickIn
      <4>4. IsFiniteSet(Rest(V)) /\ IsFold(Fold(w, Rest(V)), w, Rest(V))
        BY <4>3, <2>4, <2>3, FS_Subset
      <4>5. Fold(w, V)[Rest(V)] = Fold(w, Rest(V))[Rest(V)]
        BY <3>1, <4>3, <4>4, FoldsAgree
      <4> QED BY <4>1, <4>2, <4>5
    <3> QED BY <3>2, <3>3
  <2>6. IsFold(f, w, T)
    BY <2>5 DEF IsFold
  <2> QED BY <2>6, <2>2
<1> QED BY <1>1 DEF Fold

\* The recursion, in terms of Sum.
LEMMA SumIsFold ==
  ASSUME NEW S, NEW w
  PROVE  Sum(w, S) = Fold(w, S)[S]
  BY DEF Sum, Fold, IsFold, Pick, MapThenSumSet, MapThenFoldSet

THEOREM SumEmpty == \A w : Sum(w, {}) = 0
<1> SUFFICES ASSUME NEW w
             PROVE  Sum(w, {}) = 0
  OBVIOUS
<1>1. IsFold(Fold(w, {}), w, {})
  BY FoldExists, FS_EmptySet
<1> QED BY <1>1, SumIsFold DEF IsFold

LEMMA SumPick ==
  ASSUME NEW S, IsFiniteSet(S), S # {}, NEW w
  PROVE  Sum(w, S) = w[Pick(S)] + Sum(w, S \ {Pick(S)})
<1> DEFINE R == S \ {Pick(S)}
<1>1. IsFold(Fold(w, S), w, S)
  BY FoldExists
<1>2. IsFiniteSet(R) /\ IsFold(Fold(w, R), w, R)
  BY FS_Subset, FoldExists
<1>3. Fold(w, S)[R] = Fold(w, R)[R]
  BY <1>1, <1>2, FoldsAgree
<1>4. Fold(w, S)[S] = w[Pick(S)] + Fold(w, S)[R]
  BY <1>1 DEF IsFold
<1> QED BY <1>3, <1>4, SumIsFold

\* A sum of integers is one.
THEOREM SumType ==
  ASSUME NEW S, IsFiniteSet(S), NEW w, \A s \in S : w[s] \in Int
  PROVE  Sum(w, S) \in Int
<1> DEFINE C == {T \in SUBSET S : Sum(w, T) \notin Int}
<1>1. SUFFICES ASSUME C # {}
               PROVE  FALSE
  OBVIOUS
<1>2. PICK T \in C : \A U \in C : U \subseteq T => U = T
  <2>1. C \in SUBSET (SUBSET S)
    OBVIOUS
  <2> HIDE DEF C
  <2> QED BY <1>1, <2>1, SmallestSet
<1>3. T # {} /\ IsFiniteSet(T)
  <2>1. T \in SUBSET S /\ Sum(w, T) \notin Int
    OBVIOUS
  <2>2. T # {}
    BY <2>1, SumEmpty
  <2> QED BY <2>1, <2>2, FS_Subset
<1>4. Pick(T) \in T
  BY <1>3, PickIn
<1>5. Sum(w, T \ {Pick(T)}) \in Int
  BY <1>2, <1>4
<1>6. Sum(w, T) = w[Pick(T)] + Sum(w, T \ {Pick(T)})
  BY <1>3, SumPick
<1> QED BY <1>4, <1>5, <1>6

\* Any element may be taken first.
THEOREM SumRemove ==
  ASSUME NEW S, IsFiniteSet(S), NEW w, \A s \in S : w[s] \in Int, NEW x \in S
  PROVE  Sum(w, S) = w[x] + Sum(w, S \ {x})
<1> DEFINE Fails(T) == \E y \in T : Sum(w, T) # w[y] + Sum(w, T \ {y})
           C == {T \in SUBSET S : Fails(T)}
<1>1. SUFFICES ASSUME C # {}
               PROVE  FALSE
  OBVIOUS
<1>2. PICK T \in C : \A U \in C : U \subseteq T => U = T
  <2>1. C \in SUBSET (SUBSET S)
    OBVIOUS
  <2> HIDE DEF C
  <2> QED BY <1>1, <2>1, SmallestSet
<1>3. PICK y \in T : Sum(w, T) # w[y] + Sum(w, T \ {y})
  OBVIOUS
<1> DEFINE p == Pick(T)
           rest == Sum(w, (T \ {p}) \ {y})
<1>4. T \in SUBSET S /\ p \in T /\ IsFiniteSet(T)
  BY <1>3, PickIn, FS_Subset
<1>5. Sum(w, T) = w[p] + Sum(w, T \ {p})
  BY <1>3, <1>4, SumPick
<1>6. y # p
  BY <1>3, <1>5
<1>7. \A U \in SUBSET T : U # T => \A z \in U : Sum(w, U) = w[z] + Sum(w, U \ {z})
  BY <1>2, <1>4
<1> HIDE DEF p, C, Fails
<1>8. Sum(w, T \ {p}) = w[y] + rest
  BY <1>4, <1>6, <1>7
<1>9. Sum(w, T \ {y}) = w[p] + rest
  <2>1. (T \ {p}) \ {y} = (T \ {y}) \ {p}
    OBVIOUS
  <2>2. Sum(w, T \ {y}) = w[p] + Sum(w, (T \ {y}) \ {p})
    BY <1>4, <1>6, <1>7
  <2> QED BY <2>1, <2>2
<1>10. rest \in Int
  <2>1. IsFiniteSet((T \ {p}) \ {y}) /\ (T \ {p}) \ {y} \subseteq S
    BY <1>4, FS_Subset
  <2> QED BY <2>1, SumType
<1>11. w[p] \in Int /\ w[y] \in Int
  BY <1>4
<1> HIDE DEF rest
<1>12. w[p] + (w[y] + rest) = w[y] + (w[p] + rest)
  BY <1>10, <1>11
<1> QED BY <1>3, <1>5, <1>8, <1>9, <1>12

\* What is added does not matter outside of the set.
THEOREM SumSame ==
  ASSUME NEW S, IsFiniteSet(S), NEW v, NEW w, \A s \in S : v[s] = w[s]
  PROVE  Sum(v, S) = Sum(w, S)
<1> DEFINE C == {T \in SUBSET S : Sum(v, T) # Sum(w, T)}
<1>1. SUFFICES ASSUME C # {}
               PROVE  FALSE
  OBVIOUS
<1>2. PICK T \in C : \A U \in C : U \subseteq T => U = T
  <2>1. C \in SUBSET (SUBSET S)
    OBVIOUS
  <2> HIDE DEF C
  <2> QED BY <1>1, <2>1, SmallestSet
<1>3. /\ T # {}
      /\ IsFiniteSet(T)
  BY SumEmpty, FS_Subset
<1>4. Pick(T) \in T
  BY <1>3, PickIn
<1>5. Sum(v, T \ {Pick(T)}) = Sum(w, T \ {Pick(T)})
  BY <1>2, <1>4
<1> QED BY <1>3, <1>4, <1>5, SumPick
=============================================================================
