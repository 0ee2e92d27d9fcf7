-------------------------------- MODULE Sums --------------------------------
(***************************************************************************)
(* What the proofs need to know of the community modules' sum of a         *)
(* function over a finite set, a fold that takes the elements in the order *)
(* CHOOSE picks them: that the order does not matter.  Induction is over   *)
(* the subsets of the set: a smallest counterexample is shown to be none.  *)
(***************************************************************************)
EXTENDS Integers, FiniteSets, Functions, FiniteSetTheorems, WellFoundedInduction, TLAPS

\* The element a fold takes from a set first.
Chosen(s) == CHOOSE x \in s : TRUE

\* The function by which a fold over the subsets of A is defined.
Unfolded(F, f, A) ==
    F = [s \in SUBSET A |-> IF s = {} THEN 0 ELSE f[Chosen(s)] + F[s \ {Chosen(s)}]]

\* The equations it satisfies.
IsFold(F, f, A) ==
    /\ F[{}] = 0
    /\ \A s \in SUBSET A : s # {} => F[s] = f[Chosen(s)] + F[s \ {Chosen(s)}]

\* A set of subsets of a finite set that is not empty has a smallest member.
LEMMA SmallestSubset ==
    ASSUME NEW A, IsFiniteSet(A), NEW B, B \subseteq SUBSET A, B # {}
    PROVE  \E T \in B : \A U \in B : U \subseteq T => U = T
  <1>1. IsWellFoundedOn(StrictSubsetOrdering(A), SUBSET A)
    BY FS_StrictSubsetOrderingWellFounded, FS_FiniteSubsetsOfFinite
  <1>2. PICK T \in B : \A U \in B : ~(<<U, T>> \in StrictSubsetOrdering(A))
    BY <1>1, WFMin
  <1> QED
    BY <1>2 DEF StrictSubsetOrdering

\* Where the equations of two folds over equal functions meet, they agree.
LEMMA FoldIsUnique ==
    ASSUME NEW A, IsFiniteSet(A), NEW f, NEW F, NEW G, IsFold(F, f, A), IsFold(G, f, A)
    PROVE  F[A] = G[A]
  <1> DEFINE B == {s \in SUBSET A : F[s] # G[s]}
  <1>0. B \subseteq SUBSET A
    OBVIOUS
  <1>1. ASSUME B # {} PROVE FALSE
    <2>1. PICK T \in B : \A U \in B : U \subseteq T => U = T
      <3> HIDE DEF B
      <3> QED
        BY <1>0, <1>1, SmallestSubset
    <2>2. T # {}
      BY DEF IsFold
    <2>3. Chosen(T) \in T
      BY <2>2 DEF Chosen
    <2>4. T \ {Chosen(T)} \notin B
      BY <2>1, <2>3
    <2>5. F[T \ {Chosen(T)}] = G[T \ {Chosen(T)}]
      BY <2>4
    <2> QED
      BY <2>2, <2>5 DEF IsFold
  <1> QED
    BY <1>1

\* Which makes it one for every subset.
LEMMA UnfoldedIsFold ==
    ASSUME NEW A, NEW f, NEW F, Unfolded(F, f, A), NEW S \in SUBSET A
    PROVE  IsFold(F, f, S)
  BY DEF Unfolded, IsFold

\* The fold exists.
LEMMA FoldExists ==
    ASSUME NEW A, IsFiniteSet(A), NEW f
    PROVE  \E F : Unfolded(F, f, A)
  <1> DEFINE B == {s \in SUBSET A : ~ \E F : Unfolded(F, f, s)}
  <1>0. B \subseteq SUBSET A
    OBVIOUS
  <1>1. ASSUME B # {} PROVE FALSE
    <2>1. PICK T \in B : \A U \in B : U \subseteq T => U = T
      <3> HIDE DEF B
      <3> QED
        BY <1>0, <1>1, SmallestSubset
    <2> DEFINE G(s) == CHOOSE F : Unfolded(F, f, s)
               H == [s \in SUBSET T |->
                       IF s = {} THEN 0
                         ELSE f[Chosen(s)] + G(s \ {Chosen(s)})[s \ {Chosen(s)}]]
    <2>2. ASSUME NEW s \in SUBSET T, s # T PROVE Unfolded(G(s), f, s) /\ IsFiniteSet(s)
      <3>1. \E F : Unfolded(F, f, s)
        BY <2>1, <2>2
      <3> QED
        BY <2>1, <3>1, FS_Subset
    <2>3. ASSUME NEW s \in SUBSET T, s # {}
          PROVE  Chosen(s) \in s /\ s \ {Chosen(s)} \in SUBSET T /\ s \ {Chosen(s)} # T
      BY <2>3 DEF Chosen
    <2>4. ASSUME NEW s \in SUBSET T, s # T PROVE H[s] = G(s)[s]
      <3>1. CASE s = {}
        <4>1. Unfolded(G(s), f, s)
          BY <2>2, <2>4
        <4> HIDE DEF G
        <4>2. G(s)[s] = 0
          BY <3>1, <4>1 DEF Unfolded
        <4>3. H[s] = 0
          BY <3>1
        <4> QED
          BY <4>2, <4>3
      <3>2. CASE s # {}
        <4> DEFINE r == s \ {Chosen(s)}
        <4>1. r \in SUBSET T /\ r # T /\ r \in SUBSET s
          BY <2>3, <3>2
        <4>2. Unfolded(G(s), f, s) /\ Unfolded(G(r), f, r) /\ IsFiniteSet(r)
          BY <2>2, <2>4, <4>1
        <4>3. H[s] = f[Chosen(s)] + G(r)[r]
          BY <3>2
        <4> HIDE DEF H, G
        <4>4. G(s)[s] = f[Chosen(s)] + G(s)[r]
          BY <3>2, <4>2 DEF Unfolded
        <4>5. IsFold(G(s), f, r) /\ IsFold(G(r), f, r)
          BY <4>1, <4>2, UnfoldedIsFold
        <4> HIDE DEF r
        <4>6. G(s)[r] = G(r)[r]
          BY <4>2, <4>5, FoldIsUnique
        <4> QED
          BY <4>3, <4>4, <4>6
      <3> QED
        BY <3>1, <3>2
    <2>5. \A s \in SUBSET T : s # {} =>
             G(s \ {Chosen(s)})[s \ {Chosen(s)}] = H[s \ {Chosen(s)}]
      BY <2>3, <2>4
    <2>6. H = [s \in SUBSET T |-> IF s = {} THEN 0 ELSE f[Chosen(s)] + H[s \ {Chosen(s)}]]
      <3> HIDE DEF G
      <3> QED
        BY <2>5
    <2>7. Unfolded(H, f, T)
      BY <2>6 DEF Unfolded
    <2> QED
      BY <2>1, <2>7
  <1>2. A \notin B
    BY <1>1
  <1> QED
    BY <1>2

\* The sum of nothing is zero, and one element after the other is added.
LEMMA SumUnfolds ==
    ASSUME NEW A, IsFiniteSet(A), NEW f
    PROVE  /\ SumFunctionOnSet(f, {}) = 0
           /\ A # {} => SumFunctionOnSet(f, A) =
                  f[Chosen(A)] + SumFunctionOnSet(f, A \ {Chosen(A)})
  <1> DEFINE Fold(S) == CHOOSE F : Unfolded(F, f, S)
  <1>1. \A S : SumFunctionOnSet(f, S) = Fold(S)[S]
    BY DEF SumFunctionOnSet, FoldFunctionOnSet, MapThenFoldSet, Unfolded, Chosen
  <1>2. \A S : IsFiniteSet(S) => Unfolded(Fold(S), f, S)
    BY FoldExists
  <1> HIDE DEF Fold
  <1>3. SumFunctionOnSet(f, {}) = 0
    <2>1. Unfolded(Fold({}), f, {})
      BY <1>2, FS_EmptySet
    <2>2. Fold({})[{}] = 0
      BY <2>1 DEF Unfolded
    <2> QED
      BY <1>1, <2>2
  <1>4. ASSUME A # {}
        PROVE  SumFunctionOnSet(f, A) = f[Chosen(A)] + SumFunctionOnSet(f, A \ {Chosen(A)})
    <2> DEFINE R == A \ {Chosen(A)}
    <2>1. R \in SUBSET A /\ IsFiniteSet(R)
      BY FS_Subset
    <2>2. Unfolded(Fold(A), f, A) /\ Unfolded(Fold(R), f, R)
      BY <1>2, <2>1
    <2>3. Fold(A)[A] = f[Chosen(A)] + Fold(A)[R]
      BY <1>4, <2>2 DEF Unfolded
    <2>4. IsFold(Fold(A), f, R) /\ IsFold(Fold(R), f, R)
      BY <2>1, <2>2, UnfoldedIsFold
    <2> HIDE DEF R
    <2>5. Fold(A)[R] = Fold(R)[R]
      BY <2>1, <2>4, FoldIsUnique
    <2>6. SumFunctionOnSet(f, A) = f[Chosen(A)] + SumFunctionOnSet(f, R)
      BY <1>1, <2>3, <2>5
    <2> QED
      BY <2>6 DEF R
  <1> QED
    BY <1>3, <1>4

-----------------------------------------------------------------------------
(* What follows from that                                                  *)

\* A sum depends on the summands only.
LEMMA SumSame ==
    ASSUME NEW A, IsFiniteSet(A), NEW f, NEW g, \A x \in A : f[x] = g[x]
    PROVE  SumFunctionOnSet(f, A) = SumFunctionOnSet(g, A)
  <1> DEFINE B == {s \in SUBSET A : SumFunctionOnSet(f, s) # SumFunctionOnSet(g, s)}
  <1>0. B \subseteq SUBSET A
    OBVIOUS
  <1>1. ASSUME B # {} PROVE FALSE
    <2>1. PICK T \in B : \A U \in B : U \subseteq T => U = T
      <3> HIDE DEF B
      <3> QED
        BY <1>0, <1>1, SmallestSubset
    <2>2. IsFiniteSet(T) /\ T \subseteq A
      BY FS_Subset
    <2>3. T # {}
      BY <2>2, SumUnfolds
    <2> DEFINE R == T \ {Chosen(T)}
    <2>4. Chosen(T) \in T /\ R \notin B
      BY <2>1, <2>3 DEF Chosen
    <2>5. f[Chosen(T)] = g[Chosen(T)] /\ SumFunctionOnSet(f, R) = SumFunctionOnSet(g, R)
      BY <2>2, <2>4
    <2> HIDE DEF R
    <2>6. SumFunctionOnSet(f, T) = f[Chosen(T)] + SumFunctionOnSet(f, R)
      BY <2>2, <2>3, SumUnfolds DEF R
    <2>7. SumFunctionOnSet(g, T) = g[Chosen(T)] + SumFunctionOnSet(g, R)
      BY <2>2, <2>3, SumUnfolds DEF R
    <2> QED
      BY <2>5, <2>6, <2>7
  <1> QED
    BY <1>1

\* Integers sum up to an integer.
LEMMA SumInt ==
    ASSUME NEW A, IsFiniteSet(A), NEW f, \A x \in A : f[x] \in Int
    PROVE  SumFunctionOnSet(f, A) \in Int
  <1> DEFINE B == {s \in SUBSET A : SumFunctionOnSet(f, s) \notin Int}
  <1>0. B \subseteq SUBSET A
    OBVIOUS
  <1>1. ASSUME B # {} PROVE FALSE
    <2>1. PICK T \in B : \A U \in B : U \subseteq T => U = T
      <3> HIDE DEF B
      <3> QED
        BY <1>0, <1>1, SmallestSubset
    <2>2. IsFiniteSet(T) /\ T \subseteq A
      BY FS_Subset
    <2>3. T # {}
      BY <2>2, SumUnfolds
    <2>4. Chosen(T) \in T /\ T \ {Chosen(T)} \notin B
      BY <2>1, <2>3 DEF Chosen
    <2>5. f[Chosen(T)] \in Int /\ SumFunctionOnSet(f, T \ {Chosen(T)}) \in Int
      BY <2>2, <2>4
    <2>6. SumFunctionOnSet(f, T) = f[Chosen(T)] + SumFunctionOnSet(f, T \ {Chosen(T)})
      BY <2>2, <2>3, SumUnfolds
    <2> QED
      BY <2>5, <2>6
  <1> QED
    BY <1>1

\* Any element may be added last.
LEMMA SumSplit ==
    ASSUME NEW A, IsFiniteSet(A), NEW f, \A x \in A : f[x] \in Int, NEW e \in A
    PROVE  SumFunctionOnSet(f, A) = SumFunctionOnSet(f, A \ {e}) + f[e]
  <1> DEFINE Splits(s) ==
               \A x \in s : SumFunctionOnSet(f, s) = SumFunctionOnSet(f, s \ {x}) + f[x]
             B == {s \in SUBSET A : ~Splits(s)}
  <1>0. B \subseteq SUBSET A
    OBVIOUS
  <1>1. ASSUME B # {} PROVE FALSE
    <2>1. PICK T \in B : \A U \in B : U \subseteq T => U = T
      <3> HIDE DEF B
      <3> QED
        BY <1>0, <1>1, SmallestSubset
    <2>2. IsFiniteSet(T) /\ T \subseteq A
      BY FS_Subset
    <2>3. PICK x \in T : SumFunctionOnSet(f, T) # SumFunctionOnSet(f, T \ {x}) + f[x]
      OBVIOUS
    <2> DEFINE c == Chosen(T)
               R == T \ {c, x}
    <2>4. c \in T
      BY <2>3 DEF Chosen
    <2>5. \A s \in SUBSET A : SumFunctionOnSet(f, s) \in Int
      <3>1. \A s \in SUBSET A : IsFiniteSet(s)
        BY FS_Subset
      <3> QED
        BY <3>1, SumInt
    <2>6. SumFunctionOnSet(f, T) = f[c] + SumFunctionOnSet(f, T \ {c})
      BY <2>2, <2>3, SumUnfolds
    <2>7. f[c] \in Int /\ f[x] \in Int
      BY <2>2, <2>4
    <2>8. x # c
      <3>1. SumFunctionOnSet(f, T \ {c}) \in Int
        BY <2>2, <2>5
      <3>2. SumFunctionOnSet(f, T) = SumFunctionOnSet(f, T \ {c}) + f[c]
        BY <2>6, <2>7, <3>1
      <3> QED
        BY <2>3, <3>2
    <2>9. Splits(T \ {c}) /\ Splits(T \ {x})
      BY <2>1, <2>2, <2>3, <2>4
    <2>10. /\ SumFunctionOnSet(f, T \ {c}) = SumFunctionOnSet(f, R) + f[x]
           /\ SumFunctionOnSet(f, T \ {x}) = SumFunctionOnSet(f, R) + f[c]
      <3>1. (T \ {c}) \ {x} = R /\ (T \ {x}) \ {c} = R /\ x \in T \ {c} /\ c \in T \ {x}
        BY <2>3, <2>4, <2>8
      <3> QED
        BY <2>9, <3>1
    <2>11. SumFunctionOnSet(f, R) \in Int
      BY <2>2, <2>5
    <2> QED
      BY <2>3, <2>6, <2>7, <2>10, <2>11
  <1> QED
    BY <1>1

\* One summand is replaced.
LEMMA SumUpdate ==
    ASSUME NEW A, IsFiniteSet(A), NEW f \in [A -> Int], NEW e \in A, NEW v \in Int
    PROVE  SumFunction([f EXCEPT ![e] = v]) = SumFunction(f) - f[e] + v
  <1> DEFINE g == [f EXCEPT ![e] = v]
             R == A \ {e}
  <1>1. DOMAIN f = A /\ g \in [A -> Int] /\ DOMAIN g = A /\ g[e] = v /\ \A x \in R : f[x] = g[x]
    OBVIOUS
  <1>2. /\ \A x \in A : f[x] \in Int
        /\ \A x \in A : g[x] \in Int
        /\ IsFiniteSet(R) /\ \A x \in R : f[x] \in Int
    BY <1>1, FS_Subset
  <1> HIDE DEF g
  <1>3. SumFunctionOnSet(f, A) = SumFunctionOnSet(f, R) + f[e]
    BY <1>2, SumSplit
  <1>4. SumFunctionOnSet(g, A) = SumFunctionOnSet(g, R) + g[e]
    BY <1>2, SumSplit
  <1>5. SumFunctionOnSet(g, R) = SumFunctionOnSet(f, R) /\ SumFunctionOnSet(f, R) \in Int
    BY <1>1, <1>2, SumSame, SumInt
  <1>6. SumFunction(g) = SumFunction(f) - f[e] + v
    BY <1>1, <1>2, <1>3, <1>4, <1>5 DEF SumFunction
  <1> QED
    BY <1>6 DEF g

\* A summand is added.
LEMMA SumExtend ==
    ASSUME NEW A, IsFiniteSet(A), NEW f \in [A -> Int], NEW e, e \notin A,
           NEW g \in [A \cup {e} -> Int], \A x \in A : g[x] = f[x]
    PROVE  SumFunction(g) = SumFunction(f) + g[e]
  <1>1. IsFiniteSet(A \cup {e}) /\ (A \cup {e}) \ {e} = A /\ e \in A \cup {e}
    BY FS_AddElement
  <1>2. \A x \in A \cup {e} : g[x] \in Int
    OBVIOUS
  <1>3. SumFunctionOnSet(g, A \cup {e}) = SumFunctionOnSet(g, A) + g[e]
    BY <1>1, <1>2, SumSplit
  <1>4. SumFunctionOnSet(g, A) = SumFunctionOnSet(f, A)
    BY SumSame
  <1>5. DOMAIN f = A /\ DOMAIN g = A \cup {e}
    OBVIOUS
  <1> QED
    BY <1>3, <1>4, <1>5 DEF SumFunction

\* What is never negative sums up to no less than any part of it.
LEMMA SumBounds ==
    ASSUME NEW A, IsFiniteSet(A), NEW f \in [A -> Nat]
    PROVE  /\ SumFunction(f) \in Nat
           /\ \A x \in A : f[x] <= SumFunction(f)
  <1> DEFINE B == {s \in SUBSET A : ~(SumFunctionOnSet(f, s) \in Nat)}
  <1>0. B \subseteq SUBSET A
    OBVIOUS
  <1>1. ASSUME B # {} PROVE FALSE
    <2>1. PICK T \in B : \A U \in B : U \subseteq T => U = T
      <3> HIDE DEF B
      <3> QED
        BY <1>0, <1>1, SmallestSubset
    <2>2. IsFiniteSet(T) /\ T \subseteq A
      BY FS_Subset
    <2>3. T # {}
      <3>1. SumFunctionOnSet(f, {}) = 0
        BY SumUnfolds
      <3> QED
        BY <3>1
    <2>4. Chosen(T) \in T /\ T \ {Chosen(T)} \notin B
      BY <2>1, <2>3 DEF Chosen
    <2>5. f[Chosen(T)] \in Nat /\ SumFunctionOnSet(f, T \ {Chosen(T)}) \in Nat
      BY <2>2, <2>4
    <2>6. SumFunctionOnSet(f, T) = f[Chosen(T)] + SumFunctionOnSet(f, T \ {Chosen(T)})
      BY <2>2, <2>3, SumUnfolds
    <2> QED
      BY <2>5, <2>6
  <1>2. \A s \in SUBSET A : SumFunctionOnSet(f, s) \in Nat
    BY <1>1
  <1>3. DOMAIN f = A /\ \A x \in A : f[x] \in Nat
    OBVIOUS
  <1>4. ASSUME NEW x \in A PROVE f[x] <= SumFunctionOnSet(f, A)
    <2>1. SumFunctionOnSet(f, A) = SumFunctionOnSet(f, A \ {x}) + f[x]
      BY <1>3, SumSplit
    <2>2. SumFunctionOnSet(f, A \ {x}) \in Nat /\ f[x] \in Nat
      BY <1>2, <1>3
    <2> QED
      BY <2>1, <2>2
  <1> QED
    BY <1>2, <1>3, <1>4 DEF SumFunction

\* Equal summands.
LEMMA SumConstant ==
    ASSUME NEW A, IsFiniteSet(A), NEW k \in Int
    PROVE  SumFunction([x \in A |-> k]) = Cardinality(A) * k
  <1> DEFINE f == [x \in A |-> k]
             B == {s \in SUBSET A : SumFunctionOnSet(f, s) # Cardinality(s) * k}
  <1>0. B \subseteq SUBSET A /\ DOMAIN f = A
    OBVIOUS
  <1>1. ASSUME B # {} PROVE FALSE
    <2>1. PICK T \in B : \A U \in B : U \subseteq T => U = T
      <3> HIDE DEF B
      <3> QED
        BY <1>0, <1>1, SmallestSubset
    <2>2. IsFiniteSet(T) /\ T \subseteq A
      BY FS_Subset
    <2>3. T # {}
      <3> HIDE DEF f
      <3>1. SumFunctionOnSet(f, {}) = 0 /\ Cardinality({}) = 0
        BY SumUnfolds, FS_EmptySet
      <3> QED
        BY <3>1
    <2> DEFINE R == T \ {Chosen(T)}
    <2>4. Chosen(T) \in T /\ R \notin B /\ R \in SUBSET A /\ f[Chosen(T)] = k
      BY <2>1, <2>2, <2>3 DEF Chosen
    <2>5. SumFunctionOnSet(f, R) = Cardinality(R) * k
      BY <2>4
    <2>6. Cardinality(T) \in Nat /\ Cardinality(R) = Cardinality(T) - 1
      BY <2>2, <2>4, FS_CardinalityType, FS_RemoveElement
    <2>7. SumFunctionOnSet(f, T) = k + SumFunctionOnSet(f, R)
      BY <2>2, <2>3, <2>4, SumUnfolds
    <2> HIDE DEF R, f
    <2>8. \A n \in Nat : k + (n - 1) * k = n * k
      OBVIOUS
    <2>9. SumFunctionOnSet(f, T) = Cardinality(T) * k
      BY <2>5, <2>6, <2>7, <2>8
    <2> QED
      BY <2>9
  <1>2. SumFunctionOnSet(f, A) = Cardinality(A) * k
    BY <1>1
  <1> QED
    BY <1>0, <1>2 DEF SumFunction

\* The sum of a function into the integers is one.
LEMMA SumInteger ==
    ASSUME NEW A, IsFiniteSet(A), NEW f \in [A -> Int]
    PROVE  SumFunction(f) \in Int
  BY SumInt DEF SumFunction

\* Nothing is the sum of zeros.
LEMMA SumZeros ==
    ASSUME NEW A, IsFiniteSet(A)
    PROVE  SumFunction([x \in A |-> 0]) = 0
  <1>1. 0 \in Int /\ Cardinality(A) * 0 = 0
    BY FS_CardinalityType
  <1>2. SumFunction([x \in A |-> 0]) = Cardinality(A) * 0
    BY <1>1, SumConstant, Zenon
  <1> QED
    BY <1>1, <1>2, Zenon
=============================================================================
