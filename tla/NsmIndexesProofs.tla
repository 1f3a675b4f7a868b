--------------------------- MODULE NsmIndexesProofs ---------------------------
(***************************************************************************)
(* What TLAPS proves about the indexes of the namespace manager: the       *)
(* bookkeeping by differences stays equal to what the manifests say, for   *)
(* any number of objects, OSDs, chunks and fragments and any sizes, and    *)
(* the manager with its indexes implements the one without.                *)
(*                                                                         *)
(* The first part is about sums over finite sets, by induction (stated      *)
(* with sets); the second is about the indexes.                            *)
(***************************************************************************)
EXTENDS NsmIndexes, NsmProofs, FiniteSetTheorems, WellFoundedInduction, TLAPS

-----------------------------------------------------------------------------
(* Induction over numbers and finite sets: what holds of all elements of a  *)
(* set is that they are in another one.                                     *)

(* A set of natural numbers that is not empty has a least element.          *)
LEMMA LeastExists ==
    ASSUME NEW S \in SUBSET Nat, S # {}
    PROVE  \E x \in S : \A y \in S : x <= y
<1> DEFINE R == OpToRel(<, Nat)
<1>1. IsWellFoundedOn(R, Nat)
  BY NatLessThanWellFounded, Zenon
<1>2. \A x, y \in Nat : <<x, y>> \in R <=> x < y
  BY Zenon DEF OpToRel
<1> HIDE DEF R
<1>3. PICK x \in S : \A y \in S : ~ (<<y, x>> \in R)
  BY <1>1, WFMin, Zenon
<1>4. \A y \in S : ~(y < x) /\ x \in Nat /\ y \in Nat
  BY <1>2, <1>3, Zenon
<1> QED
  BY <1>4

(* It is what Min chooses.                                                  *)
LEMMA Least ==
    ASSUME NEW S \in SUBSET Nat, S # {}
    PROVE  Min(S) \in S /\ \A y \in S : Min(S) <= y
BY LeastExists, Zenon DEF Min

(* A set with 0 that is closed under successor has all natural numbers: the *)
(* least missing one would follow one that is not missing.                  *)
LEMMA SetInduction ==
    ASSUME NEW S, 0 \in S, \A n \in Nat : n \in S => n + 1 \in S
    PROVE  Nat \subseteq S
<1> DEFINE T == Nat \ S
<1> SUFFICES ASSUME T # {} PROVE FALSE
  BY Zenon
<1>1. PICK x \in T : \A y \in T : x <= y
  <2>1. T \in SUBSET Nat
    BY Zenon
  <2> HIDE DEF T
  <2> QED
    BY <2>1, LeastExists, Zenon
<1>2. x # 0 /\ x - 1 \in Nat /\ (x - 1) + 1 = x
  OBVIOUS
<1>3. x - 1 \in S
  BY <1>1, <1>2
<1> QED
  BY <1>2, <1>3, Zenon

(* A set of sets with {} that is closed under adding an element of S has    *)
(* the finite set S.                                                        *)
LEMMA FiniteSetInduction ==
    ASSUME NEW S, IsFiniteSet(S), NEW P, {} \in P,
           \A T \in SUBSET S : \A x \in S \ T : T \in P => T \union {x} \in P
    PROVE  S \in P
<1> DEFINE N == {n \in Nat : \A T \in SUBSET S : Cardinality(T) = n => T \in P}
<1>f. \A T \in SUBSET S : IsFiniteSet(T) /\ Cardinality(T) \in Nat
  BY FS_Subset, FS_CardinalityType, Zenon
<1>1. 0 \in N
  <2>1. \A T \in SUBSET S : Cardinality(T) = 0 => T = {}
    BY <1>f, FS_EmptySet, Zenon
  <2> QED
    BY <2>1, Zenon
<1>2. ASSUME NEW n \in Nat, n \in N PROVE n + 1 \in N
  <2> SUFFICES ASSUME NEW T \in SUBSET S, Cardinality(T) = n + 1 PROVE T \in P
    BY <1>2
  <2>1. PICK x : x \in T
    <3>1. T # {}
      <4>1. Cardinality({}) = 0
        BY FS_EmptySet, Zenon
      <4> QED
        BY <4>1, <1>2
    <3> QED
      BY <3>1, Zenon
  <2>2. Cardinality(T \ {x}) = Cardinality(T) - 1
    BY <1>f, <2>1, FS_RemoveElement, Zenon
  <2>3. Cardinality(T \ {x}) = n /\ T \ {x} \in SUBSET S
    BY <2>2
  <2>4. T \ {x} \in P
    BY <2>3, <1>2, Zenon
  <2>5. (T \ {x}) \union {x} \in P
    BY <2>3, <2>4, <2>1, Zenon
  <2>6. (T \ {x}) \union {x} = T
    BY <2>1, Zenon
  <2> QED
    BY <2>5, <2>6, Zenon
<1>3. Nat \subseteq N
  <2> HIDE DEF N
  <2> QED
    BY <1>1, <1>2, SetInduction, Zenon
<1> QED
  BY <1>3, <1>f, Zenon

(* A bounded set of natural numbers that is not empty has a greatest one.   *)
LEMMA Greatest ==
    ASSUME NEW n \in Nat, NEW S \in SUBSET (0..n), S # {}
    PROVE  Max(S) \in S /\ \A y \in S : y <= Max(S)
<1> DEFINE T == {n - x : x \in S}
<1>0. \A x \in S : x \in Int /\ 0 <= x /\ x <= n /\ n - x \in Nat
  OBVIOUS
<1>1. T \in SUBSET Nat /\ T # {}
  BY <1>0, Zenon
<1>2. Min(T) \in T /\ \A y \in T : Min(T) <= y
  <2> HIDE DEF T
  <2> QED
    BY <1>1, Least, Zenon
<1>3. PICK x \in S : \A y \in S : x >= y
  <2>1. PICK x \in S : Min(T) = n - x
    BY <1>2, Zenon
  <2>2. \A y \in S : n - x <= n - y
    BY <1>2, <2>1, Zenon
  <2> QED
    BY <2>2, <1>0
<1>4. Max(S) \in S /\ \A y \in S : Max(S) >= y
  BY <1>3, Zenon DEF Max
<1>5. \A y \in S : Max(S) \in Int /\ y \in Int
  BY <1>0, <1>4, Zenon
<1> QED
  BY <1>4, <1>5, Zenon
-----------------------------------------------------------------------------
(* Sums.  Total(f, S) is what a function on the subsets of S computes by    *)
(* taking out one element after the other.                                  *)

One(T) == CHOOSE x \in T : TRUE
Step(f, g, T) == IF T = {} THEN 0 ELSE f[One(T)] + g[T \ {One(T)}]

(* Total is defined by a recursive function on the subsets of S.            *)
LEMMA TotalIs ==
    ASSUME NEW f, NEW S
    PROVE  Total(f, S) = (CHOOSE g : g = [T \in SUBSET S |-> Step(f, g, T)])[S]
BY Zenon DEF Total, FoldFunctionOnSet, MapThenFoldSet, Step, One

(* The element that is taken out is one of the set.                         *)
LEMMA OneIsIn == ASSUME NEW T, T # {} PROVE One(T) \in T
BY Zenon DEF One

(* The recursive function exists: it exists on the subsets of n elements,   *)
(* for every n.                                                             *)
LEMMA SumsExist ==
    ASSUME NEW f, NEW S, IsFiniteSet(S)
    PROVE  \E g : g = [T \in SUBSET S |-> Step(f, g, T)]
<1> DEFINE Upto(n) == {T \in SUBSET S : Cardinality(T) <= n}
           N == {n \in Nat : \E g : g = [T \in Upto(n) |-> Step(f, g, T)]}
<1>f. \A T \in SUBSET S : IsFiniteSet(T) /\ Cardinality(T) \in Nat
  BY FS_Subset, FS_CardinalityType, Zenon
<1>c. \A T \in SUBSET S : T # {} => /\ T \ {One(T)} \in SUBSET S
                                    /\ Cardinality(T \ {One(T)}) = Cardinality(T) - 1
  <2> TAKE T \in SUBSET S
  <2> HAVE T # {}
  <2>1. One(T) \in T
    BY OneIsIn, Zenon
  <2>2. IsFiniteSet(T)
    BY <1>f, Zenon
  <2> QED
    BY <2>1, <2>2, FS_RemoveElement, Zenon
<1>1. 0 \in N
  <2> DEFINE g == [T \in Upto(0) |-> 0]
  <2>1. \A T \in Upto(0) : T = {}
    <3>1. \A T \in Upto(0) : Cardinality(T) = 0 /\ IsFiniteSet(T)
      BY <1>f
    <3> QED
      BY <3>1, FS_EmptySet, Zenon
  <2>2. \A T \in Upto(0) : Step(f, g, T) = 0
    BY <2>1, Zenon DEF Step
  <2>3. g = [T \in Upto(0) |-> Step(f, g, T)]
    BY <2>2, Zenon
  <2> HIDE DEF g
  <2> QED
    BY <2>3, Zenon
<1>2. ASSUME NEW n \in Nat, n \in N PROVE n + 1 \in N
  <2>1. PICK g : g = [T \in Upto(n) |-> Step(f, g, T)]
    BY <1>2, Zenon
  <2> DEFINE h == [T \in Upto(n + 1) |-> Step(f, g, T)]
  <2>2. \A T \in Upto(n + 1) : T # {} => T \ {One(T)} \in Upto(n)
    BY <1>c, <1>f
  <2>3. \A T \in Upto(n) : T \in Upto(n + 1) /\ g[T] = Step(f, g, T)
    BY <2>1, <1>f
  <2>4. \A T \in Upto(n) : h[T] = g[T]
    BY <2>3, Zenon
  <2>5. \A T \in Upto(n + 1) : Step(f, h, T) = Step(f, g, T)
    <3> HIDE DEF h, Upto
    <3> TAKE T \in Upto(n + 1)
    <3>1. CASE T = {}
      BY <3>1, Zenon DEF Step
    <3>2. CASE T # {}
      <4>1. h[T \ {One(T)}] = g[T \ {One(T)}]
        BY <3>2, <2>2, <2>4, Zenon
      <4> QED
        BY <3>2, <4>1, Zenon DEF Step
    <3> QED
      BY <3>1, <3>2, Zenon
  <2>6. h = [T \in Upto(n + 1) |-> Step(f, h, T)]
    BY <2>5, Zenon
  <2> HIDE DEF h
  <2> QED
    BY <2>6
<1>3. Nat \subseteq N
  <2> HIDE DEF N
  <2> QED
    BY <1>1, <1>2, SetInduction, Zenon
<1>4. Cardinality(S) \in N
  BY <1>3, <1>f, Zenon
<1>5. Upto(Cardinality(S)) = SUBSET S
  <2>1. \A T \in SUBSET S : Cardinality(T) <= Cardinality(S)
    BY FS_Subset, Zenon
  <2> QED
    BY <2>1, Zenon
<1> QED
  BY <1>4, <1>5, Zenon

(* The recursive equation of Total. *)
LEMMA TotalStep ==
    ASSUME NEW f, NEW S, IsFiniteSet(S)
    PROVE  Total(f, S) = IF S = {} THEN 0 ELSE f[One(S)] + Total(f, S \ {One(S)})
<1> DEFINE R(A) == CHOOSE g : g = [T \in SUBSET A |-> Step(f, g, T)]
<1>1. \A A \in SUBSET S : R(A) = [T \in SUBSET A |-> Step(f, R(A), T)]
  <2> TAKE A \in SUBSET S
  <2>1. IsFiniteSet(A)
    BY FS_Subset, Zenon
  <2>2. \E g : g = [T \in SUBSET A |-> Step(f, g, T)]
    BY <2>1, SumsExist, Zenon
  <2> QED
    BY <2>2, Zenon
<1>2. \A A : Total(f, A) = R(A)[A]
  BY TotalIs, Zenon
<1> HIDE DEF R
<1>3. ASSUME NEW A \in SUBSET S PROVE \A T \in SUBSET A : R(A)[T] = R(S)[T]
  <2> DEFINE P == {T \in SUBSET A : R(A)[T] = R(S)[T]}
             N == {n \in Nat : \A T \in SUBSET A : Cardinality(T) = n => T \in P}
  <2>f. \A T \in SUBSET A : IsFiniteSet(T) /\ Cardinality(T) \in Nat
    <3>1. \A T \in SUBSET A : T \in SUBSET S
      BY Zenon
    <3> QED
      BY <3>1, FS_Subset, FS_CardinalityType, Zenon
  <2>e. \A T \in SUBSET A : R(A)[T] = Step(f, R(A), T) /\ R(S)[T] = Step(f, R(S), T)
    BY <1>1, Zenon
  <2>1. 0 \in N
    <3>1. \A T \in SUBSET A : Cardinality(T) = 0 => T = {}
      BY <2>f, FS_EmptySet, Zenon
    <3>2. {} \in P
      BY <2>e, Zenon DEF Step
    <3> QED
      BY <3>1, <3>2, Zenon
  <2>2. ASSUME NEW n \in Nat, n \in N PROVE n + 1 \in N
    <3> SUFFICES ASSUME NEW T \in SUBSET A, Cardinality(T) = n + 1 PROVE T \in P
      BY <2>2
    <3>1. CASE T = {}
      BY <3>1, <2>e, Zenon DEF Step
    <3>2. CASE T # {}
      <4>1. One(T) \in T
        BY <3>2, OneIsIn, Zenon
      <4>2. Cardinality(T \ {One(T)}) = n
        <5>1. Cardinality(T \ {One(T)}) = Cardinality(T) - 1
          BY <4>1, <2>f, FS_RemoveElement, Zenon
        <5> QED
          BY <5>1
      <4>3. T \ {One(T)} \in P
        BY <4>2, <2>2, Zenon
      <4> QED
        BY <4>3, <3>2, <2>e, Zenon DEF Step
    <3> QED
      BY <3>1, <3>2, Zenon
  <2>3. Nat \subseteq N
    <3> HIDE DEF N
    <3> QED
      BY <2>1, <2>2, SetInduction, Zenon
  <2> QED
    BY <2>3, <2>f, Zenon
<1>4. CASE S = {}
  BY <1>1, <1>2, <1>4, Zenon DEF Step
<1>5. CASE S # {}
  <2>1. R(S)[S] = f[One(S)] + R(S)[S \ {One(S)}]
    BY <1>1, <1>5, Zenon DEF Step
  <2>2. R(S)[S \ {One(S)}] = R(S \ {One(S)})[S \ {One(S)}]
    BY <1>3, Zenon
  <2> QED
    BY <2>1, <2>2, <1>2, <1>5, Zenon
<1> QED
  BY <1>4, <1>5, Zenon

(* The sum over nothing is 0.                                               *)
LEMMA TotalEmpty == ASSUME NEW f PROVE Total(f, {}) = 0
BY TotalStep, FS_EmptySet, Zenon

(* Only the values of f on S matter. *)
LEMMA TotalEqual ==
    ASSUME NEW f, NEW g, NEW S, IsFiniteSet(S), \A x \in S : f[x] = g[x]
    PROVE  Total(f, S) = Total(g, S)
<1> DEFINE N == {n \in Nat : \A T \in SUBSET S :
                              Cardinality(T) = n => Total(f, T) = Total(g, T)}
<1>f. \A T \in SUBSET S : IsFiniteSet(T) /\ Cardinality(T) \in Nat
  BY FS_Subset, FS_CardinalityType, Zenon
<1>1. 0 \in N
  <2>1. \A T \in SUBSET S : Cardinality(T) = 0 => T = {}
    BY <1>f, FS_EmptySet, Zenon
  <2> QED
    BY <2>1, TotalEmpty, Zenon
<1>2. ASSUME NEW n \in Nat, n \in N PROVE n + 1 \in N
  <2> SUFFICES ASSUME NEW T \in SUBSET S, Cardinality(T) = n + 1
               PROVE  Total(f, T) = Total(g, T)
    BY <1>2
  <2>0. T # {}
    BY FS_EmptySet
  <2>1. One(T) \in T
    BY <2>0, OneIsIn, Zenon
  <2>2. Cardinality(T \ {One(T)}) = Cardinality(T) - 1
    BY <2>1, <1>f, FS_RemoveElement, Zenon
  <2>3. Total(f, T \ {One(T)}) = Total(g, T \ {One(T)})
    BY <2>2, <1>2
  <2>4. f[One(T)] = g[One(T)]
    BY <2>1, Zenon
  <2> QED
    BY <2>0, <2>3, <2>4, <1>f, TotalStep
<1>3. Nat \subseteq N
  <2> HIDE DEF N
  <2> QED
    BY <1>1, <1>2, SetInduction, Zenon
<1> QED
  BY <1>3, <1>f, Zenon

(* A sum of natural numbers is one.                                         *)
LEMMA TotalNat ==
    ASSUME NEW S, IsFiniteSet(S), NEW f, \A x \in S : f[x] \in Nat
    PROVE  Total(f, S) \in Nat
<1> DEFINE N == {n \in Nat : \A T \in SUBSET S : Cardinality(T) = n => Total(f, T) \in Nat}
<1>f. \A T \in SUBSET S : IsFiniteSet(T) /\ Cardinality(T) \in Nat
  BY FS_Subset, FS_CardinalityType, Zenon
<1>1. 0 \in N
  <2>1. \A T \in SUBSET S : Cardinality(T) = 0 => T = {}
    BY <1>f, FS_EmptySet, Zenon
  <2> QED
    BY <2>1, TotalEmpty
<1>2. ASSUME NEW n \in Nat, n \in N PROVE n + 1 \in N
  <2> SUFFICES ASSUME NEW T \in SUBSET S, Cardinality(T) = n + 1
               PROVE  Total(f, T) \in Nat
    BY <1>2
  <2>0. T # {}
    BY FS_EmptySet
  <2>1. One(T) \in T
    BY <2>0, OneIsIn, Zenon
  <2>2. Cardinality(T \ {One(T)}) = Cardinality(T) - 1
    BY <2>1, <1>f, FS_RemoveElement, Zenon
  <2>3. Total(f, T \ {One(T)}) \in Nat
    BY <2>2, <1>2
  <2>4. f[One(T)] \in Nat
    BY <2>1, Zenon
  <2>5. Total(f, T) = f[One(T)] + Total(f, T \ {One(T)})
    BY <2>0, <1>f, TotalStep, Zenon
  <2> QED
    BY <2>3, <2>4, <2>5
<1>3. Nat \subseteq N
  <2> HIDE DEF N
  <2> QED
    BY <1>1, <1>2, SetInduction, Zenon
<1> QED
  BY <1>3, <1>f, Zenon

(* Any element may be taken out first. *)
LEMMA TotalRemove ==
    ASSUME NEW S, IsFiniteSet(S), NEW f, \A x \in S : f[x] \in Nat, NEW e \in S
    PROVE  Total(f, S) = f[e] + Total(f, S \ {e})
<1> DEFINE N == {n \in Nat : \A T \in SUBSET S : Cardinality(T) = n =>
                     \A x \in T : Total(f, T) = f[x] + Total(f, T \ {x})}
<1>f. \A T \in SUBSET S : IsFiniteSet(T) /\ Cardinality(T) \in Nat
  BY FS_Subset, FS_CardinalityType, Zenon
<1>n. \A T \in SUBSET S : Total(f, T) \in Nat
  <2> TAKE T \in SUBSET S
  <2>1. IsFiniteSet(T) /\ \A x \in T : f[x] \in Nat
    BY <1>f, Zenon
  <2> QED
    BY <2>1, TotalNat, Zenon
<1>1. 0 \in N
  <2>1. \A T \in SUBSET S : Cardinality(T) = 0 => T = {}
    BY <1>f, FS_EmptySet, Zenon
  <2> QED
    BY <2>1, Zenon
<1>2. ASSUME NEW n \in Nat, n \in N PROVE n + 1 \in N
  <2> SUFFICES ASSUME NEW T \in SUBSET S, Cardinality(T) = n + 1, NEW x \in T
               PROVE  Total(f, T) = f[x] + Total(f, T \ {x})
    BY <1>2
  <2> DEFINE y == One(T)
  <2>1. y \in T
    BY OneIsIn, Zenon
  <2>2. Total(f, T) = f[y] + Total(f, T \ {y})
    BY <1>f, TotalStep, Zenon
  <2> HIDE DEF y
  <2>3. CASE x = y
    BY <2>2, <2>3, Zenon
  <2>4. CASE x # y
    <3>1. /\ T \ {x} \in SUBSET S /\ T \ {y} \in SUBSET S /\ (T \ {x}) \ {y} \in SUBSET S
          /\ (T \ {x}) \ {y} = (T \ {y}) \ {x} /\ y \in T \ {x} /\ x \in T \ {y}
      BY <2>1, <2>4, Zenon
    <3>2. Cardinality(T \ {x}) = n /\ Cardinality(T \ {y}) = n
      <4>1. /\ Cardinality(T \ {x}) = Cardinality(T) - 1
            /\ Cardinality(T \ {y}) = Cardinality(T) - 1
        BY <2>1, <1>f, FS_RemoveElement, Zenon
      <4> QED
        BY <4>1
    <3>3. Total(f, T \ {y}) = f[x] + Total(f, (T \ {y}) \ {x})
      BY <3>1, <3>2, <1>2, Zenon
    <3>4. Total(f, T \ {x}) = f[y] + Total(f, (T \ {x}) \ {y})
      BY <3>1, <3>2, <1>2, Zenon
    <3>5. f[x] \in Nat /\ f[y] \in Nat /\ Total(f, (T \ {x}) \ {y}) \in Nat
      BY <2>1, <3>1, <1>n, Zenon
    <3> QED
      BY <2>2, <3>1, <3>3, <3>4, <3>5
  <2> QED
    BY <2>3, <2>4, Zenon
<1>3. Nat \subseteq N
  <2> HIDE DEF N
  <2> QED
    BY <1>1, <1>2, SetInduction, Zenon
<1>4. Cardinality(S) \in N
  BY <1>3, <1>f, Zenon
<1> QED
  BY <1>4, Zenon

(* Sums over disjoint sets add up.                                          *)
LEMMA TotalUnion ==
    ASSUME NEW S, IsFiniteSet(S), NEW f, \A x \in S : f[x] \in Nat,
           NEW A \in SUBSET S, NEW B \in SUBSET S, A \intersect B = {}
    PROVE  Total(f, A \union B) = Total(f, A) + Total(f, B)
<1> DEFINE P == {T \in SUBSET B : Total(f, A \union T) = Total(f, A) + Total(f, T)}
<1>f. \A T \in SUBSET S : IsFiniteSet(T) /\ Total(f, T) \in Nat
  <2> TAKE T \in SUBSET S
  <2>1. IsFiniteSet(T) /\ \A x \in T : f[x] \in Nat
    BY FS_Subset, Zenon
  <2> QED
    BY <2>1, TotalNat, Zenon
<1>1. {} \in P
  <2>1. A \union {} = A
    BY Zenon
  <2> QED
    BY <1>f, <2>1, TotalEmpty
<1>2. ASSUME NEW T \in SUBSET B, NEW x \in B \ T, T \in P PROVE T \union {x} \in P
  <2> DEFINE T2 == T \union {x}
             AT == A \union T2
  <2>1. T \in SUBSET S /\ T2 \in SUBSET S /\ AT \in SUBSET S /\ x \in T2 /\ x \in AT /\ x \in S
    BY Zenon
  <2>2. T2 \ {x} = T /\ AT \ {x} = A \union T
    BY <1>2, Zenon
  <2>p. (\A z \in T2 : f[z] \in Nat) /\ (\A z \in AT : f[z] \in Nat)
    BY <2>1, Zenon
  <2>3. Total(f, AT) = f[x] + Total(f, A \union T)
    <3> HIDE DEF AT
    <3> QED
      BY <2>1, <2>2, <2>p, <1>f, TotalRemove
  <2>4. Total(f, T2) = f[x] + Total(f, T)
    <3> HIDE DEF T2
    <3> QED
      BY <2>1, <2>2, <2>p, <1>f, TotalRemove, Zenon
  <2>5. Total(f, A \union T) = Total(f, A) + Total(f, T)
    BY <1>2, Zenon
  <2>6. f[x] \in Nat /\ Total(f, A) \in Nat /\ Total(f, T) \in Nat
    BY <2>1, <1>f, Zenon
  <2>7. Total(f, AT) = Total(f, A) + Total(f, T2)
    BY <2>3, <2>4, <2>5, <2>6
  <2> QED
    BY <2>7, Zenon
<1>3. B \in P
  <2>1. IsFiniteSet(B)
    BY <1>f, Zenon
  <2> HIDE DEF P
  <2> QED
    BY <1>1, <1>2, <2>1, FiniteSetInduction, Zenon
<1> QED
  BY <1>3, Zenon

(* Taking the elements olds out of a sum and adding new ones.               *)
LEMMA TotalChange ==
    ASSUME NEW S, IsFiniteSet(S), NEW olds \in SUBSET S,
           NEW added, IsFiniteSet(added), added \intersect S = {},
           NEW f, \A x \in S : f[x] \in Nat,
           NEW g, \A x \in (S \ olds) \union added : g[x] \in Nat,
           \A x \in S \ olds : g[x] = f[x],
           NEW h, \A x \in added : h[x] = g[x],
           NEW k, \A x \in olds : k[x] = f[x]
    PROVE  Total(g, (S \ olds) \union added) = Total(f, S) + Total(h, added) - Total(k, olds)
<1> DEFINE K == S \ olds
           S2 == K \union added
<1>1. IsFiniteSet(K) /\ IsFiniteSet(olds)
  BY FS_Subset, Zenon
<1>2. IsFiniteSet(S2)
  BY <1>1, FS_Union, Zenon
<1>3. K \in SUBSET S /\ K \in SUBSET S2 /\ added \in SUBSET S2
      /\ K \intersect added = {} /\ K \intersect olds = {} /\ K \union olds = S
  BY Zenon
<1>4. /\ \A x \in K : f[x] = g[x] /\ f[x] \in Nat
      /\ \A x \in S2 : g[x] \in Nat
      /\ \A x \in added : g[x] = h[x] /\ h[x] \in Nat
      /\ \A x \in olds : k[x] \in Nat
  BY Zenon
<1> HIDE DEF K, S2
<1>5. Total(g, K \union added) = Total(g, K) + Total(g, added)
  BY <1>2, <1>3, <1>4, TotalUnion
<1>6. Total(f, K \union olds) = Total(f, K) + Total(f, olds)
  BY <1>3, TotalUnion
<1>7. Total(g, K) = Total(f, K)
  BY <1>1, <1>4, TotalEqual
<1>8. Total(g, added) = Total(h, added)
  BY <1>4, TotalEqual
<1>9. Total(f, olds) = Total(k, olds)
  BY <1>1, TotalEqual, Zenon
<1>10. Total(f, K) \in Nat /\ Total(h, added) \in Nat /\ Total(k, olds) \in Nat
  BY <1>1, <1>4, TotalNat, Zenon
<1>11. Total(f, S) = Total(f, K) + Total(k, olds)
  BY <1>3, <1>6, <1>9, Zenon
<1>12. Total(g, K \union added) = Total(f, S) + Total(h, added) - Total(k, olds)
  BY <1>5, <1>7, <1>8, <1>10, <1>11
<1> QED
  BY <1>12, Zenon DEF K

(* Changing one term of a sum.                                              *)
LEMMA TotalReplace ==
    ASSUME NEW S, IsFiniteSet(S), NEW e \in S,
           NEW f, \A x \in S : f[x] \in Nat,
           NEW g, \A x \in S : g[x] \in Nat,
           \A x \in S \ {e} : g[x] = f[x]
    PROVE  Total(g, S) = Total(f, S) + g[e] - f[e]
<1>1. Total(g, S) = g[e] + Total(g, S \ {e})
  BY TotalRemove, Zenon
<1>2. Total(f, S) = f[e] + Total(f, S \ {e})
  BY TotalRemove, Zenon
<1>3. IsFiniteSet(S \ {e})
  BY FS_RemoveElement, Zenon
<1>4. Total(g, S \ {e}) = Total(f, S \ {e}) /\ Total(f, S \ {e}) \in Nat
  BY <1>3, TotalEqual, TotalNat, Zenon
<1> QED
  BY <1>1, <1>2, <1>4

(* Counting after elements are taken out of a set and others added.         *)
LEMMA CountChange ==
    ASSUME NEW S, IsFiniteSet(S), NEW olds \in SUBSET S,
           NEW added, IsFiniteSet(added), added \intersect S = {}
    PROVE  /\ IsFiniteSet((S \ olds) \union added)
           /\ Cardinality((S \ olds) \union added) =
                Cardinality(S) + Cardinality(added) - Cardinality(olds)
<1> DEFINE K == S \ olds
<1>1. K \intersect added = {} /\ S \intersect olds = olds
  BY Zenon
<1>2. IsFiniteSet(K) /\ Cardinality(K) = Cardinality(S) - Cardinality(olds)
  BY <1>1, FS_Difference, Zenon
<1>3. Cardinality({}) = 0
  BY FS_EmptySet, Zenon
<1>4. /\ IsFiniteSet(K \union added)
      /\ Cardinality(K \union added) =
           Cardinality(K) + Cardinality(added) - Cardinality(K \intersect added)
  <2> HIDE DEF K
  <2> QED
    BY <1>2, FS_Union, Zenon
<1>5. Cardinality(S) \in Nat /\ Cardinality(added) \in Nat /\ Cardinality(olds) \in Nat
  BY FS_Subset, FS_CardinalityType, Zenon
<1> QED
  BY <1>1, <1>2, <1>3, <1>4, <1>5

-----------------------------------------------------------------------------
(* The indexes *)

IndexInv ==
  NsmInv /\ IndexTypeOK /\ DeviceObjectsMatch /\ BucketsMatch /\ SizesMatch

(* There are finitely many slots.                                           *)
LEMMA FiniteSlots == IsFiniteSet(Slot) /\ \A T \in SUBSET Slot : IsFiniteSet(T)
<1>1. IsFiniteSet(Slot)
  BY IndexAssumption, FS_Product, Zenon DEF Slot
<1> QED
  BY <1>1, FS_Subset, Zenon

(* The sizes that are added and subtracted are natural numbers.             *)
LEMMA SizesAreNat ==
    ASSUME NEW l \in [Slot -> Nat]
    PROVE  SummedSizes(l) \in Nat /\ \A d, m : SizeOn(d, m, l) \in Nat
<1>1. SummedSizes(l) \in Nat
  BY FiniteSlots, TotalNat, Zenon DEF SummedSizes
<1>2. ASSUME NEW d, NEW m PROVE SizeOn(d, m, l) \in Nat
  <2> DEFINE S == {s \in Slot : m.osd[s] = d}
  <2>1. IsFiniteSet(S) /\ \A s \in S : l[s] \in Nat
    BY FiniteSlots, Zenon
  <2> HIDE DEF S
  <2>2. Total(l, S) \in Nat
    BY <2>1, TotalNat, Zenon
  <2> QED
    BY <2>2, Zenon DEF SizeOn, S
<1> QED
  BY <1>1, <1>2, Zenon

(* get_min_fragment_count_and_max_disks_per_node yields a bucket.           *)
LEMMA BucketOfType == ASSUME NEW m PROVE BucketOf(m) \in Bucket
<1> DEFINE n == Cardinality(Fragment)
           stored(c) == {f \in Fragment : m.osd[<<c, f>>] # None}
           onNode(c, x) == {f \in stored(c) : Node[m.osd[<<c, f>>]] = x}
           counts == {Cardinality(stored(c)) : c \in Chunk}
           nodes == {0} \union {Cardinality(onNode(c, Node[d])) : c \in Chunk, d \in Osd}
<1>1. \A T \in SUBSET Fragment : Cardinality(T) \in 0 .. n
  <2> TAKE T \in SUBSET Fragment
  <2>1. IsFiniteSet(Fragment) /\ IsFiniteSet(T)
    BY IndexAssumption, FS_Subset, Zenon
  <2>2. Cardinality(T) \in Nat /\ n \in Nat /\ Cardinality(T) <= n
    BY <2>1, FS_Subset, FS_CardinalityType, Zenon
  <2> QED
    BY <2>2
<1>0. n \in Nat
  BY IndexAssumption, FS_CardinalityType, Zenon
<1>2. \A c, x : stored(c) \in SUBSET Fragment /\ onNode(c, x) \in SUBSET Fragment
  BY Zenon
<1>3. BucketOf(m) = <<Min(counts), Max(nodes)>>
  BY DEF BucketOf
<1> HIDE DEF n, stored, onNode
<1>4. counts \in SUBSET (0 .. n) /\ counts # {}
  BY <1>1, <1>2, IndexAssumption, Zenon
<1>5. nodes \in SUBSET (0 .. n) /\ nodes # {}
  BY <1>0, <1>1, <1>2
<1> HIDE DEF counts, nodes
<1>6. counts \in SUBSET Nat
  BY <1>0, <1>4
<1>7. Min(counts) \in 0 .. n
  BY <1>4, <1>6, Least, Zenon
<1>8. Max(nodes) \in 0 .. n
  BY <1>0, <1>5, Greatest, Zenon
<1> QED
  BY <1>3, <1>7, <1>8 DEF Bucket, n

(* What is to be known of the types beside that the indexes match.          *)
PartlyTyped ==
  /\ NsmTypeOK
  /\ len \in [ObjectId -> [Slot -> Nat]]
  /\ osd_size = [d \in Osd |-> osd_size[d]]
  /\ policies_cnt = [b \in Bucket |-> policies_cnt[b]]
  /\ preset \subseteq Policy
  /\ preset_version \in Int

(* Indexes that match the manifests have their types.                       *)
LEMMA MatchingIndexesAreTyped ==
    PartlyTyped /\ DeviceObjectsMatch /\ BucketsMatch /\ SizesMatch => IndexTypeOK
<1> SUFFICES ASSUME PartlyTyped, DeviceObjectsMatch, BucketsMatch, SizesMatch
             PROVE  IndexTypeOK
  BY Zenon
<1> USE DEF PartlyTyped
<1> DEFINE live == {o \in ObjectId : Live(o)}
<1>1. IsFiniteSet(live)
  BY IndexAssumption, FS_Subset, Zenon
<1>2. osd_size \in [Osd -> Nat]
  <2>1. ASSUME NEW d \in Osd PROVE osd_size[d] \in Nat
    <3> DEFINE f == [o \in live |-> SizeOn(d, objects[o], len[o])]
    <3>1. \A o \in live : f[o] \in Nat
      BY SizesAreNat, Zenon
    <3>2. osd_size[d] = Total(f, live)
      BY Zenon DEF SizesMatch
    <3> HIDE DEF f, live
    <3> QED
      BY <1>1, <3>1, <3>2, TotalNat, Zenon
  <2> QED
    BY <2>1, Zenon
<1>3. storage_size \in Nat
  <2> DEFINE f == [o \in live |-> SummedSizes(len[o])]
  <2>1. \A o \in live : f[o] \in Nat
    BY SizesAreNat, Zenon
  <2>2. storage_size = Total(f, live)
    BY Zenon DEF SizesMatch
  <2> HIDE DEF f, live
  <2> QED
    BY <1>1, <2>1, <2>2, TotalNat, Zenon
<1>4. policies_cnt \in [Bucket -> Nat]
  <2>1. ASSUME NEW b \in Bucket PROVE policies_cnt[b] \in Nat
    <3> DEFINE S == {o \in ObjectId : Live(o) /\ BucketOf(objects[o]) = b}
    <3>1. IsFiniteSet(S)
      BY IndexAssumption, FS_Subset, Zenon
    <3>2. policies_cnt[b] = Cardinality(S)
      BY Zenon DEF BucketsMatch
    <3> HIDE DEF S
    <3> QED
      BY <3>1, <3>2, FS_CardinalityType, Zenon
  <2> QED
    BY <2>1, Zenon
<1> QED
  BY <1>2, <1>3, <1>4, Zenon DEF IndexTypeOK, DeviceObjectsMatch, BucketsMatch

(* What cleanup_for_object_id takes out for the live objects olds and       *)
(* put_object adds for new ones keeps the indexes equal to the manifests.   *)
LEMMA ReindexKeeps ==
    ASSUME IndexInv, NEW olds \in SUBSET ObjectId, NEW news,
           DOMAIN news \in SUBSET ObjectId,
           \A o \in DOMAIN news : news[o].manifest \in Manifest /\ news[o].len \in [Slot -> Nat],
           \A o \in olds : Live(o), \A o \in DOMAIN news : ~ Live(o),
           objects' = [o \in ObjectId |-> IF o \in DOMAIN news THEN news[o].manifest
                                          ELSE IF o \in olds THEN None ELSE objects[o]],
           NsmTypeOK', Reindex(olds, news)
    PROVE  IndexTypeOK' /\ DeviceObjectsMatch' /\ BucketsMatch' /\ SizesMatch'
<1> DEFINE added == DOMAIN news
           live == {o \in ObjectId : Live(o)}
           live2 == {o \in ObjectId : objects'[o] # None}
<1> USE NoneAssumption
<1>1. /\ live2 = (live \ olds) \union added
      /\ live2 \in SUBSET ObjectId /\ live \in SUBSET ObjectId
      /\ olds \in SUBSET live /\ added \intersect live = {} /\ added \in SUBSET ObjectId
  BY Zenon DEF Live
<1>2. IsFiniteSet(live) /\ IsFiniteSet(live2) /\ IsFiniteSet(added) /\ IsFiniteSet(olds)
  BY <1>1, IndexAssumption, FS_Subset, Zenon
<1>3. \A o \in live : objects[o] \in Manifest /\ len[o] \in [Slot -> Nat]
  BY Zenon DEF Live, IndexInv, IndexTypeOK, NsmTypeOK
<1>4. /\ \A o \in live \ olds : objects'[o] = objects[o] /\ len'[o] = len[o]
      /\ \A o \in added : objects'[o] = news[o].manifest /\ len'[o] = news[o].len
  <2>1. \A o \in ObjectId : len'[o] = IF o \in added THEN news[o].len
                                    ELSE IF o \in olds THEN [s \in Slot |-> 0] ELSE len[o]
    BY Zenon DEF Reindex
  <2> HIDE DEF added, live, live2
  <2>2. \A o \in ObjectId : objects'[o] = IF o \in added THEN news[o].manifest
                                        ELSE IF o \in olds THEN None ELSE objects[o]
    BY Zenon DEF added
  <2> QED
    BY <1>1, <2>1, <2>2, Zenon
<1>5. \A o \in live2 : objects'[o] \in Manifest /\ len'[o] \in [Slot -> Nat]
  <2> HIDE DEF live, live2
  <2> QED
    BY <1>1, <1>3, <1>4, Zenon
<1>6. len' \in [ObjectId -> [Slot -> Nat]]
  BY Zenon DEF Reindex, IndexInv, IndexTypeOK
<1>7. DeviceObjectsMatch'
  <2> DEFINE D == {x \in Osd \X ObjectId : objects[x[2]] # None /\ x[1] \in OsdsUsed(objects[x[2]])}
             D2 == {x \in Osd \X ObjectId : objects'[x[2]] # None /\ x[1] \in OsdsUsed(objects'[x[2]])}
             new == UNION {OsdsUsed(news[o].manifest) \X {o} : o \in added}
             gone == UNION {OsdsUsed(objects[o]) \X {o} : o \in olds}
  <2>1. device_objects = D
    BY Zenon DEF IndexInv, DeviceObjectsMatch, Live
  <2>2. device_objects' = (device_objects \union new) \ gone
    BY Zenon DEF Reindex
  <2>3. \A m : OsdsUsed(m) \subseteq Osd
    BY Zenon DEF OsdsUsed
  <2>4. ASSUME NEW d \in Osd, NEW o \in ObjectId
        PROVE  <<d, o>> \in device_objects' <=> <<d, o>> \in D2
    <3>1. <<d, o>> \in new <=> o \in added /\ d \in OsdsUsed(news[o].manifest)
      OBVIOUS
    <3>2. <<d, o>> \in gone <=> o \in olds /\ d \in OsdsUsed(objects[o])
      OBVIOUS
    <3>3. <<d, o>> \in D <=> o \in live /\ d \in OsdsUsed(objects[o])
      BY Zenon DEF Live
    <3>4. <<d, o>> \in D2 <=> o \in live2 /\ d \in OsdsUsed(objects'[o])
      BY <1>1, Zenon
    <3> HIDE DEF D, D2, new, gone, live, added
    <3> QED
      BY <3>1, <3>2, <3>3, <3>4, <2>1, <2>2, <1>1, <1>4, Zenon
  <2>5. device_objects' \subseteq Osd \X ObjectId /\ D2 \subseteq Osd \X ObjectId
    BY <1>1, <2>1, <2>2, <2>3
  <2>6. device_objects' = D2
    <3> HIDE DEF D2
    <3> QED
      BY <2>4, <2>5
  <2> QED
    BY <2>6, Zenon DEF DeviceObjectsMatch, Live
<1>8. SizesMatch'
  <2>1. ASSUME NEW d \in Osd
        PROVE  osd_size'[d] = Total([o \in live2 |-> SizeOn(d, objects'[o], len'[o])], live2)
    <3> DEFINE f == [o \in live |-> SizeOn(d, objects[o], len[o])]
               g == [o \in live2 |-> SizeOn(d, objects'[o], len'[o])]
               h == [o \in added |-> SizeOn(d, news[o].manifest, news[o].len)]
               k == [o \in olds |-> SizeOn(d, objects[o], len[o])]
    <3>1. osd_size[d] = Total(f, live)
      BY Zenon DEF IndexInv, SizesMatch
    <3>2. osd_size'[d] = osd_size[d] + Total(h, added) - Total(k, olds)
      BY Zenon DEF Reindex
    <3>3. /\ \A x \in live : f[x] \in Nat
          /\ \A x \in live2 : g[x] \in Nat
      BY <1>3, <1>5, SizesAreNat, Zenon
    <3>4. /\ \A x \in live \ olds : g[x] = f[x]
          /\ \A x \in added : h[x] = g[x]
          /\ \A x \in olds : k[x] = f[x]
      BY <1>1, <1>4, Zenon
    <3> HIDE DEF f, g, h, k, live, live2, added
    <3>5. Total(g, live2) = Total(f, live) + Total(h, added) - Total(k, olds)
      BY <1>1, <1>2, <3>3, <3>4, TotalChange
    <3> QED
      BY <3>1, <3>2, <3>5, Zenon DEF g
  <2>2. storage_size' = Total([o \in live2 |-> SummedSizes(len'[o])], live2)
    <3> DEFINE f == [o \in live |-> SummedSizes(len[o])]
               g == [o \in live2 |-> SummedSizes(len'[o])]
               h == [o \in added |-> SummedSizes(news[o].len)]
               k == [o \in olds |-> SummedSizes(len[o])]
    <3>1. storage_size = Total(f, live)
      BY Zenon DEF IndexInv, SizesMatch
    <3>2. storage_size' = storage_size + Total(h, added) - Total(k, olds)
      BY Zenon DEF Reindex
    <3>3. /\ \A x \in live : f[x] \in Nat
          /\ \A x \in live2 : g[x] \in Nat
      BY <1>3, <1>5, SizesAreNat, Zenon
    <3>4. /\ \A x \in live \ olds : g[x] = f[x]
          /\ \A x \in added : h[x] = g[x]
          /\ \A x \in olds : k[x] = f[x]
      BY <1>1, <1>4, Zenon
    <3> HIDE DEF f, g, h, k, live, live2, added
    <3>5. Total(g, live2) = Total(f, live) + Total(h, added) - Total(k, olds)
      BY <1>1, <1>2, <3>3, <3>4, TotalChange
    <3> QED
      BY <3>1, <3>2, <3>5, Zenon DEF g
  <2> QED
    BY <2>1, <2>2, Zenon DEF SizesMatch, Live
<1>9. BucketsMatch'
  <2> DEFINE P == {x \in Bucket \X ObjectId : objects[x[2]] # None /\ BucketOf(objects[x[2]]) = x[1]}
             P2 == {x \in Bucket \X ObjectId : objects'[x[2]] # None /\ BucketOf(objects'[x[2]]) = x[1]}
             new == {<<BucketOf(news[o].manifest), o>> : o \in added}
             gone == {<<BucketOf(objects[o]), o>> : o \in olds}
  <2>1. policies = P
    BY Zenon DEF IndexInv, BucketsMatch, Live
  <2>2. policies' = (policies \union new) \ gone
    BY Zenon DEF Reindex
  <2>3. ASSUME NEW b \in Bucket, NEW o \in ObjectId
        PROVE  <<b, o>> \in policies' <=> <<b, o>> \in P2
    <3>1. <<b, o>> \in new <=> o \in added /\ b = BucketOf(news[o].manifest)
      BY Zenon
    <3>2. <<b, o>> \in gone <=> o \in olds /\ b = BucketOf(objects[o])
      BY Zenon
    <3>3. <<b, o>> \in P <=> o \in live /\ b = BucketOf(objects[o])
      BY Zenon DEF Live
    <3>4. <<b, o>> \in P2 <=> o \in live2 /\ b = BucketOf(objects'[o])
      BY <1>1, Zenon
    <3> HIDE DEF P, P2, new, gone, live, added
    <3> QED
      BY <3>1, <3>2, <3>3, <3>4, <2>1, <2>2, <1>1, <1>4, Zenon
  <2>4. policies' \subseteq Bucket \X ObjectId /\ P2 \subseteq Bucket \X ObjectId
    BY <1>1, <2>1, <2>2, BucketOfType
  <2>5. policies' = P2
    <3> HIDE DEF P2, Bucket
    <3> QED
      BY <2>3, <2>4
  <2>6. ASSUME NEW b \in Bucket
        PROVE  policies_cnt'[b] =
                 Cardinality({o \in ObjectId : objects'[o] # None /\ BucketOf(objects'[o]) = b})
    <3> DEFINE S == {o \in ObjectId : objects[o] # None /\ BucketOf(objects[o]) = b}
               S2 == {o \in ObjectId : objects'[o] # None /\ BucketOf(objects'[o]) = b}
               A == {o \in added : BucketOf(news[o].manifest) = b}
               R == {o \in olds : BucketOf(objects[o]) = b}
    <3>1. policies_cnt[b] = Cardinality(S)
      BY Zenon DEF IndexInv, BucketsMatch, Live
    <3>2. policies_cnt'[b] = policies_cnt[b] + Cardinality(A) - Cardinality(R)
      BY Zenon DEF Reindex
    <3>3. S2 = (S \ R) \union A /\ R \in SUBSET S /\ A \intersect S = {}
      BY <1>1, <1>4, Zenon DEF Live
    <3>4. S \in SUBSET ObjectId /\ A \in SUBSET ObjectId
      BY <1>1, Zenon
    <3> HIDE DEF S, S2, A, R
    <3>5. IsFiniteSet(S) /\ IsFiniteSet(A)
      BY <3>4, IndexAssumption, FS_Subset, Zenon
    <3>6. Cardinality(S2) = Cardinality(S) + Cardinality(A) - Cardinality(R)
      BY <3>3, <3>5, CountChange, Zenon
    <3> QED
      BY <3>1, <3>2, <3>6, Zenon DEF S2
  <2> QED
    BY <2>5, <2>6, Zenon DEF BucketsMatch, Live
<1>10. PartlyTyped'
  BY <1>6, Zenon DEF PartlyTyped, Reindex, IndexInv, IndexTypeOK
<1>11. PartlyTyped' /\ DeviceObjectsMatch' /\ BucketsMatch' /\ SizesMatch' => IndexTypeOK'
  BY MatchingIndexesAreTyped, PTL
<1> QED
  BY <1>7, <1>8, <1>9, <1>10, <1>11, Zenon

(* The slots of an OSD after an update: what changes is in the updated      *)
(* slots, so adding their new sizes and subtracting the old ones is enough. *)
LEMMA SizeOnChange ==
    ASSUME NEW d, NEW old, NEW m, NEW slots \in SUBSET Slot, NEW target,
           \A s \in Slot : m.osd[s] = IF s \in slots THEN target[s] ELSE old.osd[s],
           NEW l \in [Slot -> Nat], NEW k \in [Slot -> Nat],
           \A s \in Slot \ slots : k[s] = l[s]
    PROVE  /\ OsdSizeChange(d, old, l, slots, target, k) \in Int
           /\ SizeOn(d, m, k) = SizeOn(d, old, l) + OsdSizeChange(d, old, l, slots, target, k)
<1> DEFINE A == {s \in slots : old.osd[s] = d}
           B == {s \in slots : target[s] = d}
           R == {s \in Slot \ slots : old.osd[s] = d}
<1>1. /\ {s \in Slot : old.osd[s] = d} = R \union A
      /\ {s \in Slot : m.osd[s] = d} = R \union B
      /\ R \intersect A = {} /\ R \intersect B = {}
      /\ R \in SUBSET Slot /\ A \in SUBSET Slot /\ B \in SUBSET Slot
      /\ \A s \in R : k[s] = l[s]
  BY Zenon
<1>2. SizeOn(d, old, l) = Total(l, R \union A) /\ SizeOn(d, m, k) = Total(k, R \union B)
  BY <1>1, Zenon DEF SizeOn
<1>3. OsdSizeChange(d, old, l, slots, target, k) = Total(k, B) - Total(l, A)
  BY Zenon DEF OsdSizeChange
<1> HIDE DEF A, B, R
<1>4. \A s \in Slot : l[s] \in Nat /\ k[s] \in Nat
  BY Zenon
<1>5. IsFiniteSet(R) /\ IsFiniteSet(A) /\ IsFiniteSet(B) /\ IsFiniteSet(Slot)
  BY <1>1, FiniteSlots, Zenon
<1>6. Total(l, R \union A) = Total(l, R) + Total(l, A)
  BY <1>1, <1>4, <1>5, TotalUnion
<1>7. Total(k, R \union B) = Total(k, R) + Total(k, B)
  BY <1>1, <1>4, <1>5, TotalUnion
<1>8. Total(k, R) = Total(l, R)
  BY <1>1, <1>5, TotalEqual, Zenon
<1>9. (\A s \in R : l[s] \in Nat) /\ (\A s \in A : l[s] \in Nat) /\ (\A s \in B : k[s] \in Nat)
  BY <1>1, <1>4, Zenon
<1>10. Total(l, R) \in Nat /\ Total(l, A) \in Nat /\ Total(k, B) \in Nat
  BY <1>5, <1>9, TotalNat, Zenon
<1> QED
  BY <1>2, <1>3, <1>6, <1>7, <1>8, <1>10

(* update_manifest_generic keeps the indexes equal to the manifests.        *)
LEMMA IndexedUpdateKeeps ==
    ASSUME IndexInv, NEW o \in ObjectId, NEW slots \in SUBSET Slot,
           NEW target \in [slots -> Osd \union {None}], NEW resized \in SUBSET slots,
           NEW l \in [resized -> Size], NEW e, NEW v \in Nat,
           NsmTypeOK', IndexedUpdate(o, slots, target, resized, l, e, v)
    PROVE  IndexTypeOK' /\ DeviceObjectsMatch' /\ BucketsMatch' /\ SizesMatch'
<1> DEFINE live == {i \in ObjectId : Live(i)}
           live2 == {i \in ObjectId : objects'[i] # None}
           newLen == [s \in Slot |-> IF s \in resized THEN l[s] ELSE len[o][s]]
<1> USE NoneAssumption
<1>1. PICK old, m, k : /\ old = objects[o]
                       /\ m = UpdatedManifest(objects[o], slots, target, v)
                       /\ k = newLen
  BY Zenon
<1>2. /\ Live(o) /\ objects' = [objects EXCEPT ![o] = m] /\ len' = [len EXCEPT ![o] = k]
      /\ device_objects' = DeviceObjectsAfter(o, old, m)
      /\ osd_size' = [d \in Osd |-> osd_size[d] + OsdSizeChange(d, old, len[o], slots, target, k)]
      /\ storage_size' = storage_size + SummedSizes(k) - SummedSizes(len[o])
      /\ UNCHANGED <<preset, preset_version>>
  BY <1>1, Zenon DEF IndexedUpdate, UpdateManifest
<1>3. IF BucketOf(old) # BucketOf(m)
      THEN /\ policies' = (policies \ {<<BucketOf(old), o>>}) \union {<<BucketOf(m), o>>}
           /\ policies_cnt' = [policies_cnt EXCEPT ![BucketOf(old)] = @ - 1, ![BucketOf(m)] = @ + 1]
      ELSE policies' = policies /\ policies_cnt' = policies_cnt
  BY <1>1, Zenon DEF IndexedUpdate, BucketChanged
<1>4. /\ old \in Manifest /\ len \in [ObjectId -> [Slot -> Nat]] /\ len[o] \in [Slot -> Nat]
      /\ objects \in [ObjectId -> Manifest \union {None}]
  BY <1>1, <1>2, Zenon DEF IndexInv, IndexTypeOK, NsmTypeOK, Live
<1>5. k \in [Slot -> Nat] /\ \A s \in Slot \ slots : k[s] = len[o][s]
  BY <1>1, <1>4, IndexAssumption, Zenon
<1>6. m # None /\ \A s \in Slot : m.osd[s] = IF s \in slots THEN target[s] ELSE old.osd[s]
  <2>1. m.osd = [s \in Slot |-> IF s \in slots THEN target[s] ELSE objects[o].osd[s]]
    BY <1>1, Zenon DEF UpdatedManifest
  <2>2. m \in Manifest
    BY <1>1, <1>4, Zenon DEF UpdatedManifest, Manifest
  <2> QED
    BY <1>1, <2>1, <2>2, Zenon
<1>7. /\ live2 = live /\ o \in live /\ live \in SUBSET ObjectId
      /\ \A i \in live \ {o} : objects'[i] = objects[i] /\ len'[i] = len[i]
      /\ objects[o] = old /\ objects'[o] = m /\ len'[o] = k
  BY <1>1, <1>2, <1>4, <1>6, Zenon DEF Live
<1>8. IsFiniteSet(live)
  BY <1>7, IndexAssumption, FS_Subset, Zenon
<1>9. len' \in [ObjectId -> [Slot -> Nat]]
  BY <1>2, <1>4, <1>5, Zenon
<1>10. DeviceObjectsMatch'
  <2> DEFINE D == {x \in Osd \X ObjectId : objects[x[2]] # None /\ x[1] \in OsdsUsed(objects[x[2]])}
             D2 == {x \in Osd \X ObjectId : objects'[x[2]] # None /\ x[1] \in OsdsUsed(objects'[x[2]])}
             new == (OsdsUsed(m) \ OsdsUsed(old)) \X {o}
             gone == (OsdsUsed(old) \ OsdsUsed(m)) \X {o}
  <2>1. device_objects = D
    BY Zenon DEF IndexInv, DeviceObjectsMatch, Live
  <2>2. device_objects' = (device_objects \union new) \ gone
    BY <1>2, Zenon DEF DeviceObjectsAfter
  <2>3. \A x : OsdsUsed(x) \subseteq Osd
    BY Zenon DEF OsdsUsed
  <2>4. ASSUME NEW d \in Osd, NEW i \in ObjectId
        PROVE  <<d, i>> \in device_objects' <=> <<d, i>> \in D2
    <3>1. <<d, i>> \in new <=> i = o /\ d \in OsdsUsed(m) /\ d \notin OsdsUsed(old)
      BY Zenon
    <3>2. <<d, i>> \in gone <=> i = o /\ d \in OsdsUsed(old) /\ d \notin OsdsUsed(m)
      BY Zenon
    <3>3. <<d, i>> \in D <=> i \in live /\ d \in OsdsUsed(objects[i])
      BY Zenon DEF Live
    <3>4. <<d, i>> \in D2 <=> i \in live2 /\ d \in OsdsUsed(objects'[i])
      BY Zenon
    <3> HIDE DEF D, D2, new, gone, live, live2
    <3> QED
      BY <3>1, <3>2, <3>3, <3>4, <2>1, <2>2, <1>7, Zenon
  <2>5. device_objects' \subseteq Osd \X ObjectId /\ D2 \subseteq Osd \X ObjectId
    BY <2>1, <2>2, <2>3, Zenon
  <2>6. device_objects' = D2
    <3> HIDE DEF D2
    <3> QED
      BY <2>4, <2>5
  <2> QED
    BY <2>6, Zenon DEF DeviceObjectsMatch, Live
<1>11. SizesMatch'
  <2>1. ASSUME NEW d \in Osd
        PROVE  osd_size'[d] = Total([i \in live2 |-> SizeOn(d, objects'[i], len'[i])], live2)
    <3> DEFINE f == [i \in live |-> SizeOn(d, objects[i], len[i])]
               g == [i \in live2 |-> SizeOn(d, objects'[i], len'[i])]
    <3>1. osd_size[d] = Total(f, live)
      BY Zenon DEF IndexInv, SizesMatch
    <3>2. osd_size'[d] = osd_size[d] + OsdSizeChange(d, old, len[o], slots, target, k)
      BY <1>2, Zenon
    <3>3. /\ OsdSizeChange(d, old, len[o], slots, target, k) \in Int
          /\ SizeOn(d, m, k) = SizeOn(d, old, len[o]) + OsdSizeChange(d, old, len[o], slots, target, k)
      <4>1. PICK lo : lo = len[o]
        BY Zenon
      <4>2. lo \in [Slot -> Nat] /\ k \in [Slot -> Nat] /\ slots \in SUBSET Slot
        BY <1>4, <1>5, <4>1, Zenon
      <4>3. \A s \in Slot \ slots : k[s] = lo[s]
        BY <1>5, <4>1, Zenon
      <4>4. \A s \in Slot : m.osd[s] = IF s \in slots THEN target[s] ELSE old.osd[s]
        BY <1>6, Zenon
      <4>5. /\ OsdSizeChange(d, old, lo, slots, target, k) \in Int
            /\ SizeOn(d, m, k) = SizeOn(d, old, lo) + OsdSizeChange(d, old, lo, slots, target, k)
        <5> HIDE DEF live, live2, newLen, f, g
        <5> HIDE NoneAssumption
        <5> QED
          BY <4>2, <4>3, <4>4, SizeOnChange
      <4> QED
        BY <4>1, <4>5, Zenon
    <3>4. /\ \A i \in live : f[i] \in Nat
          /\ \A i \in live : g[i] \in Nat
      BY <1>4, <1>7, <1>9, SizesAreNat, Zenon
    <3>5. /\ \A i \in live \ {o} : g[i] = f[i]
          /\ g[o] = SizeOn(d, m, k) /\ f[o] = SizeOn(d, old, len[o])
      BY <1>7, Zenon
    <3> HIDE DEF f, g, live, live2
    <3>6. Total(g, live) = Total(f, live) + g[o] - f[o]
      <4>1. o \in live /\ (\A i \in live : f[i] \in Nat) /\ (\A i \in live : g[i] \in Nat)
            /\ (\A i \in live \ {o} : g[i] = f[i])
        BY <1>7, <3>4, <3>5, Zenon
      <4> QED
        BY <4>1, <1>8, TotalReplace, ZenonT(30)
    <3>7. Total(f, live) \in Nat /\ f[o] \in Nat /\ g[o] \in Nat
      BY <1>7, <1>8, <3>4, TotalNat, Zenon
    <3>8. osd_size'[d] = Total(g, live)
      <4>1. PICK a, b, c, x, y : /\ a = Total(f, live) /\ b = f[o] /\ c = g[o] /\ y = Total(g, live)
                                 /\ x = OsdSizeChange(d, old, len[o], slots, target, k)
        BY Zenon
      <4>2. a \in Nat /\ b \in Nat /\ c \in Nat /\ x \in Int
        BY <3>3, <3>7, <4>1, Zenon
      <4>3. c = b + x
        BY <3>3, <3>5, <4>1, Zenon
      <4>4. y = a + c - b
        BY <3>6, <4>1, Zenon
      <4>5. osd_size'[d] = a + x
        BY <3>1, <3>2, <4>1, Zenon
      <4>6. y = a + x
        BY <4>2, <4>3, <4>4
      <4> QED
        BY <4>1, <4>5, <4>6, Zenon
    <3> QED
      BY <3>8, <1>7, Zenon DEF g
  <2>2. storage_size' = Total([i \in live2 |-> SummedSizes(len'[i])], live2)
    <3> DEFINE f == [i \in live |-> SummedSizes(len[i])]
               g == [i \in live2 |-> SummedSizes(len'[i])]
    <3>1. storage_size = Total(f, live)
      BY Zenon DEF IndexInv, SizesMatch
    <3>3. /\ \A i \in live : f[i] \in Nat
          /\ \A i \in live : g[i] \in Nat
      BY <1>4, <1>7, <1>9, SizesAreNat, Zenon
    <3>4. /\ \A i \in live \ {o} : g[i] = f[i]
          /\ g[o] = SummedSizes(k) /\ f[o] = SummedSizes(len[o])
      BY <1>7, Zenon
    <3> HIDE DEF f, g, live, live2
    <3>5. Total(g, live) = Total(f, live) + g[o] - f[o]
      <4>1. o \in live /\ (\A i \in live : f[i] \in Nat) /\ (\A i \in live : g[i] \in Nat)
            /\ (\A i \in live \ {o} : g[i] = f[i])
        BY <1>7, <3>3, <3>4, Zenon
      <4> QED
        BY <4>1, <1>8, TotalReplace, ZenonT(30)
    <3>6. storage_size' = Total(g, live)
      BY <1>2, <3>1, <3>4, <3>5, Zenon
    <3> QED
      BY <3>6, <1>7, Zenon DEF g
  <2> QED
    BY <2>1, <2>2, Zenon DEF SizesMatch, Live
<1>12. BucketsMatch'
  <2>b. PICK ob, nb : ob = BucketOf(old) /\ nb = BucketOf(m)
    BY Zenon
  <2>t. ob \in Bucket /\ nb \in Bucket
    BY <2>b, BucketOfType, Zenon
  <2>o. /\ \A i \in live \ {o} : BucketOf(objects'[i]) = BucketOf(objects[i])
        /\ BucketOf(objects[o]) = ob /\ BucketOf(objects'[o]) = nb
    BY <2>b, <1>7, Zenon
  <2> DEFINE P == {x \in Bucket \X ObjectId : objects[x[2]] # None /\ BucketOf(objects[x[2]]) = x[1]}
             P2 == {x \in Bucket \X ObjectId : objects'[x[2]] # None /\ BucketOf(objects'[x[2]]) = x[1]}
  <2>1. policies = P
    BY Zenon DEF IndexInv, BucketsMatch, Live
  <2>2. policies' = IF ob # nb THEN (policies \ {<<ob, o>>}) \union {<<nb, o>>} ELSE policies
    BY <1>3, <2>b, Zenon
  <2>3. ASSUME NEW b \in Bucket, NEW i \in ObjectId
        PROVE  <<b, i>> \in policies' <=> <<b, i>> \in P2
    <3>1. <<b, i>> \in P <=> i \in live /\ b = BucketOf(objects[i])
      BY Zenon DEF Live
    <3>2. <<b, i>> \in P2 <=> i \in live2 /\ b = BucketOf(objects'[i])
      BY Zenon
    <3> HIDE DEF P, P2, live, live2
    <3> QED
      BY <3>1, <3>2, <2>1, <2>2, <2>o, <1>7, Zenon
  <2>4. policies' \subseteq Bucket \X ObjectId /\ P2 \subseteq Bucket \X ObjectId
    BY <2>t, <2>1, <2>2
  <2>5. policies' = P2
    <3> HIDE DEF P2, Bucket
    <3> QED
      BY <2>3, <2>4
  <2>6. ASSUME NEW b \in Bucket
        PROVE  policies_cnt'[b] =
                 Cardinality({i \in ObjectId : objects'[i] # None /\ BucketOf(objects'[i]) = b})
    <3> DEFINE S == {i \in ObjectId : objects[i] # None /\ BucketOf(objects[i]) = b}
               S2 == {i \in ObjectId : objects'[i] # None /\ BucketOf(objects'[i]) = b}
    <3>1. policies_cnt[b] = Cardinality(S) /\ policies_cnt \in [Bucket -> Nat]
      BY Zenon DEF IndexInv, IndexTypeOK, BucketsMatch, Live
    <3>2. IsFiniteSet(S)
      BY IndexAssumption, FS_Subset, Zenon
    <3>3. /\ \A i \in ObjectId : i \in S <=> i \in live /\ BucketOf(objects[i]) = b
          /\ \A i \in ObjectId : i \in S2 <=> i \in live2 /\ BucketOf(objects'[i]) = b
          /\ S \in SUBSET ObjectId /\ S2 \in SUBSET ObjectId
      BY Zenon DEF Live
    <3> HIDE DEF S, S2, live, live2
    <3>4. CASE ob = nb \/ (b # ob /\ b # nb)
      <4>1. S2 = S
        BY <3>3, <3>4, <2>o, <1>7, Zenon
      <4>2. policies_cnt'[b] = policies_cnt[b]
        BY <3>4, <2>b, <2>t, <3>1, <1>3, Zenon
      <4> QED
        BY <4>1, <4>2, <3>1, Zenon DEF S2
    <3>5. CASE ob # nb /\ b = ob
      <4>1. S2 = S \ {o} /\ o \in S
        BY <3>3, <3>5, <2>o, <1>7, Zenon
      <4>2. policies_cnt'[b] = policies_cnt[b] - 1
        BY <3>5, <2>b, <2>t, <3>1, <1>3, Zenon
      <4>3. Cardinality(S2) = Cardinality(S) - 1
        BY <4>1, <3>2, FS_RemoveElement, Zenon
      <4> QED
        BY <4>2, <4>3, <3>1, Zenon DEF S2
    <3>6. CASE ob # nb /\ b = nb
      <4>1. S2 = S \union {o} /\ o \notin S
        BY <3>3, <3>6, <2>o, <1>7, Zenon
      <4>2. policies_cnt'[b] = policies_cnt[b] + 1
        BY <3>6, <2>b, <2>t, <3>1, <1>3, Zenon
      <4>3. Cardinality(S2) = Cardinality(S) + 1
        BY <4>1, <3>2, FS_AddElement, Zenon
      <4> QED
        BY <4>2, <4>3, <3>1, Zenon DEF S2
    <3> QED
      BY <3>4, <3>5, <3>6, Zenon
  <2> QED
    BY <2>5, <2>6, Zenon DEF BucketsMatch, Live
<1>13. PartlyTyped'
  <2>1. policies_cnt' = [b \in Bucket |-> policies_cnt'[b]]
    BY <1>3, Zenon DEF IndexInv, IndexTypeOK
  <2> QED
    BY <1>2, <1>9, <2>1, Zenon DEF PartlyTyped, IndexInv, IndexTypeOK
<1>14. PartlyTyped' /\ DeviceObjectsMatch' /\ BucketsMatch' /\ SizesMatch' => IndexTypeOK'
  BY MatchingIndexesAreTyped, PTL
<1> QED
  BY <1>10, <1>11, <1>12, <1>13, <1>14, Zenon

(* A manifest of an upload is a manifest.                                   *)
LEMMA UploadsAreManifests == Uploads \subseteq Manifest
BY NewManifestType, TimestampAssumption DEF Uploads

(* put_object with its bookkeeping.                                         *)
LEMMA IndexedPutKeeps ==
    ASSUME IndexInv, NsmInv', NEW allow, NEW o \in ObjectId, NEW m \in Manifest,
           NEW l \in [Slot -> Nat], NEW e, IndexedPut(allow, o, m, l, e)
    PROVE  IndexInv'
<1> USE NoneAssumption
<1>1. PICK olds, news : /\ olds = {names[m.name]} \ {None}
                        /\ news = [i \in {o} |-> [manifest |-> m, len |-> l]]
  BY Zenon
<1>2. DOMAIN news = {o} /\ \A i \in DOMAIN news : news[i].manifest = m /\ news[i].len = l
  BY <1>1, Zenon
<1>3. m.name \in Name /\ names[m.name] \in ObjectId \union {None}
  BY Zenon DEF Manifest, IndexInv, IndexTypeOK, NsmTypeOK
<1>4. olds \in SUBSET ObjectId /\ \A i \in olds : Live(i)
  <2>1. \A n \in Name : names[n] # None => Live(names[n])
    BY Zenon DEF IndexInv, NsmInv, NamesMatchObjects
  <2> QED
    BY <1>1, <1>3, <2>1, Zenon
<1>5. \A i \in DOMAIN news : ~ Live(i)
  BY <1>2, Zenon DEF IndexedPut, PutObject, PutAllowed, Live
<1>6. objects' = [i \in ObjectId |-> IF i \in DOMAIN news THEN news[i].manifest
                                     ELSE IF i \in olds THEN None ELSE objects[i]]
  <2>1. objects' = [i \in ObjectId |-> IF i = o THEN m
                                       ELSE IF i = names[m.name] THEN None ELSE objects[i]]
    BY Zenon DEF IndexedPut, PutObject
  <2>2. \A i \in ObjectId : (i \in olds <=> i = names[m.name]) /\ (i \in DOMAIN news <=> i = o)
    BY <1>1, <1>2, Zenon
  <2> QED
    BY <1>2, <2>1, <2>2, Zenon
<1>7. Reindex(olds, news)
  BY <1>1, Zenon DEF IndexedPut
<1>8. NsmTypeOK'
  BY Zenon DEF NsmInv
<1>9. /\ DOMAIN news \in SUBSET ObjectId
      /\ \A i \in DOMAIN news : news[i].manifest \in Manifest /\ news[i].len \in [Slot -> Nat]
  BY <1>2, Zenon
<1> QED
  BY <1>4, <1>5, <1>6, <1>7, <1>8, <1>9, ReindexKeeps, Zenon DEF IndexInv

(* delete_object with its bookkeeping.                                      *)
LEMMA IndexedDeleteKeeps ==
    ASSUME IndexInv, NsmInv', NEW n \in Name, NEW allow, IndexedDelete(n, allow)
    PROVE  IndexInv'
<1> USE NoneAssumption
<1>1. PICK olds, news : olds = {names[n]} \ {None} /\ news = << >>
  BY Zenon
<1>2. DOMAIN news = {}
  BY <1>1
<1>3. names[n] \in ObjectId
  BY Zenon DEF IndexInv, IndexTypeOK, NsmTypeOK, IndexedDelete, DeleteObject
<1>4. olds \in SUBSET ObjectId /\ \A i \in olds : Live(i)
  BY <1>1, <1>3 DEF IndexInv, NsmInv, NamesMatchObjects
<1>5. objects' = [i \in ObjectId |-> IF i \in DOMAIN news THEN news[i].manifest
                                     ELSE IF i \in olds THEN None ELSE objects[i]]
  <2>1. objects' = [objects EXCEPT ![names[n]] = None]
    BY Zenon DEF IndexedDelete, DeleteObject
  <2>2. objects \in [ObjectId -> Manifest \union {None}]
    BY Zenon DEF IndexInv, IndexTypeOK, NsmTypeOK
  <2>3. \A i \in ObjectId : i \in olds <=> i = names[n]
    BY <1>1, Zenon
  <2> QED
    BY <1>2, <2>1, <2>2, <2>3, Zenon
<1>6. Reindex(olds, news) /\ NsmTypeOK'
  BY <1>1, Zenon DEF IndexedDelete, NsmInv
<1>7. /\ DOMAIN news \in SUBSET ObjectId /\ \A i \in DOMAIN news : ~ Live(i)
      /\ \A i \in DOMAIN news : news[i].manifest \in Manifest /\ news[i].len \in [Slot -> Nat]
  BY <1>2, Zenon
<1> QED
  BY <1>4, <1>5, <1>6, <1>7, ReindexKeeps, Zenon DEF IndexInv

(* apply_sequence with its bookkeeping: all puts and deletes of a sequence  *)
(* are about different objects, so they may be summed up.                   *)
LEMMA IndexedSequenceKeeps ==
    ASSUME IndexInv, NsmInv', NEW asserts, NEW ns \in SUBSET Name, NEW puts \in SequencePuts(ns),
           NEW lens \in [ns -> [Slot -> Nat]], NEW dels \in SUBSET (Name \ ns),
           IndexedSequence(asserts, puts, lens, dels)
    PROVE  IndexInv'
<1> DEFINE oids == {puts[n].oid : n \in DOMAIN puts}
           put(o) == CHOOSE n \in DOMAIN puts : puts[n].oid = o
<1> USE NoneAssumption
<1>1. PICK olds, news :
        /\ olds = {names[n] : n \in DOMAIN puts \union dels} \ {None}
        /\ news = [o \in oids |-> [manifest |-> puts[put(o)].manifest, len |-> lens[put(o)]]]
  BY Zenon
<1>2. DOMAIN puts = ns /\ \A n \in ns : puts[n].oid \in ObjectId /\ puts[n].manifest \in Manifest
  BY UploadsAreManifests, Zenon DEF SequencePuts
<1>3. DOMAIN news = oids /\ \A o \in oids : /\ put(o) \in ns /\ puts[put(o)].oid = o
                                            /\ news[o].manifest = puts[put(o)].manifest
                                            /\ news[o].len = lens[put(o)]
  BY <1>1, <1>2, Zenon
<1>4. olds \in SUBSET ObjectId /\ \A i \in olds : Live(i)
  BY <1>1, <1>2 DEF IndexInv, NsmInv, NsmTypeOK, NamesMatchObjects
<1>5. \A i \in oids : ~ Live(i)
  <2>1. \A n \in DOMAIN puts : objects[puts[n].oid] = None
    BY Zenon DEF IndexedSequence, ApplySequence, PutAllowed
  <2> QED
    BY <2>1, Zenon DEF Live
<1>6. objects' = [i \in ObjectId |-> IF i \in DOMAIN news THEN news[i].manifest
                                     ELSE IF i \in olds THEN None ELSE objects[i]]
  <2>1. objects' = [i \in ObjectId |->
                      IF \E n \in DOMAIN puts : puts[n].oid = i
                      THEN puts[CHOOSE n \in DOMAIN puts : puts[n].oid = i].manifest
                      ELSE IF i \in olds THEN None ELSE objects[i]]
    BY <1>1, Zenon DEF IndexedSequence, ApplySequence
  <2>2. \A i : i \in oids <=> \E n \in DOMAIN puts : puts[n].oid = i
    BY Zenon
  <2>3. ASSUME NEW i \in ObjectId
        PROVE  objects'[i] = IF i \in DOMAIN news THEN news[i].manifest
                             ELSE IF i \in olds THEN None ELSE objects[i]
    <3>1. CASE i \in oids
      BY <2>1, <2>2, <1>3, <3>1, Zenon
    <3>2. CASE i \notin oids
      BY <2>1, <2>2, <1>3, <3>2, Zenon
    <3> QED
      BY <3>1, <3>2, Zenon
  <2> QED
    BY <2>1, <2>3, Zenon
<1>7. Reindex(olds, news) /\ NsmTypeOK'
  BY <1>1, Zenon DEF IndexedSequence, NsmInv
<1>8. /\ DOMAIN news \in SUBSET ObjectId /\ \A i \in DOMAIN news : ~ Live(i)
      /\ \A i \in DOMAIN news : news[i].manifest \in Manifest /\ news[i].len \in [Slot -> Nat]
  <2>1. oids \in SUBSET ObjectId
    BY <1>2, Zenon
  <2>2. ASSUME NEW i \in oids PROVE news[i].manifest \in Manifest /\ news[i].len \in [Slot -> Nat]
    <3>1. put(i) \in ns /\ news[i].manifest = puts[put(i)].manifest /\ news[i].len = lens[put(i)]
      BY <1>3, Zenon
    <3> HIDE DEF put
    <3> QED
      BY <1>2, <3>1, Zenon
  <2> HIDE DEF oids
  <2> QED
    BY <1>3, <1>5, <2>1, <2>2, Zenon
<1> QED
  BY <1>4, <1>6, <1>7, <1>8, ReindexKeeps, Zenon DEF IndexInv

(* The indexes start out matching the empty namespace.                      *)
LEMMA IndexInitKeeps == IndexInit => IndexInv
<1> SUFFICES ASSUME IndexInit PROVE IndexInv
  BY Zenon
<1>1. \A o \in ObjectId : objects[o] = None
  BY Zenon DEF IndexInit, NsmInit
<1>2. NsmInv
  BY NoneAssumption, Zenon DEF IndexInit, NsmInit, NsmInv, NsmTypeOK, NamesMatchObjects,
                        FragmentVersionsBounded, Live
<1>3. DeviceObjectsMatch
  BY <1>1, Zenon DEF IndexInit, DeviceObjectsMatch, Live
<1>4. BucketsMatch
  <2>1. policies = {x \in Bucket \X ObjectId : Live(x[2]) /\ BucketOf(objects[x[2]]) = x[1]}
    BY <1>1, Zenon DEF IndexInit, Live
  <2>2. \A b \in Bucket : {o \in ObjectId : Live(o) /\ BucketOf(objects[o]) = b} = {}
    BY <1>1, Zenon DEF Live
  <2>3. \A b \in Bucket : policies_cnt[b] = 0
    BY Zenon DEF IndexInit
  <2> QED
    BY <2>1, <2>2, <2>3, FS_EmptySet, Zenon DEF BucketsMatch
<1>5. SizesMatch
  <2> DEFINE live == {o \in ObjectId : Live(o)}
  <2>1. live = {}
    BY <1>1, Zenon DEF Live
  <2> HIDE DEF live
  <2>2. \A f : Total(f, live) = 0
    BY <2>1, TotalEmpty, Zenon
  <2>3. storage_size = 0 /\ \A d \in Osd : osd_size[d] = 0
    BY Zenon DEF IndexInit
  <2>4. /\ \A d \in Osd : osd_size[d] = Total([o \in live |-> SizeOn(d, objects[o], len[o])], live)
        /\ storage_size = Total([o \in live |-> SummedSizes(len[o])], live)
    BY <2>2, <2>3, Zenon
  <2> QED
    BY <2>4, Zenon DEF SizesMatch, live
<1>6. PartlyTyped
  BY <1>2 DEF IndexInit, NsmInv, PartlyTyped
<1> QED
  BY <1>2, <1>3, <1>4, <1>5, <1>6, MatchingIndexesAreTyped, Zenon DEF IndexInv

(* An update of some slots is one of update_manifest's, whatever the target *)
(* of the other slots.                                                      *)
LEMMA UpdateOfSlots ==
    ASSUME NEW o, NEW slots \in SUBSET Slot, NEW target \in [slots -> Osd \union {None}],
           NEW e, NEW v, UpdateManifest(o, slots, target, e, v)
    PROVE  \E t \in Target : UpdateManifest(o, slots, t, e, v)
<1> DEFINE t == [s \in Slot |-> IF s \in slots THEN target[s] ELSE None]
<1>1. t \in Target
  BY Zenon DEF Target
<1>2. \A s \in Slot : s \in slots => t[s] = target[s]
  BY Zenon
<1> HIDE DEF t
<1>3. \A m : UpdatedManifest(m, slots, t, v) = UpdatedManifest(m, slots, target, v)
  <2> TAKE m
  <2>1. [s \in Slot |-> IF s \in slots THEN t[s] ELSE m.osd[s]] =
        [s \in Slot |-> IF s \in slots THEN target[s] ELSE m.osd[s]]
    BY <1>2, Zenon
  <2> QED
    BY <2>1, Zenon DEF UpdatedManifest
<1>4. UpdateManifest(o, slots, t, e, v)
  BY <1>3, Zenon DEF UpdateManifest
<1> QED
  BY <1>1, <1>4, Zenon

(* Every step of the manager with its indexes is one of the manager, or     *)
(* changes only the preset.                                                 *)
LEMMA IndexStepIsNsmStep == IndexNext => NsmNext \/ UNCHANGED nsmVars
<1>1. ASSUME NEW allow \in Overwrite, NEW o \in ObjectId, NEW m \in Uploads, NEW l \in Lens,
             NEW e \in 0 .. MaxEpoch, IndexedPut(allow, o, m, l, e)
      PROVE  NsmNext
  BY <1>1, Zenon DEF IndexedPut, NsmNext
<1>2. ASSUME NEW n \in Name, NEW allow \in Overwrite, IndexedDelete(n, allow)
      PROVE  NsmNext
  BY <1>2, Zenon DEF IndexedDelete, NsmNext
<1>3. ASSUME NEW ns \in SUBSET Name, NEW puts \in SequencePuts(ns), NEW lens \in [ns -> Lens],
             NEW dels \in SUBSET (Name \ ns), IndexedSequence(<< >>, puts, lens, dels)
      PROVE  NsmNext
  <2> DEFINE none == [n \in {} |-> None]
  <2>1. ApplySequence(<< >>, puts, dels)
    BY <1>3, Zenon DEF IndexedSequence
  <2>2. {} \in SUBSET Name /\ none \in [{} -> ObjectId \union {None}] /\ DOMAIN none = {}
    BY Zenon
  <2>3. DOMAIN << >> = {}
    OBVIOUS
  <2> HIDE DEF none
  <2>4. ApplySequence(none, puts, dels)
    BY <2>1, <2>2, <2>3, Zenon DEF ApplySequence
  <2>5. \E as \in SUBSET Name : \E asserts \in [as -> ObjectId \union {None}] :
          ApplySequence(asserts, puts, dels)
    BY <2>2, <2>4, Zenon
  <2> QED
    BY <2>5, Zenon DEF NsmNext
<1>4. ASSUME NEW o \in ObjectId, NEW slots \in SUBSET Slot, NEW e \in 0 .. MaxEpoch,
             NEW v \in 0 .. MaxVersion, NEW target \in [slots -> Osd \union {None}],
             NEW resized, NEW l, IndexedUpdate(o, slots, target, resized, l, e, v)
      PROVE  NsmNext
  <2>1. UpdateManifest(o, slots, target, e, v)
    BY <1>4, Zenon DEF IndexedUpdate
  <2>2. PICK t \in Target : UpdateManifest(o, slots, t, e, v)
    BY <2>1, UpdateOfSlots, Zenon
  <2> QED
    BY <2>2, Zenon DEF NsmNext
<1>5. ASSUME NEW p, NEW v, UpdatePreset(p, v)
      PROVE  UNCHANGED nsmVars
  BY <1>5, Zenon DEF UpdatePreset
<1>6. ASSUME \/ \E e \in 0 .. MaxEpoch : EnableGcEpoch(e)
             \/ \E e \in 0 .. MaxEpoch : DisableGcEpoch(e)
             \/ \E d \in Osd : CleanupOsdKeysToBeDeleted(d)
             \/ \E d \in Osd : LinkOsd(d)
             \/ \E d \in Osd : UnlinkOsd(d)
      PROVE  NsmNext
  BY <1>6, Zenon DEF NsmNext
<1> QED
  BY <1>1, <1>2, <1>3, <1>4, <1>5, <1>6, Zenon DEF IndexNext

(* The manager that keeps indexes implements the one that does not: its     *)
(* preset's policies and its bookkeeping may refuse an operation but never  *)
(* change what it does to names, objects, epochs and keys to be deleted.    *)
THEOREM IndexesImplementNsm == IndexSpec => NsmSpec
<1>1. IndexInit => NsmInit
  BY Zenon DEF IndexInit
<1>2. [IndexNext]_indexedVars => [NsmNext]_nsmVars
  BY IndexStepIsNsmStep, Zenon DEF indexedVars
<1> QED
  BY <1>1, <1>2, PTL DEF IndexSpec, NsmSpec

(* No operation breaks the agreement of the indexes with the manifests.     *)
LEMMA IndexStepKeeps == IndexInv /\ [IndexNext]_indexedVars => IndexInv'
<1> SUFFICES ASSUME IndexInv, [IndexNext]_indexedVars PROVE IndexInv'
  BY Zenon
<1>0. NsmInv'
  <2>1. NsmInv /\ [NsmNext]_nsmVars
    BY IndexStepIsNsmStep, Zenon DEF IndexInv, indexedVars
  <2> QED
    BY <2>1, NsmStepKeeps, Zenon
<1>l. Lens \subseteq [Slot -> Nat]
  BY IndexAssumption, Zenon DEF Lens
<1>1. ASSUME NEW allow \in Overwrite, NEW o \in ObjectId, NEW m \in Uploads, NEW l \in Lens,
             NEW e \in 0 .. MaxEpoch, IndexedPut(allow, o, m, l, e)
      PROVE  IndexInv'
  BY <1>0, <1>l, <1>1, UploadsAreManifests, IndexedPutKeeps, Zenon
<1>2. ASSUME NEW n \in Name, NEW allow \in Overwrite, IndexedDelete(n, allow)
      PROVE  IndexInv'
  BY <1>0, <1>2, IndexedDeleteKeeps, Zenon
<1>3. ASSUME NEW ns \in SUBSET Name, NEW puts \in SequencePuts(ns), NEW lens \in [ns -> Lens],
             NEW dels \in SUBSET (Name \ ns), IndexedSequence(<< >>, puts, lens, dels)
      PROVE  IndexInv'
  <2>1. lens \in [ns -> [Slot -> Nat]]
    BY <1>l, Zenon
  <2> QED
    BY <1>0, <1>3, <2>1, IndexedSequenceKeeps, Zenon
<1>4. ASSUME NEW o \in ObjectId, NEW slots \in SUBSET Slot, NEW e \in 0 .. MaxEpoch,
             NEW v \in 0 .. MaxVersion, NEW target \in [slots -> Osd \union {None}],
             NEW resized \in SUBSET slots, NEW l \in [resized -> Size],
             IndexedUpdate(o, slots, target, resized, l, e, v)
      PROVE  IndexInv'
  <2>1. v \in Nat /\ NsmTypeOK'
    BY <1>0, BoundsAssumption DEF NsmInv
  <2> QED
    BY <1>0, <1>4, <2>1, IndexedUpdateKeeps, Zenon DEF IndexInv
<1>5. ASSUME UNCHANGED <<objects, len, device_objects, osd_size, storage_size, policies, policies_cnt>>,
             preset' \subseteq Policy, preset_version' \in Int
      PROVE  IndexInv'
  <2>1. DeviceObjectsMatch' /\ BucketsMatch'
    BY <1>5, Zenon DEF IndexInv, DeviceObjectsMatch, BucketsMatch, Live
  <2>2. SizesMatch'
    BY <1>5, Zenon DEF IndexInv, SizesMatch, Live
  <2> QED
    BY <1>0, <1>5, <2>1, <2>2, Zenon DEF IndexInv, NsmInv, IndexTypeOK
<1>6. ASSUME NEW p \in SUBSET Policy, NEW v \in 0 .. MaxPreset, UpdatePreset(p, v)
      PROVE  IndexInv'
  <2>1. UNCHANGED <<objects, len, device_objects, osd_size, storage_size, policies, policies_cnt>>
        /\ preset' \subseteq Policy /\ preset_version' \in Int
    BY <1>6, IndexAssumption DEF UpdatePreset, nsmVars
  <2> QED
    BY <2>1, <1>5, Zenon
<1>7. ASSUME \/ \E e \in 0 .. MaxEpoch : EnableGcEpoch(e) /\ UNCHANGED indexVars
             \/ \E e \in 0 .. MaxEpoch : DisableGcEpoch(e) /\ UNCHANGED indexVars
             \/ \E d \in Osd : CleanupOsdKeysToBeDeleted(d) /\ UNCHANGED indexVars
             \/ \E d \in Osd : LinkOsd(d) /\ UNCHANGED indexVars
             \/ \E d \in Osd : UnlinkOsd(d) /\ UNCHANGED indexVars
             \/ UNCHANGED indexedVars
      PROVE  IndexInv'
  <2>1. UNCHANGED indexVars /\ objects' = objects
    BY <1>7, Zenon DEF EnableGcEpoch, DisableGcEpoch, CleanupOsdKeysToBeDeleted, MarkKeysDeleted,
                LinkOsd, UnlinkOsd, indexedVars, nsmVars
  <2> QED
    BY <2>1, <1>5, Zenon DEF indexVars, IndexInv, IndexTypeOK
<1> QED
  BY <1>1, <1>2, <1>3, <1>4, <1>6, <1>7, Zenon DEF IndexNext

(* The invariant holds in every state.                                      *)
LEMMA IndexInvHolds == IndexSpec => []IndexInv
BY IndexInitKeeps, IndexStepKeeps, PTL DEF IndexSpec

(* The values of the indexes are in range: no size and no counter, kept by  *)
(* adding and subtracting, ever becomes negative, and every object is       *)
(* filed under a bucket that exists.                                        *)
THEOREM IndexesAreTyped == IndexSpec => []IndexTypeOK
BY IndexInvHolds, PTL DEF IndexInv

(* list_device_objects finds exactly the objects with a fragment on the OSD *)
(* (put_object, cleanup_for_object_id, update_device_object_mapping).       *)
THEOREM DeviceObjectsAlwaysMatch == IndexSpec => []DeviceObjectsMatch
BY IndexInvHolds, PTL DEF IndexInv

(* Every object is in the bucket of its present fragments and in no other,  *)
(* and the counters count them.                                             *)
THEOREM BucketsAlwaysMatch == IndexSpec => []BucketsMatch
BY IndexInvHolds, PTL DEF IndexInv

(* The sizes per OSD and of the namespace are those of the live manifests.  *)
THEOREM SizesAlwaysMatch == IndexSpec => []SizesMatch
BY IndexInvHolds, PTL DEF IndexInv

(* What is proved of the namespace manager holds with its indexes too.      *)
THEOREM IndexesKeepNames ==
    IndexSpec => /\ []NamesMatchObjects /\ []FragmentVersionsBounded
                 /\ VersionsAndEpochsGrow /\ UnlinkedKeysAreListed
BY IndexesImplementNsm, NsmCorrect, NsmNeverGoesBack, NsmForgetsNothing, PTL
=============================================================================
