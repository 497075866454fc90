---------------------------- MODULE DiagnosisProofs ---------------------------
(***************************************************************************)
(* Theorems about Diagnosis, for any services, dependencies, clusters and  *)
(* settings.                                                               *)
(***************************************************************************)
EXTENDS Diagnosis, TLAPS, FunctionTheorems, FiniteSetTheorems, SequenceTheorems,
        WellFoundedInduction

-------------------------------------------------------------------------------
(* Finite sets: extrema, images and sums.                                  *)

\* A family of subsets of a finite set has a member that contains no other.
LEMMA SmallestSet ==
    ASSUME NEW S, IsFiniteSet(S), NEW U \in SUBSET (SUBSET S), U # {}
    PROVE  \E T \in U : \A V \in U : V \subseteq T => V = T
<1>0. IsWellFoundedOn(StrictSubsetOrdering(S), SUBSET S)
  BY FS_StrictSubsetOrderingWellFounded, FS_FiniteSubsetsOfFinite, Zenon
<1>1. PICK T \in U : \A V \in U : ~ (<<V, T>> \in StrictSubsetOrdering(S))
  BY <1>0, WFMin, Zenon
<1>2. \A V \in U : V \subseteq T /\ V # T => <<V, T>> \in StrictSubsetOrdering(S)
  BY Zenon DEF StrictSubsetOrdering
<1>3. \A V \in U : V \subseteq T => V = T
  BY <1>1, <1>2, Zenon
<1>. QED
  BY <1>3, Zenon

\* One token for each unit of v[x], x in S: their number is the sum of these.
Units(v, S) == {t \in S \X Nat : t[2] \in 1 .. v[t[1]]}

\* The units of a finite set are those of one member and those of the others.
LEMMA UnitsSplit ==
    ASSUME NEW T, IsFiniteSet(T), NEW v, \A x \in T : v[x] \in Nat
    PROVE  /\ IsFiniteSet(Units(v, T))
           /\ \A x \in T : Cardinality(Units(v, T)) = v[x] + Cardinality(Units(v, T \ {x}))
<1>1. ASSUME NEW x \in T
      PROVE  IsFiniteSet(Units(v, {x})) /\ Cardinality(Units(v, {x})) = v[x]
  <2>1. v[x] \in Nat
    OBVIOUS
  <2>2. IsFiniteSet(1 .. v[x]) /\ Cardinality(1 .. v[x]) = v[x]
    <3>1. PICK n \in Nat : n = v[x]
      BY <2>1
    <3>2. IsFiniteSet(1 .. n) /\ Cardinality(1 .. n) = n
      BY FS_Interval
    <3>. QED
      BY <3>1, <3>2
  <2>3. IsFiniteSet({x}) /\ Cardinality({x}) = 1
    BY FS_Singleton
  <2>4. PICK X, B : X = {x} /\ B = 1 .. v[x]
    OBVIOUS
  <2>5. IsFiniteSet(X \X B) /\ Cardinality(X \X B) = Cardinality(X) * Cardinality(B)
    BY <2>2, <2>3, <2>4, FS_Product
  <2>6. Units(v, {x}) = X \X B
    BY <2>1, <2>4 DEF Units
  <2>7. Cardinality(X \X B) = 1 * v[x]
    BY <2>2, <2>3, <2>4, <2>5
  <2>8. 1 * v[x] = v[x]
    BY <2>1
  <2>. QED
    BY <2>5, <2>6, <2>7, <2>8, Zenon
<1>2. IsFiniteSet(Units(v, T))
  <2>1. PICK n : n = [x \in T |-> Units(v, {x})]
    OBVIOUS
  <2>2. PICK P : P = {Units(v, {x}) : x \in T}
    OBVIOUS
  <2>3. IsFiniteSet(P)
    <3>1. n \in Surjection(T, P)
      BY <2>1, <2>2 DEF Surjection
    <3>. QED
      BY <3>1, FS_Surjection
  <2>4. \A Q \in P : IsFiniteSet(Q)
    BY <1>1, <2>2
  <2>5. Units(v, T) = UNION P
    BY <2>2 DEF Units
  <2>. QED
    BY <2>3, <2>4, <2>5, FS_UNION
<1>3. ASSUME NEW x \in T
      PROVE  Cardinality(Units(v, T)) = v[x] + Cardinality(Units(v, T \ {x}))
  <2>1. PICK A : A = Units(v, {x})
    OBVIOUS
  <2>2. PICK B : B = Units(v, T \ {x})
    OBVIOUS
  <2>3. Units(v, T) = A \cup B /\ A \cap B = {} /\ B \subseteq Units(v, T)
    BY <2>1, <2>2 DEF Units
  <2>4. IsFiniteSet(A) /\ Cardinality(A) = v[x] /\ IsFiniteSet(B)
    BY <1>1, <1>2, <2>1, <2>3, FS_Subset
  <2>5. Cardinality(A \cup B) = Cardinality(A) + Cardinality(B) - Cardinality(A \cap B)
    BY <2>4, FS_Union
  <2>6. Cardinality(A \cap B) = 0 /\ Cardinality(A) \in Nat /\ Cardinality(B) \in Nat
    BY <2>3, <2>4, FS_EmptySet, FS_CardinalityType
  <2>7. Cardinality(A \cup B) = v[x] + Cardinality(B)
    <3>1. v[x] \in Nat
      OBVIOUS
    <3>. QED
      BY <2>4, <2>5, <2>6, <3>1
  <2>. QED
    BY <2>2, <2>3, <2>7, Zenon
<1>. QED
  BY <1>2, <1>3

\* The recursion that MapThenSumSet stands for.
IsSum(f, v, S) ==
    f = [T \in SUBSET S |-> IF T = {} THEN 0
                           ELSE v[CHOOSE x \in T : TRUE] + f[T \ {CHOOSE x \in T : TRUE}]]

\* The recursion that defines a sum over a finite set has a solution.
LEMMA SumExists ==
    ASSUME NEW S, IsFiniteSet(S), NEW v, \A x \in S : v[x] \in Nat
    PROVE  \E f : IsSum(f, v, S)
<1> DEFINE h == [T \in SUBSET S |-> Cardinality(Units(v, T))]
<1>1. h[{}] = 0
  <2>1. Units(v, {}) = {}
    BY DEF Units
  <2>. QED
    BY <2>1, FS_EmptySet
<1>2. ASSUME NEW T \in SUBSET S, T # {}
      PROVE  h[T] = v[CHOOSE x \in T : TRUE] + h[T \ {CHOOSE x \in T : TRUE}]
  <2>1. PICK x \in T : x = CHOOSE y \in T : TRUE
    BY <1>2
  <2>2. IsFiniteSet(T) /\ T \ {x} \in SUBSET S
    BY FS_Subset
  <2>3. \A y \in T : Cardinality(Units(v, T)) = v[y] + Cardinality(Units(v, T \ {y}))
    <3>1. \A y \in T : v[y] \in Nat
      OBVIOUS
    <3>. QED
      BY <2>2, <3>1, UnitsSplit
  <2>. QED
    BY <2>1, <2>2, <2>3
<1>3. h = [T \in SUBSET S |->
              IF T = {} THEN 0
              ELSE v[CHOOSE x \in T : TRUE] + h[T \ {CHOOSE x \in T : TRUE}]]
  BY <1>1, <1>2
<1>. HIDE DEF h
<1>4. IsSum(h, v, S)
  BY <1>3, Zenon DEF IsSum
<1>. QED
  BY <1>4, Zenon

\* A sum of numbers is the number of their units.
LEMMA SumIsUnits ==
    ASSUME NEW S, IsFiniteSet(S), NEW v, \A x \in S : v[x] \in Nat, NEW f, IsSum(f, v, S)
    PROVE  f[S] = Cardinality(Units(v, S)) /\ f[S] \in Nat
<1>1. f = [T \in SUBSET S |-> IF T = {} THEN 0
                             ELSE v[CHOOSE x \in T : TRUE] + f[T \ {CHOOSE x \in T : TRUE}]]
  BY Zenon DEF IsSum
<1> DEFINE Bad == {T \in SUBSET S : f[T] # Cardinality(Units(v, T))}
<1>2. ASSUME Bad # {} PROVE FALSE
  <2>1. PICK T \in Bad : \A V \in Bad : V \subseteq T => V = T
    <3>1. PICK U : U = Bad
      OBVIOUS
    <3>2. U \in SUBSET (SUBSET S) /\ U # {}
      BY <1>2, <3>1
    <3>3. \E V \in U : \A W \in U : W \subseteq V => W = V
      BY <3>2, SmallestSet
    <3>. QED
      BY <3>1, <3>3, Zenon
  <2>2. CASE T = {}
    <3>1. f[T] = 0
      BY <1>1, <2>1, <2>2
    <3>2. Units(v, T) = {}
      BY <2>2 DEF Units
    <3>. QED
      BY <2>1, <3>1, <3>2, FS_EmptySet
  <2>3. CASE T # {}
    <3>1. PICK x \in T : x = CHOOSE y \in T : TRUE
      BY <2>3
    <3>2. T \ {x} \in SUBSET S /\ T \in SUBSET S /\ x \in S
      BY <2>1
    <3>3. f[T] = v[x] + f[T \ {x}]
      BY <1>1, <2>3, <3>1, <3>2
    <3>4. T \ {x} \notin Bad
      BY <2>1
    <3>5. Cardinality(Units(v, T)) = v[x] + Cardinality(Units(v, T \ {x}))
      <4>1. IsFiniteSet(T) /\ \A y \in T : v[y] \in Nat
        BY <3>2, FS_Subset
      <4>2. \A y \in T : Cardinality(Units(v, T)) = v[y] + Cardinality(Units(v, T \ {y}))
        BY <4>1, UnitsSplit
      <4>. QED
        BY <4>2
    <3>. QED
      BY <2>1, <3>2, <3>3, <3>4, <3>5
  <2>. QED
    BY <2>2, <2>3
<1>3. f[S] = Cardinality(Units(v, S))
  BY <1>2
<1>. QED
  BY <1>3, UnitsSplit, FS_CardinalityType

\* A sum is at least each of its parts, and at least any two together;
LEMMA UnitsAtLeast ==
    ASSUME NEW T, IsFiniteSet(T), NEW v, \A x \in T : v[x] \in Nat
    PROVE  /\ Cardinality(Units(v, T)) \in Nat
           /\ \A x \in T : v[x] <= Cardinality(Units(v, T))
           /\ \A x, y \in T : x # y => v[x] + v[y] <= Cardinality(Units(v, T))
<1>1. ASSUME NEW x \in T
      PROVE  /\ IsFiniteSet(T \ {x}) /\ Cardinality(Units(v, T \ {x})) \in Nat
             /\ \A y \in T \ {x} :
                   /\ Cardinality(Units(v, (T \ {x}) \ {y})) \in Nat
                   /\ Cardinality(Units(v, T \ {x})) = v[y] + Cardinality(Units(v, (T \ {x}) \ {y}))
  <2>1. PICK R : R = T \ {x}
    OBVIOUS
  <2>2. IsFiniteSet(R) /\ \A y \in R : v[y] \in Nat
    BY <2>1, FS_Subset
  <2>3. /\ IsFiniteSet(Units(v, R))
        /\ \A y \in R : Cardinality(Units(v, R)) = v[y] + Cardinality(Units(v, R \ {y}))
    BY <2>2, UnitsSplit
  <2>4. ASSUME NEW y \in R PROVE Cardinality(Units(v, R \ {y})) \in Nat
    <3>1. IsFiniteSet(R \ {y}) /\ \A z \in R \ {y} : v[z] \in Nat
      BY <2>2, FS_Subset
    <3>2. IsFiniteSet(Units(v, R \ {y}))
      BY <3>1, UnitsSplit
    <3>. QED
      BY <3>2, FS_CardinalityType
  <2>. QED
    BY <2>1, <2>2, <2>3, <2>4, FS_CardinalityType
<1>2. /\ Cardinality(Units(v, T)) \in Nat
      /\ \A x \in T : Cardinality(Units(v, T)) = v[x] + Cardinality(Units(v, T \ {x}))
  BY UnitsSplit, FS_CardinalityType
<1>3. ASSUME NEW x \in T PROVE v[x] <= Cardinality(Units(v, T))
  <2>1. PICK k, m \in Nat : k = v[x] /\ m = Cardinality(Units(v, T \ {x}))
    BY <1>1
  <2>2. Cardinality(Units(v, T)) = k + m
    BY <1>2, <2>1
  <2>3. k <= k + m
    OBVIOUS
  <2>. QED
    BY <2>1, <2>2, <2>3
<1>4. ASSUME NEW x \in T, NEW y \in T, x # y PROVE v[x] + v[y] <= Cardinality(Units(v, T))
  <2>1. y \in T \ {x}
    BY <1>4
  <2>2. PICK k, l, m \in Nat :
           k = v[x] /\ l = v[y] /\ m = Cardinality(Units(v, (T \ {x}) \ {y}))
    BY <1>1, <2>1
  <2>3. Cardinality(Units(v, T \ {x})) = l + m
    BY <1>1, <2>1, <2>2
  <2>4. Cardinality(Units(v, T)) = k + (l + m)
    BY <1>2, <2>2, <2>3
  <2>5. k + l <= k + (l + m)
    OBVIOUS
  <2>. QED
    BY <2>2, <2>4, <2>5
<1>. QED
  BY <1>2, <1>3, <1>4

\* and where all parts but two are nothing it is no more than these.
LEMMA UnitsAtMost ==
    ASSUME NEW T, IsFiniteSet(T), NEW v, \A x \in T : v[x] \in Nat,
           NEW y, NEW z, NEW B \in Nat, NEW D \in Nat, y # z,
           y \in T => v[y] <= B, z \in T => v[z] <= D,
           \A x \in T : x # y /\ x # z => v[x] = 0
    PROVE  Cardinality(Units(v, T)) <= B + D
<1>1. ASSUME NEW R \in SUBSET T, \A x \in R : v[x] = 0 PROVE Cardinality(Units(v, R)) = 0
  <2>1. Units(v, R) = {}
    BY <1>1 DEF Units
  <2>. QED
    BY <2>1, FS_EmptySet
<1>2. ASSUME NEW R \in SUBSET T, NEW x \in R
      PROVE  Cardinality(Units(v, R)) = v[x] + Cardinality(Units(v, R \ {x}))
  <2>1. IsFiniteSet(R) /\ \A w \in R : v[w] \in Nat
    BY FS_Subset
  <2>. QED
    BY <2>1, UnitsSplit
<1>3. PICK R : R = T \ {y}
  OBVIOUS
<1>4. Cardinality(Units(v, R)) \in Nat /\ Cardinality(Units(v, R)) <= D
  <2>1. CASE z \in R
    <3>1. Cardinality(Units(v, R \ {z})) = 0
      BY <1>1, <1>3
    <3>2. v[z] \in Nat /\ v[z] <= D
      BY <1>3, <2>1
    <3>3. Cardinality(Units(v, R)) = v[z] + Cardinality(Units(v, R \ {z}))
      BY <1>2, <1>3, <2>1
    <3>. QED
      BY <3>1, <3>2, <3>3
  <2>2. CASE z \notin R
    <3>1. Cardinality(Units(v, R)) = 0
      BY <1>1, <1>3, <2>2
    <3>. QED
      BY <3>1
  <2>. QED
    BY <2>1, <2>2
<1>5. CASE y \in T
  <2>1. v[y] \in Nat /\ v[y] <= B
    BY <1>5
  <2>2. Cardinality(Units(v, T)) = v[y] + Cardinality(Units(v, R))
    BY <1>2, <1>3, <1>5
  <2>. QED
    BY <1>4, <2>1, <2>2
<1>6. CASE y \notin T
  <2>1. R = T
    BY <1>3, <1>6
  <2>. QED
    BY <1>4, <2>1
<1>. QED
  BY <1>5, <1>6

\* Of the sets a function gives the members of a finite set, one contains no other.
LEMMA SmallestValue ==
    ASSUME NEW S, IsFiniteSet(S), S # {}
    PROVE  \A f \in [S -> SUBSET S] :
              \E x \in S : \A y \in S : f[y] \subseteq f[x] => f[y] = f[x]
<1> TAKE f \in [S -> SUBSET S]
<1>1. PICK U : U = {f[x] : x \in S}
  OBVIOUS
<1>2. U \in SUBSET (SUBSET S) /\ U # {}
  BY <1>1
<1>3. \E T \in U : \A V \in U : V \subseteq T => V = T
  BY <1>2, SmallestSet
<1>. QED
  BY <1>1, <1>3

\* A finite set of integers has a largest member.
LEMMA MaxFacts ==
    ASSUME NEW S, S \subseteq Int, IsFiniteSet(S), S # {}
    PROVE  Max(S) \in S /\ \A y \in S : Max(S) >= y
<1>1. \E x \in S : \A y \in S : x >= y
  <2>1. PICK f : f = [x \in S |-> {y \in S : y >= x}]
    OBVIOUS
  <2>2. f \in [S -> SUBSET S]
    BY <2>1
  <2>0. \A y \in S : y \in Int
    OBVIOUS
  <2>3. PICK x \in S : \A y \in S : f[y] \subseteq f[x] => f[y] = f[x]
    <3>1. \A g \in [S -> SUBSET S] :
             \E x \in S : \A y \in S : g[y] \subseteq g[x] => g[y] = g[x]
      BY SmallestValue
    <3>. QED
      BY <2>2, <3>1, Zenon
  <2>4. \A y, z \in S : z \in f[y] <=> z >= y
    BY <2>1
  <2>5. ASSUME NEW y \in S, y >= x PROVE x >= y
    <3>1. \A z \in S : z \in f[y] => z \in f[x]
      BY <2>4, <2>5
    <3>2. f[y] \subseteq f[x]
      <4>1. f[y] \subseteq S
        BY <2>2
      <4>. QED
        BY <3>1, <4>1, Zenon
    <3>3. x \in f[x]
      <4>1. x >= x
        BY <2>0
      <4>. QED
        BY <2>4, <4>1, Zenon
    <3>. QED
      BY <2>3, <2>4, <3>2, <3>3, Zenon
  <2>. QED
    BY <2>5
<1>. QED
  BY <1>1 DEF Max

\* A finite set of integers has a smallest member.
LEMMA MinFacts ==
    ASSUME NEW S, S \subseteq Int, IsFiniteSet(S), S # {}
    PROVE  Min(S) \in S /\ \A y \in S : Min(S) <= y
<1>1. \E x \in S : \A y \in S : x <= y
  <2>1. PICK f : f = [x \in S |-> {y \in S : y <= x}]
    OBVIOUS
  <2>2. f \in [S -> SUBSET S]
    BY <2>1
  <2>0. \A y \in S : y \in Int
    OBVIOUS
  <2>3. PICK x \in S : \A y \in S : f[y] \subseteq f[x] => f[y] = f[x]
    <3>1. \A g \in [S -> SUBSET S] :
             \E x \in S : \A y \in S : g[y] \subseteq g[x] => g[y] = g[x]
      BY SmallestValue
    <3>. QED
      BY <2>2, <3>1, Zenon
  <2>4. \A y, z \in S : z \in f[y] <=> z <= y
    BY <2>1
  <2>5. ASSUME NEW y \in S, y <= x PROVE x <= y
    <3>1. \A z \in S : z \in f[y] => z \in f[x]
      BY <2>4, <2>5
    <3>2. f[y] \subseteq f[x]
      <4>1. f[y] \subseteq S
        BY <2>2
      <4>. QED
        BY <3>1, <4>1, Zenon
    <3>3. x \in f[x]
      <4>1. x <= x
        BY <2>0
      <4>. QED
        BY <2>4, <4>1, Zenon
    <3>. QED
      BY <2>3, <2>4, <3>2, <3>3, Zenon
  <2>. QED
    BY <2>5
<1>. QED
  BY <1>1 DEF Min

\* The values of a function on a finite set.
LEMMA FiniteImage ==
    ASSUME NEW S, IsFiniteSet(S), NEW f
    PROVE  IsFiniteSet({f[x] : x \in S}) /\ Cardinality({f[x] : x \in S}) \in Nat
<1>1. PICK g : g = [x \in S |-> f[x]]
  OBVIOUS
<1>2. PICK T : T = {f[x] : x \in S}
  OBVIOUS
<1>3. g \in Surjection(S, T)
  BY <1>1, <1>2 DEF Surjection
<1>. QED
  BY <1>2, <1>3, FS_Surjection, FS_CardinalityType

\* The largest of a finite set of numbers and one that is at least 1.
LEMMA LargestIsPositive ==
    ASSUME NEW S \in SUBSET Int, IsFiniteSet(S), NEW n \in Nat \ {0}
    PROVE  Max({n} \cup S) \in Nat \ {0}
<1>1. PICK T : T = {n} \cup S
  OBVIOUS
<1>2. IsFiniteSet(S \cup {n}) /\ S \cup {n} = T
  BY <1>1, FS_AddElement
<1>3. T \in SUBSET Int /\ T # {} /\ n \in T
  BY <1>1
<1>4. Max(T) \in Int /\ Max(T) >= n
  BY <1>2, <1>3, MaxFacts
<1>. QED
  BY <1>1, <1>4

\* A share of the unit is a number.
LEMMA ShareIsNat ==
    ASSUME NEW x \in Nat, NEW w \in Nat \ {0}
    PROVE  Share(x, w) \in Nat
BY DEF Share, Unit

\* Division rounds down.
LEMMA ShareBounds ==
    ASSUME NEW x \in Nat, NEW w \in Nat \ {0}, NEW k \in Nat
    PROVE  /\ k * w <= 10000 * x => k <= Share(x, w)
           /\ 10000 * x < (k + 1) * w => Share(x, w) <= k
<1>1. PICK y \in Nat : y = 10000 * x
  OBVIOUS
<1>2. PICK q \in Nat : q = y \div w
  OBVIOUS
<1>3. q * w <= y /\ y < (q + 1) * w
  BY <1>2
<1>4. Share(x, w) = q
  BY <1>1, <1>2 DEF Share, Unit
<1>5. ASSUME NEW m \in Nat, NEW n \in Nat, m <= n PROVE m * w <= n * w
  BY <1>5
<1>6. k * w <= y => k <= q
  <2> SUFFICES ASSUME q < k PROVE ~ (k * w <= y)
    OBVIOUS
  <2>1. q + 1 \in Nat /\ q + 1 <= k
    OBVIOUS
  <2>2. (q + 1) * w <= k * w /\ (q + 1) * w \in Nat /\ k * w \in Nat
    BY <1>5, <2>1
  <2>. QED
    BY <1>3, <2>2
<1>7. y < (k + 1) * w => q <= k
  <2> SUFFICES ASSUME k < q PROVE ~ (y < (k + 1) * w)
    OBVIOUS
  <2>1. k + 1 \in Nat /\ k + 1 <= q
    OBVIOUS
  <2>2. (k + 1) * w <= q * w /\ q * w \in Nat /\ (k + 1) * w \in Nat
    BY <1>5, <2>1
  <2>. QED
    BY <1>3, <2>2
<1>. QED
  BY <1>1, <1>4, <1>6, <1>7

\* A larger part has no smaller share,
LEMMA ShareMonotone ==
    ASSUME NEW x \in Nat, NEW y \in Nat, x <= y, NEW w \in Nat \ {0}
    PROVE  Share(x, w) <= Share(y, w)
<1>1. PICK q \in Nat : q = Share(x, w)
  BY ShareIsNat
<1>2. q * w <= 10000 * x
  <2>1. PICK z \in Nat : z = 10000 * x
    OBVIOUS
  <2>2. q = z \div w
    BY <1>1, <2>1 DEF Share, Unit
  <2>. QED
    BY <2>1, <2>2
<1>3. PICK p \in Nat : p = q * w
  OBVIOUS
<1>4. q * w <= 10000 * y
  BY <1>2, <1>3
<1>. QED
  BY <1>1, <1>4, ShareBounds

\* and the whole has the unit.
LEMMA ShareOfWhole ==
    ASSUME NEW x \in Nat, NEW w \in Nat \ {0}
    PROVE  /\ x <= w => Share(x, w) <= 10000
           /\ x = w => Share(x, w) = 10000
           /\ x = 0 => Share(x, w) = 0
<1>1. x <= w => 10000 * x < (10000 + 1) * w
  OBVIOUS
<1>2. x = w => 10000 * w <= 10000 * x
  OBVIOUS
<1>3. Share(x, w) \in Nat
  BY ShareIsNat
<1>4. x = 0 => 10000 * x < (0 + 1) * w
  OBVIOUS
<1>5. (10000 * x < (10000 + 1) * w => Share(x, w) <= 10000)
      /\ (10000 * w <= 10000 * x => 10000 <= Share(x, w))
  <2>1. 10000 \in Nat
    OBVIOUS
  <2>. QED
    BY <2>1, ShareBounds
<1>6. 10000 * x < (0 + 1) * w => Share(x, w) <= 0
  <2>1. 0 \in Nat
    OBVIOUS
  <2>. QED
    BY <2>1, ShareBounds
<1>7. x = w => x <= w
  OBVIOUS
<1>. QED
  BY <1>1, <1>2, <1>3, <1>4, <1>5, <1>6, <1>7

\* Up to three services: r, another and perhaps a third.
LEMMA UpToThree ==
    ASSUME NEW S, IsFiniteSet(S), Cardinality(S) <= 3, NEW r \in S, NEW a \in S, a # r
    PROVE  \/ S = {r, a} /\ Cardinality(S) = 2
           \/ \E w \in S : S = {r, a, w} /\ w # r /\ w # a /\ Cardinality(S) = 3
<1>1. PICK R : R = (S \ {r}) \ {a}
  OBVIOUS
<1>2. IsFiniteSet(R) /\ Cardinality(R) = Cardinality(S) - 2 /\ Cardinality(S) \in Nat
  <2>1. PICK Q : Q = S \ {r}
    OBVIOUS
  <2>2. IsFiniteSet(Q) /\ Cardinality(Q) = Cardinality(S) - 1 /\ Cardinality(S) \in Nat
    BY <2>1, FS_RemoveElement, FS_CardinalityType
  <2>3. IsFiniteSet(Q \ {a}) /\ Cardinality(Q \ {a}) = Cardinality(Q) - 1
    BY <2>1, <2>2, FS_RemoveElement
  <2>. QED
    BY <1>1, <2>1, <2>2, <2>3
<1>3. Cardinality(R) \in Nat
  BY <1>2, FS_CardinalityType
<1>4. CASE Cardinality(R) = 0
  <2>1. R = {}
    BY <1>2, <1>4, FS_EmptySet
  <2>. QED
    BY <1>1, <1>2, <1>4, <2>1
<1>5. CASE Cardinality(R) = 1
  <2>1. PICK w : R = {w}
    BY <1>2, <1>5, FS_Singleton
  <2>. QED
    BY <1>1, <1>2, <1>5, <2>1
<1>. QED
  BY <1>2, <1>3, <1>4, <1>5

\* The data of a cluster.
LEMMA ClusterFacts ==
    ASSUME NEW c \in Clusters
    PROVE  /\ c.service \in Services /\ c.first \in Nat /\ c.last \in Nat /\ c.first <= c.last
           /\ c.score \in Nat /\ c.events \in Nat /\ c.signals \in Nat /\ c.critical \in BOOLEAN
BY ClustersAssumption DEF L!ClusterType

\* The settings are numbers.
LEMMA SettingsFacts ==
    /\ MaxGap \in Nat /\ MaxSpan \in Nat /\ Overlap \in Nat /\ MaxSize \in Nat
    /\ MaxLag \in Nat \ {0} /\ TopK \in Nat \ {0}
BY ConfigAssumption

\* A candidate's clusters and services are finitely many.
LEMMA EvidenceFacts ==
    ASSUME evidence \in Seq(Clusters)
    PROVE  /\ DOMAIN evidence \subseteq Nat /\ IsFiniteSet(DOMAIN evidence)
           /\ \A n \in DOMAIN evidence : evidence[n] \in Clusters
           /\ ServicesOf(evidence) \subseteq Services /\ IsFiniteSet(ServicesOf(evidence))
<1>1. DOMAIN evidence = 1 .. Len(evidence) /\ Len(evidence) \in Nat
  OBVIOUS
<1>2. \A n \in DOMAIN evidence : evidence[n] \in Clusters
  OBVIOUS
<1>3. IsFiniteSet(DOMAIN evidence)
  <2>1. IsFiniteSet(1 .. Len(evidence))
    BY <1>1, FS_Interval
  <2>. QED
    BY <1>1, <2>1
<1>4. ServicesOf(evidence) \subseteq Services
  BY <1>2, ClusterFacts DEF ServicesOf
<1>. QED
  BY <1>1, <1>2, <1>3, <1>4, ServicesAssumption, FS_Subset

\* The evidence of a service is one of its clusters.
LEMMA EvidenceMapFacts ==
    ASSUME evidence \in Seq(Clusters)
    PROVE  /\ DOMAIN EvidenceMap = ServicesOf(evidence)
           /\ \A s \in ServicesOf(evidence) :
                 /\ EvidenceMap[s] \in DOMAIN evidence
                 /\ evidence[EvidenceMap[s]].service = s
<1>1. DOMAIN EvidenceMap = ServicesOf(evidence)
  BY DEF EvidenceMap
<1>2. ASSUME NEW s \in ServicesOf(evidence)
      PROVE  EvidenceMap[s] \in DOMAIN evidence /\ evidence[EvidenceMap[s]].service = s
  <2>1. PICK S : S = {n \in DOMAIN evidence : evidence[n].service = s}
    OBVIOUS
  <2>2. S \subseteq DOMAIN evidence /\ S # {}
    BY <2>1 DEF ServicesOf
  <2>3. IsFiniteSet(S) /\ S \subseteq Int
    BY <2>2, EvidenceFacts, FS_Subset
  <2>4. Max(S) \in S
    BY <2>2, <2>3, MaxFacts
  <2>5. EvidenceMap[s] = Max(S)
    BY <2>1 DEF EvidenceMap
  <2>. QED
    BY <2>1, <2>4, <2>5
<1>. QED
  BY <1>1, <1>2

\* Edges lead from clusters of the candidate to clusters of the candidate.
LEMMA EdgesInside ==
    ASSUME evidence \in Seq(Clusters)
    PROVE  /\ ProvidedEdges \subseteq (DOMAIN evidence) \X (DOMAIN evidence)
           /\ {<<EvidenceMap[p[1]], EvidenceMap[p[2]]>> : p \in Inferred}
                 \subseteq (DOMAIN evidence) \X (DOMAIN evidence)
<1>1. ProvidedEdges \subseteq (DOMAIN evidence) \X (DOMAIN evidence)
  BY DEF ProvidedEdges
<1>2. \A p \in Inferred : p[1] \in ServicesOf(evidence) /\ p[2] \in ServicesOf(evidence)
  BY DEF Inferred
<1>. QED
  BY <1>1, <1>2, EvidenceMapFacts

\* The search looks at depths up to MaxDepth.
LEMMA DepthFacts ==
    ASSUME NEW s, NEW t
    PROVE  Depth(s, t) \in 0 .. 9
<1>1. PICK S : S = {n \in 0 .. MaxDepth : t \notin Seen(s, n)}
  OBVIOUS
<1>2. PICK k \in Nat : k = 8
  OBVIOUS
<1>3. IsFiniteSet(0 .. k) /\ Cardinality(0 .. k) = 9
  <2>1. IsFiniteSet(0 .. k) /\ Cardinality(0 .. k) = k + 1
    BY FS_Interval
  <2>. QED
    BY <1>2, <2>1
<1>4. Cardinality(S) \in Nat /\ Cardinality(S) <= 9
  <2>1. PICK T : T = 0 .. k
    OBVIOUS
  <2>2. S \subseteq T
    BY <1>1, <1>2, <2>1 DEF MaxDepth
  <2>3. IsFiniteSet(T) /\ Cardinality(T) = 9
    BY <1>3, <2>1
  <2>4. IsFiniteSet(S) /\ Cardinality(S) <= Cardinality(T)
    BY <2>2, <2>3, FS_Subset
  <2>. QED
    BY <2>3, <2>4, FS_CardinalityType
<1>. QED
  BY <1>1, <1>4 DEF Depth

\* The weights of edges as numbers.
LEMMA UnitRange ==
    /\ \A k \in Int : 1 <= k /\ k <= 10000 => k \in 1 .. Unit
    /\ \A k \in 1 .. Unit : k \in Nat /\ 1 <= k /\ k <= 10000
<1>1. PICK m \in Nat : m = Unit /\ m = 10000
  BY DEF Unit
<1>2. \A k \in Int : 1 <= k /\ k <= m => k \in 1 .. m
  OBVIOUS
<1>3. \A k \in 1 .. m : k \in Nat /\ 1 <= k /\ k <= m
  OBVIOUS
<1>. QED
  BY <1>1, <1>2, <1>3

\* An inferred edge always has some weight.
LEMMA WeightFacts ==
    ASSUME evidence \in Seq(Clusters),
           NEW s \in ServicesOf(evidence), NEW t \in ServicesOf(evidence)
    PROVE  InferredWeight(s, t) \in 1 .. Unit
<1>1. Lag(s, t) \in Int
  <2>1. evidence[EvidenceMap[s]] \in Clusters /\ evidence[EvidenceMap[t]] \in Clusters
    BY EvidenceMapFacts, EvidenceFacts
  <2>2. evidence[EvidenceMap[s]].first \in Nat /\ evidence[EvidenceMap[t]].first \in Nat
    BY <2>1, ClusterFacts
  <2>. QED
    BY <2>2 DEF Lag
<1>2. Greatest(0, Lag(s, t)) \in Nat
  BY <1>1 DEF Greatest
<1>3. Share(Greatest(0, Lag(s, t)), MaxLag) \in Nat
  <2>1. PICK x \in Nat : x = Greatest(0, Lag(s, t))
    BY <1>2
  <2>. QED
    BY <2>1, SettingsFacts, ShareIsNat
<1>4. PICK q : q = Greatest(Unit \div 5, Unit - Share(Greatest(0, Lag(s, t)), MaxLag))
  OBVIOUS
<1>5. q \in Int /\ 2000 <= q /\ q <= 10000
  <2>1. PICK x \in Nat : x = Share(Greatest(0, Lag(s, t)), MaxLag)
    BY <1>3
  <2>2. q = Greatest(10000 \div 5, 10000 - x)
    BY <1>4, <2>1 DEF Unit
  <2>. QED
    BY <2>2 DEF Greatest
<1>6. PICK d \in 1 .. 10 : d = Depth(t, s) + 1
  BY DepthFacts
<1>7. q \div d \in 1 .. Unit
  <2>1. PICK k \in Int : k = q \div d
    BY <1>5, <1>6
  <2>2. k >= 1
    BY <1>5, <1>6, <2>1
  <2>3. k <= 10000
    BY <1>5, <1>6, <2>1
  <2>. QED
    BY <2>1, <2>2, <2>3, UnitRange
<1>8. InferredWeight(s, t) = q \div d
  BY <1>4, <1>6 DEF InferredWeight
<1>. QED
  BY <1>7, <1>8, Zenon

\* What Rank works on.
Ranking ==
    /\ evidence \in Seq(Clusters) /\ latest = EvidenceMap
    /\ DOMAIN edges \subseteq (DOMAIN evidence) \X (DOMAIN evidence)
    /\ \A e \in DOMAIN edges : edges[e] \in 1 .. Unit

\* Each ranked service has evidence of its own; there are finitely many, and edges too.
LEMMA RankedFacts ==
    ASSUME Ranking
    PROVE  /\ Ranked = ServicesOf(evidence) /\ Ranked \subseteq Services /\ IsFiniteSet(Ranked)
           /\ \A s \in Ranked : Evidence(s) \in Clusters /\ Evidence(s).service = s
           /\ IsFiniteSet(DOMAIN edges) /\ \A e \in DOMAIN edges : edges[e] \in Nat
<1>1. Ranked = ServicesOf(evidence) /\ Ranked \subseteq Services /\ IsFiniteSet(Ranked)
  BY EvidenceFacts, EvidenceMapFacts DEF Ranking, Ranked
<1>2. \A s \in Ranked : Evidence(s) \in Clusters /\ Evidence(s).service = s
  BY <1>1, EvidenceFacts, EvidenceMapFacts DEF Ranking, Evidence
<1>3. IsFiniteSet(DOMAIN edges)
  <2>1. PICK D : D = DOMAIN evidence
    OBVIOUS
  <2>2. IsFiniteSet(D \X D)
    BY <2>1, EvidenceFacts, FS_Product DEF Ranking
  <2>3. DOMAIN edges \subseteq D \X D
    BY <2>1 DEF Ranking
  <2>. QED
    BY <2>2, <2>3, FS_Subset
<1>4. \A e \in DOMAIN edges : edges[e] \in Nat
  <2> SUFFICES ASSUME NEW e \in DOMAIN edges PROVE edges[e] \in Nat
    OBVIOUS
  <2>1. edges[e] \in 1 .. Unit
    BY DEF Ranking
  <2>2. Unit \in Nat
    BY DEF Unit
  <2>. QED
    BY <2>1, <2>2
<1>. QED
  BY <1>1, <1>2, <1>3, <1>4

\* What an edge counts for the causal support of a service, and for what leaves it.
Counted(s) ==
    [e \in DOMAIN edges |->
        (IF Source(e) = s THEN Greatest(Unit \div 10, edges[e]) ELSE 0)
        + (IF Target(e) = s THEN Greatest(Unit \div 20, (6 * edges[e]) \div 10) ELSE 0)]

Leaving(s) == [e \in Outgoing(s) |-> Greatest(Unit \div 10, edges[e])]

\* The causal support of a service is the number of these units,
LEMMA SupportIs ==
    ASSUME Ranking, NEW s
    PROVE  /\ \A e \in DOMAIN edges : Counted(s)[e] \in Nat
           /\ Support(s) = Cardinality(Units(Counted(s), DOMAIN edges)) /\ Support(s) \in Nat
<1> DEFINE counted(e) == (IF Source(e) = s THEN Greatest(Unit \div 10, edges[e]) ELSE 0)
                         + (IF Target(e) = s THEN Greatest(Unit \div 20, (6 * edges[e]) \div 10)
                            ELSE 0)
           D == DOMAIN edges
<1>1. IsFiniteSet(D) /\ \A e \in D : edges[e] \in Nat
  BY RankedFacts
<1>2. PICK v : v = [e \in D |-> counted(e)] /\ v = Counted(s)
  BY Zenon DEF Counted
<1>3. \A e \in D : v[e] = counted(e) /\ v[e] \in Nat
  <2> SUFFICES ASSUME NEW e \in D PROVE counted(e) \in Nat
    BY <1>2
  <2>1. PICK w \in Nat : w = edges[e]
    BY <1>1
  <2>2. Greatest(Unit \div 10, w) \in Nat /\ Greatest(Unit \div 20, (6 * w) \div 10) \in Nat
    BY DEF Greatest, Unit
  <2>. QED
    BY <2>1, <2>2
<1>. HIDE DEF counted, D
<1>4. PICK g : IsSum(g, v, D)
  BY <1>1, <1>3, SumExists
<1>5. g = [T \in SUBSET D |-> IF T = {} THEN 0
                  ELSE counted(CHOOSE x \in T : TRUE) + g[T \ {CHOOSE x \in T : TRUE}]]
  <2>1. g = [T \in SUBSET D |-> IF T = {} THEN 0
                  ELSE v[CHOOSE x \in T : TRUE] + g[T \ {CHOOSE x \in T : TRUE}]]
    BY <1>4, Zenon DEF IsSum
  <2>2. \A T \in SUBSET D : T # {} => v[CHOOSE x \in T : TRUE] = counted(CHOOSE x \in T : TRUE)
    BY <1>3
  <2>. QED
    BY <2>1, <2>2
<1>6. \E h : h = [T \in SUBSET D |-> IF T = {} THEN 0
                  ELSE counted(CHOOSE x \in T : TRUE) + h[T \ {CHOOSE x \in T : TRUE}]]
  BY <1>5, Zenon
<1>7. PICK f : f = CHOOSE h : h = [T \in SUBSET D |-> IF T = {} THEN 0
                  ELSE counted(CHOOSE x \in T : TRUE) + h[T \ {CHOOSE x \in T : TRUE}]]
  OBVIOUS
<1>8. f = [T \in SUBSET D |-> IF T = {} THEN 0
                  ELSE counted(CHOOSE x \in T : TRUE) + f[T \ {CHOOSE x \in T : TRUE}]]
  BY <1>6, <1>7, Zenon
<1>9. IsSum(f, v, D)
  <2>1. \A T \in SUBSET D : T # {} => v[CHOOSE x \in T : TRUE] = counted(CHOOSE x \in T : TRUE)
    BY <1>3
  <2>2. f = [T \in SUBSET D |-> IF T = {} THEN 0
                  ELSE v[CHOOSE x \in T : TRUE] + f[T \ {CHOOSE x \in T : TRUE}]]
    BY <1>8, <2>1
  <2>. QED
    BY <2>2, Zenon DEF IsSum
<1>10. Support(s) = f[D]
  BY <1>7, Zenon DEF Support, Total, FoldSet, MapThenFoldSet, counted, D
<1>11. f[D] = Cardinality(Units(v, D)) /\ f[D] \in Nat
  BY <1>1, <1>3, <1>9, SumIsUnits
<1>12. \A e \in D : Counted(s)[e] \in Nat
  BY <1>2, <1>3
<1>. QED
  BY <1>2, <1>10, <1>11, <1>12, Zenon DEF D

\* and so is the weight of the edges that leave it.
LEMMA WeightedOutIs ==
    ASSUME Ranking, NEW s
    PROVE  /\ \A e \in Outgoing(s) : Leaving(s)[e] \in Nat
           /\ WeightedOut(s) = Cardinality(Units(Leaving(s), Outgoing(s)))
           /\ WeightedOut(s) \in Nat
<1> DEFINE w(e) == Greatest(Unit \div 10, edges[e])
           D == Outgoing(s)
<1>1. IsFiniteSet(D) /\ \A e \in D : edges[e] \in Nat
  BY RankedFacts, FS_Subset DEF Outgoing
<1>2. PICK v : v = [e \in D |-> w(e)] /\ v = Leaving(s)
  BY Zenon DEF Leaving
<1>3. \A e \in D : v[e] = w(e) /\ v[e] \in Nat
  BY <1>1, <1>2 DEF Greatest, Unit
<1>. HIDE DEF w, D
<1>4. PICK g : IsSum(g, v, D)
  BY <1>1, <1>3, SumExists
<1>5. g = [T \in SUBSET D |-> IF T = {} THEN 0
                  ELSE w(CHOOSE x \in T : TRUE) + g[T \ {CHOOSE x \in T : TRUE}]]
  <2>1. g = [T \in SUBSET D |-> IF T = {} THEN 0
                  ELSE v[CHOOSE x \in T : TRUE] + g[T \ {CHOOSE x \in T : TRUE}]]
    BY <1>4, Zenon DEF IsSum
  <2>2. \A T \in SUBSET D : T # {} => v[CHOOSE x \in T : TRUE] = w(CHOOSE x \in T : TRUE)
    BY <1>3
  <2>. QED
    BY <2>1, <2>2
<1>6. \E h : h = [T \in SUBSET D |-> IF T = {} THEN 0
                  ELSE w(CHOOSE x \in T : TRUE) + h[T \ {CHOOSE x \in T : TRUE}]]
  BY <1>5, Zenon
<1>7. PICK f : f = CHOOSE h : h = [T \in SUBSET D |-> IF T = {} THEN 0
                  ELSE w(CHOOSE x \in T : TRUE) + h[T \ {CHOOSE x \in T : TRUE}]]
  OBVIOUS
<1>8. f = [T \in SUBSET D |-> IF T = {} THEN 0
                  ELSE w(CHOOSE x \in T : TRUE) + f[T \ {CHOOSE x \in T : TRUE}]]
  BY <1>6, <1>7, Zenon
<1>9. IsSum(f, v, D)
  <2>1. \A T \in SUBSET D : T # {} => v[CHOOSE x \in T : TRUE] = w(CHOOSE x \in T : TRUE)
    BY <1>3
  <2>2. f = [T \in SUBSET D |-> IF T = {} THEN 0
                  ELSE v[CHOOSE x \in T : TRUE] + f[T \ {CHOOSE x \in T : TRUE}]]
    BY <1>8, <2>1
  <2>. QED
    BY <2>2, Zenon DEF IsSum
<1>10. WeightedOut(s) = f[D]
  BY <1>7, Zenon DEF WeightedOut, Total, FoldSet, MapThenFoldSet, w, D
<1>11. f[D] = Cardinality(Units(v, D)) /\ f[D] \in Nat
  BY <1>1, <1>3, <1>9, SumIsUnits
<1>12. \A e \in D : Leaving(s)[e] \in Nat
  BY <1>2, <1>3
<1>. QED
  BY <1>2, <1>10, <1>11, <1>12, Zenon DEF D

\* The unit, as a number: it is kept folded elsewhere.
LEMMA UnitFacts == Unit \in Nat /\ Unit = 10000 /\ Unit \in Nat \ {0}
BY DEF Unit

\* What is cut off at the unit does not exceed it.
LEMMA LeastFacts ==
    ASSUME NEW x \in Nat
    PROVE  Least(Unit, x) \in Nat /\ Least(Unit, x) <= Unit
BY UnitFacts DEF Least

\* What is raised to one can be divided by.
LEMMA GreatestFacts ==
    ASSUME NEW x \in Int
    PROVE  Greatest(1, x) \in Nat \ {0}
BY DEF Greatest

\* The numbers that f gives the ranked services.
LEMMA RankedValues ==
    ASSUME Ranking, NEW f, \A u \in Ranked : f[u] \in Nat
    PROVE  /\ IsFiniteSet({f[u] : u \in Ranked}) /\ {f[u] : u \in Ranked} \subseteq Int
           /\ \A n \in Nat \ {0} : Max({n} \cup {f[u] : u \in Ranked}) \in Nat \ {0}
<1>1. PICK R : R = Ranked
  OBVIOUS
<1>2. IsFiniteSet(R)
  BY <1>1, RankedFacts
<1>3. PICK S : S = {f[u] : u \in R}
  OBVIOUS
<1>4. IsFiniteSet(S) /\ S \subseteq Int /\ S \in SUBSET Int
  BY <1>1, <1>2, <1>3, FiniteImage
<1>5. \A n \in Nat \ {0} : Max({n} \cup S) \in Nat \ {0}
  BY <1>4, LargestIsPositive
<1>. QED
  BY <1>1, <1>3, <1>4, <1>5, Zenon

\* The parts of a score, each at most the unit: the first,
LEMMA PrecedenceFacts ==
    ASSUME Ranking, NEW s \in Ranked
    PROVE  Precedence(s) \in Int /\ Precedence(s) <= Unit
<1>1. \A u \in Ranked : Evidence(u).first \in Nat /\ Evidence(u).last \in Nat
  BY RankedFacts, ClusterFacts
<1>2. PICK F, E : F = {Evidence(u).first : u \in Ranked} /\ E = {Evidence(u).last : u \in Ranked}
  OBVIOUS
<1>3. IsFiniteSet(F) /\ F \subseteq Int /\ F # {}
  <2>1. PICK f : f = [u \in Ranked |-> Evidence(u).first]
    OBVIOUS
  <2>2. F = {f[u] : u \in Ranked} /\ \A u \in Ranked : f[u] \in Nat
    BY <1>1, <1>2, <2>1
  <2>. QED
    BY <2>2, RankedValues
<1>4. IsFiniteSet(E) /\ E \subseteq Int /\ E # {}
  <2>1. PICK f : f = [u \in Ranked |-> Evidence(u).last]
    OBVIOUS
  <2>2. E = {f[u] : u \in Ranked} /\ \A u \in Ranked : f[u] \in Nat
    BY <1>1, <1>2, <2>1
  <2>. QED
    BY <2>2, RankedValues
<1>5. Min(F) \in F /\ \A y \in F : Min(F) <= y
  BY <1>3, MinFacts
<1>6. Max(E) \in E
  BY <1>4, MaxFacts
<1>7. PICK b \in Int : b = Min(F)
  BY <1>3, <1>5
<1>8. PICK e \in Int : e = Max(E)
  BY <1>4, <1>6
<1>9. PICK x \in Nat : x = Evidence(s).first - b
  <2>1. Evidence(s).first \in F /\ Evidence(s).first \in Nat
    BY <1>1, <1>2
  <2>2. b <= Evidence(s).first
    BY <1>5, <1>7, <2>1
  <2>. QED
    BY <2>1, <2>2
<1>10. PICK w \in Nat \ {0} : w = Greatest(1, e - b)
  BY GreatestFacts
<1>11. Precedence(s) = Unit - Share(x, w)
  BY <1>2, <1>7, <1>8, <1>9, <1>10 DEF Precedence
<1>12. PICK q \in Nat : q = Share(x, w)
  BY ShareIsNat
<1>. QED
  BY <1>11, <1>12, UnitFacts

\* the support by edges (not bounded),
LEMMA SupportFacts ==
    ASSUME Ranking, NEW s \in Ranked
    PROVE  CausalSupport(s) \in Nat
<1>1. PICK f : f = [u \in Ranked |-> Support(u)]
  OBVIOUS
<1>2. \A u \in Ranked : f[u] \in Nat
  BY <1>1, SupportIs
<1>3. {f[u] : u \in Ranked} = {Support(u) : u \in Ranked}
  BY <1>1
<1>4. PICK w \in Nat \ {0} : w = Max({Unit} \cup {f[u] : u \in Ranked})
  <2>1. \A n \in Nat \ {0} : Max({n} \cup {f[u] : u \in Ranked}) \in Nat \ {0}
    BY <1>2, RankedValues
  <2>2. Max({Unit} \cup {f[u] : u \in Ranked}) \in Nat \ {0}
    <3>1. Unit \in Nat \ {0}
      BY UnitFacts
    <3>. QED
      BY <2>1, <3>1, Zenon
  <2>. QED
    BY <2>2, Zenon
<1>5. PICK x \in Nat : x = Support(s)
  BY SupportIs
<1>6. CausalSupport(s) = Share(x, w)
  BY <1>3, <1>4, <1>5 DEF CausalSupport
<1>. QED
  BY <1>6, ShareIsNat

\* the centrality (not bounded),
LEMMA CentralityFacts ==
    ASSUME Ranking, NEW s \in Ranked
    PROVE  Centrality(s) \in Nat
<1>1. \A S : S \subseteq Services => IsFiniteSet(S) /\ Cardinality(S) \in Nat
  BY ServicesAssumption, FS_Subset, FS_CardinalityType
<1>2. \A u \in Services : DependsOn[u] \subseteq Services
  BY GraphAssumption
<1>3. s \in Services
  BY RankedFacts
<1>4. PICK x \in Nat : x = Cardinality(DependsOn[s]) + Cardinality(Callers(s))
  <2>1. Cardinality(DependsOn[s]) \in Nat
    BY <1>1, <1>2, <1>3
  <2>2. Cardinality(Callers(s)) \in Nat
    BY <1>1 DEF Callers
  <2>. QED
    BY <2>1, <2>2
<1>5. PICK d \in Nat \ {0} : d = Max({1} \cup {Cardinality(DependsOn[u]) : u \in Services})
  <2>1. PICK f : f = [u \in Services |-> Cardinality(DependsOn[u])]
    OBVIOUS
  <2>2. PICK S : S = {f[u] : u \in Services}
    OBVIOUS
  <2>3. IsFiniteSet(S)
    BY <2>2, ServicesAssumption, FiniteImage
  <2>4. S \in SUBSET Int /\ S = {Cardinality(DependsOn[u]) : u \in Services}
    BY <1>1, <1>2, <2>1, <2>2
  <2>5. Max({1} \cup S) \in Nat \ {0}
    BY <2>3, <2>4, LargestIsPositive
  <2>. QED
    BY <2>4, <2>5
<1>6. Centrality(s) = Least(Unit, Share(x, 2 * d))
  BY <1>4, <1>5 DEF Centrality
<1>7. PICK w \in Nat \ {0} : w = 2 * d
  OBVIOUS
<1>8. PICK q \in Nat : q = Share(x, w)
  BY ShareIsNat
<1>. QED
  BY <1>6, <1>7, <1>8, LeastFacts

\* the anomaly,
LEMMA AnomalyFacts ==
    ASSUME Ranking, NEW s \in Ranked
    PROVE  Anomaly(s) \in Nat /\ Anomaly(s) <= Unit
<1>1. \A u \in Ranked : Evidence(u).score \in Nat /\ Evidence(u).signals \in Nat
  BY RankedFacts, ClusterFacts
<1>2. PICK f : f = [u \in Ranked |-> Evidence(u).score]
  OBVIOUS
<1>3. {f[u] : u \in Ranked} = {Evidence(u).score : u \in Ranked} /\ \A u \in Ranked : f[u] \in Nat
  BY <1>1, <1>2
<1>4. PICK w \in Nat \ {0} : w = Max({10} \cup {f[u] : u \in Ranked})
  <2>1. \A n \in Nat \ {0} : Max({n} \cup {f[u] : u \in Ranked}) \in Nat \ {0}
    BY <1>3, RankedValues
  <2>2. 10 \in Nat \ {0}
    OBVIOUS
  <2>3. Max({10} \cup {f[u] : u \in Ranked}) \in Nat \ {0}
    BY <2>1, <2>2, Zenon
  <2>. QED
    BY <2>3, Zenon
<1>5. PICK x \in Nat : x = Share(Evidence(s).score, w)
  BY <1>1, ShareIsNat
<1>6. PICK y \in Nat : y = Diversity(s)
  <2>1. PICK k \in Nat : k = Evidence(s).signals
    BY <1>1
  <2>2. PICK q \in Nat : q = Share(k, 3)
    BY ShareIsNat
  <2>. QED
    BY <2>1, <2>2, LeastFacts DEF Diversity
<1>7. PICK z \in Nat : z = (65 * x + 35 * y) \div 100
  OBVIOUS
<1>8. Anomaly(s) = Least(Unit, z)
  BY <1>3, <1>4, <1>5, <1>6, <1>7 DEF Anomaly
<1>. QED
  BY <1>8, LeastFacts

\* the blast radius,
LEMMA BlastFacts ==
    ASSUME Ranking, NEW s \in Ranked
    PROVE  BlastRadius(s) \in Nat /\ BlastRadius(s) <= Unit
<1>1. PICK O : O = Outgoing(s)
  OBVIOUS
<1>2. PICK t \in Nat : t = Cardinality({Target(e) : e \in O})
  <2>1. IsFiniteSet(O)
    BY <1>1, RankedFacts, FS_Subset DEF Outgoing
  <2>2. PICK f : f = [e \in O |-> Target(e)]
    OBVIOUS
  <2>3. {Target(e) : e \in O} = {f[e] : e \in O}
    BY <2>2
  <2>4. Cardinality({f[e] : e \in O}) \in Nat
    BY <2>1, FiniteImage
  <2>. QED
    BY <2>3, <2>4
<1>3. PICK c \in Int : c = Cardinality(Ranked) - 1
  BY RankedFacts, FS_CardinalityType
<1>4. PICK w \in Nat \ {0} : w = Greatest(1, c)
  BY GreatestFacts
<1>5. PICK x \in Nat : x = Share(t, w)
  BY ShareIsNat
<1>6. PICK f : f = [u \in Ranked |-> WeightedOut(u)]
  OBVIOUS
<1>7. {f[u] : u \in Ranked} = {WeightedOut(u) : u \in Ranked} /\ \A u \in Ranked : f[u] \in Nat
  BY <1>6, WeightedOutIs
<1>8. PICK m \in Nat \ {0} : m = Max({Unit} \cup {f[u] : u \in Ranked})
  <2>1. \A n \in Nat \ {0} : Max({n} \cup {f[u] : u \in Ranked}) \in Nat \ {0}
    BY <1>7, RankedValues
  <2>2. Max({Unit} \cup {f[u] : u \in Ranked}) \in Nat \ {0}
    <3>1. Unit \in Nat \ {0}
      BY UnitFacts
    <3>. QED
      BY <2>1, <3>1, Zenon
  <2>. QED
    BY <2>2, Zenon
<1>9. PICK v \in Nat : v = WeightedOut(s)
  BY WeightedOutIs
<1>10. PICK y \in Nat : y = Share(v, m)
  BY ShareIsNat
<1>11. PICK z \in Nat : z = (6 * x + 4 * y) \div 10
  OBVIOUS
<1>12. BlastRadius(s) = Least(Unit, z)
  BY <1>1, <1>2, <1>3, <1>4, <1>5, <1>7, <1>8, <1>9, <1>10, <1>11 DEF BlastRadius
<1>. QED
  BY <1>12, LeastFacts

\* and the penalty.
LEMMA PenaltyFacts ==
    ASSUME Ranking, NEW s \in Ranked
    PROVE  Penalty(s) \in Nat
<1>1. PICK x \in Nat : x = (IF Evidence(s).events <= 2 THEN 3500 ELSE 0)
              + (IF Evidence(s).score < 30 THEN 3000 ELSE 0)
              + (IF Evidence(s).signals <= 1 THEN 3500 ELSE 0)
              + (IF Evidence(s).critical THEN 0 ELSE 1000)
  OBVIOUS
<1>2. Penalty(s) = Least(Unit, x)
  BY <1>1 DEF Penalty
<1>. QED
  BY <1>2, LeastFacts

\* The scores that the weights allow, as numbers.
LEMMA ScoreRange ==
    ASSUME NEW z \in Int, 0 <= z, z <= 9000
    PROVE  z \in 0 .. MaxScore
<1>1. MaxScore = 9000
  BY DEF MaxScore, Unit
<1>2. PICK m \in Nat : m = MaxScore
  BY <1>1
<1>3. m = 9000
  BY <1>1, <1>2
<1>4. z \in 0 .. m
  BY <1>3
<1>. QED
  BY <1>2, <1>4

\* No score leaves [0, 0.9].
LEMMA ScoreFacts ==
    ASSUME Ranking, NEW s \in Ranked
    PROVE  Score(s) \in 0 .. MaxScore /\ Score(s) \in Int
<1>1. PICK p \in Int : p = Precedence(s) /\ p <= 10000
  BY PrecedenceFacts, UnitFacts
<1>2. PICK c \in Nat : c = Least(Unit, (7 * Centrality(s) + 3 * CausalSupport(s)) \div 10)
                       /\ c <= 10000
  <2>1. PICK x, y \in Nat : x = Centrality(s) /\ y = CausalSupport(s)
    BY CentralityFacts, SupportFacts
  <2>2. PICK z \in Nat : z = (7 * x + 3 * y) \div 10
    OBVIOUS
  <2>3. Least(Unit, z) \in Nat /\ Least(Unit, z) <= 10000
    BY LeastFacts, UnitFacts
  <2>. QED
    BY <2>1, <2>2, <2>3
<1>3. PICK a \in Nat : a = Anomaly(s) /\ a <= 10000
  BY AnomalyFacts, UnitFacts
<1>4. PICK b \in Nat : b = BlastRadius(s) /\ b <= 10000
  BY BlastFacts, UnitFacts
<1>5. PICK q \in Nat : q = Penalty(s)
  BY PenaltyFacts
<1>6. Score(s) = Greatest(0, (30 * p + 20 * c + 25 * a + 15 * b - 10 * q) \div 100)
  BY <1>1, <1>2, <1>3, <1>4, <1>5 DEF Score
<1>7. PICK x \in Int : x = 30 * p + 20 * c + 25 * a + 15 * b - 10 * q /\ x <= 900000
  BY <1>1, <1>2, <1>3, <1>4
<1>8. PICK y \in Int : y = x \div 100 /\ y <= 9000
  BY <1>7
<1>9. PICK z \in Int : z = Greatest(0, y)
  BY <1>8 DEF Greatest
<1>10. 0 <= z /\ z <= 9000
  BY <1>8, <1>9 DEF Greatest
<1>11. Score(s) = z
  BY <1>6, <1>7, <1>8, <1>9
<1>12. z \in 0 .. MaxScore
  BY <1>10, ScoreRange
<1>. QED
  BY <1>11, <1>12

\* G puts the members of A in order, <<y, x>> when y comes before x, and each place is
\* taken: for each n below their number one member has n members before it.
Orders(G, A) ==
    /\ \A x \in A : <<x, x>> \notin G
    /\ \A x, y, z \in A : <<x, y>> \in G /\ <<y, z>> \in G => <<x, z>> \in G
    /\ \A x, y \in A : x = y \/ <<x, y>> \in G \/ <<y, x>> \in G

PlaceIn(G, A, x) == Cardinality({y \in A : <<y, x>> \in G})

\* No two members have the same place, so every place is taken.
LEMMA PlacesTaken ==
    ASSUME NEW A, IsFiniteSet(A), NEW G, Orders(G, A)
    PROVE  /\ \A n \in 1 .. Cardinality(A) : \E x \in A : PlaceIn(G, A, x) = n - 1
           /\ \A x, y \in A : <<y, x>> \in G =>
                 /\ PlaceIn(G, A, y) \in Nat /\ PlaceIn(G, A, x) \in Nat
                 /\ PlaceIn(G, A, y) < PlaceIn(G, A, x)
<1> DEFINE Up(x) == {z \in A : <<z, x>> \in G}
<1>1. PICK N \in Nat : N = Cardinality(A)
  BY FS_CardinalityType
<1>2. ASSUME NEW x \in A
      PROVE  IsFiniteSet(Up(x)) /\ Cardinality(Up(x)) \in Nat /\ Cardinality(Up(x)) < N
  <2>1. PICK U : U = Up(x)
    OBVIOUS
  <2>2. U \subseteq A /\ x \notin U
    BY <2>1 DEF Orders
  <2>3. /\ IsFiniteSet(U) /\ Cardinality(U) <= Cardinality(A)
        /\ Cardinality(A) = Cardinality(U) => A = U
    BY <2>2, FS_Subset
  <2>4. Cardinality(U) \in Nat
    BY <2>3, FS_CardinalityType
  <2>. QED
    BY <1>1, <2>1, <2>2, <2>3, <2>4
<1>3. ASSUME NEW x \in A, NEW y \in A, <<y, x>> \in G
      PROVE  Cardinality(Up(y)) < Cardinality(Up(x))
  <2>1. PICK U, V : U = Up(x) /\ V = Up(y)
    OBVIOUS
  <2>2. V \subseteq U /\ y \in U /\ y \notin V
    BY <1>3, <2>1 DEF Orders
  <2>3. IsFiniteSet(U) /\ Cardinality(U) \in Nat /\ Cardinality(V) \in Nat
    BY <1>2, <2>1
  <2>4. Cardinality(V) <= Cardinality(U) /\ (Cardinality(U) = Cardinality(V) => U = V)
    BY <2>2, <2>3, FS_Subset
  <2>. QED
    BY <2>1, <2>2, <2>3, <2>4
<1>4. PICK c : c = [x \in A |-> Cardinality(Up(x))]
  OBVIOUS
<1>5. PICK B : B = 0 .. (N - 1)
  OBVIOUS
<1>6. IsFiniteSet(B) /\ Cardinality(B) = N
  <2>1. PICK M \in Int : M = N - 1
    OBVIOUS
  <2>2. IsFiniteSet(0 .. M) /\ Cardinality(0 .. M) = IF 0 > M THEN 0 ELSE M - 0 + 1
    BY FS_Interval
  <2>. QED
    BY <1>5, <2>1, <2>2
<1>. HIDE DEF Up
<1>7. c \in Injection(A, B)
  <2>1. c \in [A -> B]
    BY <1>2, <1>4, <1>5
  <2>2. ASSUME NEW x \in A, NEW y \in A, c[x] = c[y] PROVE x = y
    <3>1. ~ (<<x, y>> \in G) /\ ~ (<<y, x>> \in G)
      BY <1>2, <1>3, <1>4, <2>2
    <3>. QED
      BY <3>1 DEF Orders
  <2>. QED
    BY <2>1, <2>2 DEF Injection, IsInjective
<1>8. c \in Surjection(A, B)
  BY <1>1, <1>6, <1>7, FS_Injection
<1>9. ASSUME NEW n \in 1 .. Cardinality(A)
      PROVE  \E x \in A : Cardinality(Up(x)) = n - 1
  <2>1. n - 1 \in B
    BY <1>1, <1>5
  <2>2. PICK x \in A : c[x] = n - 1
    BY <1>8, <2>1 DEF Surjection
  <2>. QED
    BY <1>4, <2>2
<1>10. \A x, y \in A : <<y, x>> \in G =>
          /\ Cardinality(Up(y)) \in Nat /\ Cardinality(Up(x)) \in Nat
          /\ Cardinality(Up(y)) < Cardinality(Up(x))
  BY <1>2, <1>3
<1>. QED
  BY <1>9, <1>10, Zenon DEF Up, PlaceIn

\* What the sort makes of the ranked services: each once, in falling order, so that none
\* scores more than the first.
LEMMA RankOrderFacts ==
    ASSUME Ranking
    PROVE  /\ Cardinality(Ranked) \in Nat
           /\ RankOrder = [n \in 1 .. Cardinality(Ranked) |-> RankOrder[n]]
           /\ \A n \in 1 .. Cardinality(Ranked) :
                 RankOrder[n].service \in Ranked /\ RankOrder[n].score \in 0 .. MaxScore
           /\ \A m, n \in 1 .. Cardinality(Ranked) : m < n =>
                 /\ RankOrder[m].score >= RankOrder[n].score
                 /\ RankOrder[m].service # RankOrder[n].service
           /\ \A s \in Ranked : ~ (Score(s) > Score(RankOrder[1].service))
<1> DEFINE occurs(s) == Min({n \in DOMAIN evidence : evidence[n].service = s})
           all == {[service |-> s, score |-> Score(s)] : s \in Ranked}
           above(x) == {y \in all : \/ y.score > x.score
                                    \/ y.score = x.score /\ occurs(y.service) < occurs(x.service)}
           G == {p \in all \X all : \/ p[1].score > p[2].score
                                    \/ /\ p[1].score = p[2].score
                                       /\ occurs(p[1].service) < occurs(p[2].service)}
<1>1. \A s \in Ranked : Score(s) \in 0 .. MaxScore /\ Score(s) \in Int
  BY ScoreFacts
<1>2. \A s \in Ranked : occurs(s) \in Nat /\ evidence[occurs(s)].service = s
  <2> SUFFICES ASSUME NEW s \in Ranked
               PROVE  occurs(s) \in Nat /\ evidence[occurs(s)].service = s
    OBVIOUS
  <2>1. PICK S : S = {n \in DOMAIN evidence : evidence[n].service = s}
    OBVIOUS
  <2>2. S \subseteq DOMAIN evidence /\ S # {}
    BY <2>1, RankedFacts DEF ServicesOf
  <2>3. IsFiniteSet(S) /\ S \subseteq Int /\ S \subseteq Nat
    BY <2>2, EvidenceFacts, FS_Subset DEF Ranking
  <2>4. Min(S) \in S
    BY <2>2, <2>3, MinFacts
  <2>5. occurs(s) = Min(S)
    BY <2>1
  <2>. QED
    BY <2>1, <2>3, <2>4, <2>5
<1>. HIDE DEF occurs, all
<1>3. \A x \in all : /\ x.service \in Ranked /\ x.score = Score(x.service) /\ x.score \in Int
                     /\ x = [service |-> x.service, score |-> Score(x.service)]
  BY <1>1 DEF all
<1>4. IsFiniteSet(all) /\ Cardinality(all) = Cardinality(Ranked)
  <2>1. PICK f : f = [s \in Ranked |-> [service |-> s, score |-> Score(s)]]
    OBVIOUS
  <2>2. f \in Surjection(Ranked, all)
    BY <2>1 DEF Surjection, all
  <2>3. \A s, t \in Ranked : f[s] = f[t] => s = t
    <3>1. \A s \in Ranked : f[s].service = s
      BY <2>1
    <3>. QED
      BY <3>1
  <2>4. f \in Injection(Ranked, all)
    BY <2>2, <2>3 DEF Injection, IsInjective, Surjection
  <2>5. IsFiniteSet(Ranked)
    BY RankedFacts
  <2>. QED
    BY <2>2, <2>4, <2>5, FS_Surjection
<1>5. PICK H : H = G
  OBVIOUS
<1>6. \A x, y \in all : <<y, x>> \in H <=> \/ y.score > x.score
                                        \/ /\ y.score = x.score
                                           /\ occurs(y.service) < occurs(x.service)
  BY <1>5
<1>7. \A x \in all : /\ x.service \in Ranked /\ x.score = Score(x.service) /\ x.score \in Int
                   /\ occurs(x.service) \in Nat
  BY <1>2, <1>3
<1>8. /\ \A x \in all : <<x, x>> \notin H
      /\ \A x, y, z \in all : <<x, y>> \in H /\ <<y, z>> \in H => <<x, z>> \in H
  BY <1>6, <1>7
<1>9. \A x, y \in all : x = y \/ <<x, y>> \in H \/ <<y, x>> \in H
  <2> SUFFICES ASSUME NEW x \in all, NEW y \in all, <<x, y>> \notin H, <<y, x>> \notin H
               PROVE  x = y
    OBVIOUS
  <2>1. occurs(x.service) = occurs(y.service)
    BY <1>6, <1>7
  <2>2. x.service = y.service
    BY <1>2, <1>7, <2>1
  <2>. QED
    BY <1>3, <2>2
<1>10. /\ \A n \in 1 .. Cardinality(all) : \E x \in all : PlaceIn(H, all, x) = n - 1
       /\ \A x, y \in all : <<y, x>> \in H =>
             /\ PlaceIn(H, all, y) \in Nat /\ PlaceIn(H, all, x) \in Nat
             /\ PlaceIn(H, all, y) < PlaceIn(H, all, x)
  <2>1. IsFiniteSet(all)
    BY <1>4
  <2>2. Orders(H, all)
    BY <1>8, <1>9, Zenon DEF Orders
  <2>. QED
    BY <2>1, <2>2, PlacesTaken
<1>11. \A x \in all : PlaceIn(H, all, x) = Cardinality(above(x))
  <2> SUFFICES ASSUME NEW x \in all PROVE {y \in all : <<y, x>> \in H} = above(x)
    BY DEF PlaceIn
  <2>. QED
    BY <1>6
<1>12. RankOrder = [n \in 1 .. Cardinality(all) |->
                      CHOOSE x \in all : Cardinality(above(x)) = n - 1]
  BY Zenon DEF RankOrder, occurs, all
<1>. HIDE DEF above, G
<1>13. \A x, y \in all : <<y, x>> \in H =>
         /\ Cardinality(above(x)) \in Nat /\ Cardinality(above(y)) \in Nat
         /\ Cardinality(above(y)) < Cardinality(above(x))
  BY <1>10, <1>11
<1>14. \A n \in 1 .. Cardinality(all) :
          RankOrder[n] \in all /\ Cardinality(above(RankOrder[n])) = n - 1
  <2> SUFFICES ASSUME NEW n \in 1 .. Cardinality(all)
               PROVE  RankOrder[n] \in all /\ Cardinality(above(RankOrder[n])) = n - 1
    OBVIOUS
  <2>1. \E x \in all : Cardinality(above(x)) = n - 1
    BY <1>10, <1>11
  <2>2. RankOrder[n] = CHOOSE x \in all : Cardinality(above(x)) = n - 1
    BY <1>12
  <2>. QED
    BY <2>1, <2>2, Zenon
<1>15. ASSUME NEW m \in 1 .. Cardinality(all), NEW n \in 1 .. Cardinality(all), m < n
       PROVE  RankOrder[m].score >= RankOrder[n].score
              /\ RankOrder[m].service # RankOrder[n].service
  <2>1. PICK x, y \in all : x = RankOrder[m] /\ y = RankOrder[n]
    BY <1>14
  <2>2. Cardinality(above(x)) = m - 1 /\ Cardinality(above(y)) = n - 1
    BY <1>14, <2>1
  <2>3. <<x, y>> \in H
    <3>1. x # y
      BY <1>15, <2>2
    <3>2. ~ (<<y, x>> \in H)
      BY <1>15, <1>13, <2>2
    <3>. QED
      BY <1>9, <3>1, <3>2
  <2>4. x.score >= y.score /\ x.service # y.service
    BY <1>6, <1>7, <2>3
  <2>. QED
    BY <2>1, <2>4
<1>16. \A n \in 1 .. Cardinality(all) :
          RankOrder[n].service \in Ranked /\ RankOrder[n].score \in 0 .. MaxScore
  <2> SUFFICES ASSUME NEW n \in 1 .. Cardinality(all)
               PROVE  RankOrder[n].service \in Ranked /\ RankOrder[n].score \in 0 .. MaxScore
    OBVIOUS
  <2>1. RankOrder[n].service \in Ranked /\ RankOrder[n].score = Score(RankOrder[n].service)
    BY <1>7, <1>14
  <2>2. Score(RankOrder[n].service) \in 0 .. MaxScore
    BY <1>1, <2>1
  <2>. QED
    BY <2>1, <2>2
<1>17. RankOrder = [n \in 1 .. Cardinality(all) |-> RankOrder[n]]
  BY <1>12
<1>18. ASSUME NEW s \in Ranked PROVE ~ (Score(s) > Score(RankOrder[1].service))
  <2>1. PICK x \in all : x.service = s /\ x.score = Score(s)
    <3>1. PICK x : x = [service |-> s, score |-> Score(s)]
      OBVIOUS
    <3>2. x \in all
      BY <3>1 DEF all
    <3>3. x.service = s /\ x.score = Score(s)
      BY <3>1
    <3>. QED
      BY <3>2, <3>3
  <2>2. Cardinality(all) \in Nat /\ Cardinality(all) # 0
    BY <1>4, FS_CardinalityType, FS_EmptySet
  <2>3. 1 \in 1 .. Cardinality(all)
    BY <2>2
  <2>4. PICK y \in all : y = RankOrder[1] /\ Cardinality(above(y)) = 0
    BY <1>14, <2>3
  <2>5. above(y) = {}
    <3>1. above(y) \subseteq all
      BY DEF above
    <3>2. IsFiniteSet(above(y))
      BY <1>4, <3>1, FS_Subset
    <3>. QED
      BY <2>4, <3>2, FS_EmptySet
  <2>6. ~ (x.score > y.score)
    BY <2>5 DEF above
  <2>. QED
    BY <1>7, <2>1, <2>4, <2>6
<1>. QED
  <2>1. Cardinality(all) = Cardinality(Ranked) /\ Cardinality(all) \in Nat
    BY <1>4, RankedFacts, FS_CardinalityType
  <2>. QED
    BY <1>15, <1>16, <1>17, <1>18, <2>1, Zenon

-------------------------------------------------------------------------------
(* Types.                                                                  *)

\* The evidence is the candidate's, every edge joins two of its clusters, and nothing is
\* left from the candidate before.
DiagnosisInv ==
    /\ evidence \in Seq(Clusters)
    /\ pc \in {"idle", "build"} => latest = Empty /\ edges = Empty
    /\ pc \in {"idle", "build", "rank"} => rankings = <<>>
    /\ pc \in {"rank", "explain", "publish"} => Ranking
    /\ pc # "publish" => severity = "none"

\* The process starts with nothing held.
LEMMA InitDiagnosis == Init => TypeOK /\ DiagnosisInv
<1> SUFFICES ASSUME Init PROVE TypeOK /\ DiagnosisInv
  OBVIOUS
<1>1. DOMAIN Empty = {}
  BY DEF Empty
<1>2. Len(rankings) = 0 /\ DOMAIN rankings = {}
  BY DEF Init
<1>. QED
  BY <1>1, <1>2, SettingsFacts DEF Init, TypeOK, DiagnosisInv

\* Every step keeps the types and what each phase holds.
LEMMA NextDiagnosis == TypeOK /\ DiagnosisInv /\ [Next]_vars => TypeOK' /\ DiagnosisInv'
<1> SUFFICES ASSUME TypeOK, DiagnosisInv, [Next]_vars PROVE TypeOK' /\ DiagnosisInv'
  OBVIOUS
<1>0. DOMAIN Empty = {} /\ Len(<<>>) = 0 /\ DOMAIN <<>> = {}
  BY DEF Empty
<1>1. CASE UNCHANGED vars
  <2>1. /\ pc' = pc /\ evidence' = evidence /\ latest' = latest /\ edges' = edges
        /\ rankings' = rankings /\ severity' = severity
    BY <1>1 DEF vars
  <2>2. TypeOK'
    BY <2>1 DEF TypeOK
  <2>3. EvidenceMap' = EvidenceMap
    BY <2>1 DEF EvidenceMap, ServicesOf
  <2>4. Ranking => Ranking'
    BY <2>1, <2>3 DEF Ranking
  <2>. QED
    BY <2>1, <2>2, <2>4 DEF DiagnosisInv
<1>2. CASE Take
  <2>1. evidence' \in Seq(Clusters)
    BY <1>2 DEF Take, SortedSeqs
  <2>2. latest' = Empty /\ edges' = Empty /\ rankings' = <<>> /\ pc' = "build"
        /\ severity' = severity
    BY <1>2 DEF Take, DiagnosisInv
  <2>. QED
    <3>1. severity' = "none"
      BY <1>2 DEF Take, DiagnosisInv
    <3>2. TypeOK'
      BY <1>0, <2>1, <2>2, SettingsFacts DEF TypeOK
    <3>. QED
      BY <2>1, <2>2, <3>1, <3>2 DEF DiagnosisInv
<1>3. CASE Build
  <2>1. /\ evidence' = evidence /\ evidence \in Seq(Clusters) /\ rankings' = <<>>
        /\ severity' = severity /\ pc' = "rank" /\ latest' = EvidenceMap
    BY <1>3 DEF Build, DiagnosisInv
  <2>2. EvidenceMap' = EvidenceMap
    BY <2>1 DEF EvidenceMap, ServicesOf
  <2>3. DOMAIN edges' = ProvidedEdges \cup {<<latest'[p[1]], latest'[p[2]]>> : p \in Inferred}
    BY <1>3 DEF Build
  <2>4. DOMAIN edges' \subseteq (DOMAIN evidence) \X (DOMAIN evidence)
    BY <2>1, <2>3, EdgesInside
  <2>5. \A e \in DOMAIN edges' : edges'[e] \in 1 .. Unit
    <3> SUFFICES ASSUME NEW e \in DOMAIN edges' PROVE edges'[e] \in 1 .. Unit
      OBVIOUS
    <3>1. edges'[e] = IF e \in ProvidedEdges THEN Unit
                      ELSE InferredWeight(evidence[e[1]].service, evidence[e[2]].service)
      BY <1>3, <2>3 DEF Build
    <3>2. evidence[e[1]].service \in ServicesOf(evidence)
          /\ evidence[e[2]].service \in ServicesOf(evidence)
      BY <2>4 DEF ServicesOf
    <3>3. InferredWeight(evidence[e[1]].service, evidence[e[2]].service) \in 1 .. Unit
      BY <2>1, <3>2, WeightFacts
    <3>4. Unit \in 1 .. Unit
      BY UnitFacts
    <3>. QED
      BY <3>1, <3>3, <3>4
  <2>6. \A s \in DOMAIN latest' : latest'[s] \in DOMAIN evidence'
    BY <2>1, EvidenceMapFacts
  <2>7. Ranking'
    BY <2>1, <2>2, <2>4, <2>5 DEF Ranking
  <2>8. TypeOK'
    BY <1>0, <2>1, <2>5, <2>6, SettingsFacts DEF TypeOK
  <2>. QED
    <3>1. severity' = "none"
      BY <1>3, <2>1 DEF Build, DiagnosisInv
    <3>. QED
      BY <2>1, <2>7, <2>8, <3>1 DEF DiagnosisInv
<1>4. CASE Rank
  <2>1. /\ UNCHANGED <<evidence, latest, edges, severity>> /\ pc' = "explain" /\ Ranking
        /\ rankings' = SubSeq(RankOrder, 1, Least(TopK, Cardinality(Ranked)))
    BY <1>4 DEF Rank, DiagnosisInv
  <2>2. Ranking'
    BY <2>1 DEF Ranking, EvidenceMap, ServicesOf
  <2>3. PICK N \in Nat : N = Cardinality(Ranked)
    BY <2>1, RankOrderFacts
  <2>4. PICK k \in Nat : k = Least(TopK, N) /\ k <= TopK /\ k <= N
    BY SettingsFacts DEF Least
  <2>5. /\ \A n \in 1 .. N : RankOrder[n].service \in Ranked /\ RankOrder[n].score \in 0 .. MaxScore
        /\ \A m, n \in 1 .. N : m < n => /\ RankOrder[m].score >= RankOrder[n].score
                                         /\ RankOrder[m].service # RankOrder[n].service
    BY <2>1, <2>3, RankOrderFacts
  <2>6. PICK r : r = RankOrder
    OBVIOUS
  <2>7. /\ Len(SubSeq(r, 1, k)) = k /\ DOMAIN SubSeq(r, 1, k) = 1 .. k
        /\ \A n \in 1 .. k : SubSeq(r, 1, k)[n] = r[n]
    <3>1. PICK S : S = {r[n] : n \in 1 .. k}
      OBVIOUS
    <3>2. \A n \in 1 .. k : r[n] \in S
      BY <3>1
    <3>3. /\ SubSeq(r, 1, k) \in Seq(S)
          /\ Len(SubSeq(r, 1, k)) = IF 1 <= k THEN k - 1 + 1 ELSE 0
          /\ \A n \in 1 .. k - 1 + 1 : SubSeq(r, 1, k)[n] = r[1 + n - 1]
      BY <3>2, SubSeqProperties
    <3>. QED
      BY <3>3
  <2>8. /\ Len(rankings') = k /\ DOMAIN rankings' = 1 .. k
        /\ \A n \in 1 .. k : rankings'[n] = RankOrder[n]
    BY <2>1, <2>3, <2>4, <2>6, <2>7
  <2>9. \A m, n \in DOMAIN rankings' :
          /\ rankings'[n].service \in DOMAIN latest
          /\ rankings'[n].score \in 0 .. MaxScore
          /\ m < n => /\ rankings'[m].score >= rankings'[n].score
                      /\ rankings'[m].service # rankings'[n].service
    BY <2>4, <2>5, <2>8 DEF Ranked
  <2>10. TypeOK'
    BY <2>1, <2>4, <2>8, <2>9 DEF TypeOK
  <2>. QED
    <3>1. severity' = "none" /\ evidence \in Seq(Clusters)
      BY <1>4, <2>1 DEF Rank, DiagnosisInv
    <3>. QED
      BY <2>1, <2>2, <2>10, <3>1 DEF DiagnosisInv
<1>5. CASE Explain
  <2>1. /\ UNCHANGED <<evidence, latest, edges, rankings>> /\ pc' = "publish" /\ Ranking
        /\ \E c \in Confidences : severity' = SeverityOf(c)
    BY <1>5 DEF Explain, DiagnosisInv
  <2>2. severity' \in {"low", "medium", "high", "critical"}
    BY <2>1 DEF SeverityOf
  <2>3. Ranking'
    BY <2>1 DEF Ranking, EvidenceMap, ServicesOf
  <2>4. TypeOK'
    BY <2>1, <2>2 DEF TypeOK
  <2>. QED
    BY <2>1, <2>3, <2>4 DEF DiagnosisInv, Ranking
<1>6. CASE Publish
  <2>1. /\ evidence' = <<>> /\ latest' = Empty /\ edges' = Empty /\ rankings' = <<>>
        /\ pc' = "idle" /\ severity' = "none"
    BY <1>6 DEF Publish
  <2>. QED
    BY <1>0, <2>1, SettingsFacts DEF TypeOK, DiagnosisInv
<1>. QED
  BY <1>1, <1>2, <1>3, <1>4, <1>5, <1>6 DEF Next

\* apps/causal_engine: the data of a diagnosis keep their types from phase to phase. Edge
\* weights lie in 1 .. Unit, the evidence of each service is a cluster of the candidate,
\* and the root causes are at most TopK, no service twice, in falling order of a score
\* between zero and MaxScore.
THEOREM DiagnosisTypeCorrect == Spec => []TypeOK
<1>. QED
  BY InitDiagnosis, NextDiagnosis, PTL DEF Spec

\* One service: one cluster, no edge.
LoneInv ==
    Cardinality(ServicesOf(evidence)) = 1 =>
        /\ \E n : DOMAIN evidence = {n}
        /\ DOMAIN edges = {}
        /\ severity \in {"none", "low", "medium"}

\* A candidate of one cluster has no edge, provided or inferred.
LEMMA OneService ==
    ASSUME evidence \in Seq(Clusters), Cardinality(ServicesOf(evidence)) = 1,
           NEW n, DOMAIN evidence = {n}
    PROVE  ProvidedEdges = {} /\ Inferred = {}
<1>1. n \in Nat
  BY EvidenceFacts
<1>2. ProvidedEdges = {}
  BY <1>1 DEF ProvidedEdges
<1>3. Inferred = {}
  <2>1. PICK s : ServicesOf(evidence) = {s}
    BY EvidenceFacts, FS_Singleton
  <2>. QED
    BY <2>1 DEF Inferred, Infers
<1>. QED
  BY <1>2, <1>3

\* Every step keeps what a lone service can come to.
LEMMA NextLone == TypeOK /\ DiagnosisInv /\ LoneInv /\ [Next]_vars => LoneInv'
<1> SUFFICES ASSUME TypeOK, DiagnosisInv, LoneInv, [Next]_vars,
                    Cardinality(ServicesOf(evidence))' = 1
             PROVE  /\ \E n : DOMAIN evidence' = {n}
                    /\ DOMAIN edges' = {}
                    /\ severity' \in {"none", "low", "medium"}
  BY DEF LoneInv
<1>0. DOMAIN Empty = {} /\ Cardinality({}) = 0
  BY FS_EmptySet DEF Empty
<1>1. ASSUME evidence' = evidence
      PROVE  /\ \E n : DOMAIN evidence = {n}
             /\ Cardinality(ServicesOf(evidence)) = 1 /\ DOMAIN edges = {}
             /\ severity \in {"none", "low", "medium"}
  BY <1>1 DEF LoneInv, ServicesOf
<1>2. CASE UNCHANGED vars
  BY <1>1, <1>2 DEF vars
<1>3. CASE Take
  <2>1. PICK S : S = {evidence'[n].service : n \in DOMAIN evidence'}
    OBVIOUS
  <2>2. Cardinality(S) = 1
    BY <2>1 DEF ServicesOf
  <2>3. \E n \in DOMAIN evidence' : DOMAIN evidence' = {n}
    <3>1. ~ (Cardinality(S) >= 2)
      BY <2>2
    <3>2. L!Cardinality(S) = Cardinality(S)
      BY Zenon DEF L!Cardinality, Cardinality
    <3>3. ~ (L!Cardinality({evidence'[n].service : n \in DOMAIN evidence'}) >= 2)
      BY <2>1, <3>1, <3>2
    <3>. QED
      BY <1>3, <3>3 DEF Take, L!Allowed, L!MinServices
  <2>. QED
    BY <1>0, <1>3, <2>3 DEF Take, DiagnosisInv, TypeOK
<1>4. CASE Build
  <2>1. evidence' = evidence /\ severity' = severity
        /\ DOMAIN edges' = ProvidedEdges \cup {<<latest'[p[1]], latest'[p[2]]>> : p \in Inferred}
    BY <1>4 DEF Build
  <2>2. ProvidedEdges = {} /\ Inferred = {}
    BY <1>1, <2>1, OneService DEF DiagnosisInv
  <2>. QED
    BY <1>1, <2>1, <2>2
<1>5. CASE Rank
  BY <1>1, <1>5 DEF Rank
<1>6. CASE Explain
  <2>1. Cardinality(ServicesOf(evidence)) = 1 /\ Cardinality(DOMAIN edges) = 0
    BY <1>0, <1>1, <1>6 DEF Explain
  <2>2. PICK c : severity' = SeverityOf(c)
    BY <1>6 DEF Explain
  <2>3. severity' \in {"low", "medium"}
    BY <2>1, <2>2 DEF SeverityOf
  <2>. QED
    BY <1>1, <1>6, <2>3 DEF Explain
<1>7. CASE Publish
  <2>1. ServicesOf(evidence') = {}
    BY <1>7 DEF Publish, ServicesOf
  <2>. QED
    BY <1>0, <2>1
<1>. QED
  BY <1>2, <1>3, <1>4, <1>5, <1>6, <1>7 DEF Next

\* _derive_incident_severity: an incident on one service alone, admitted for a critical
\* alert, is of at most medium severity, however high its score: it has one cluster, so
\* no edge, and the rules for high and critical ask for an edge or for several services.
THEOREM LoneAlertIsMinor == Spec => []LoneServiceAtMostMedium
<1>1. Init => LoneInv
  <2> SUFFICES ASSUME Init PROVE Cardinality(ServicesOf(evidence)) = 0
    BY DEF LoneInv
  <2>1. ServicesOf(evidence) = {}
    BY DEF Init, ServicesOf
  <2>. QED
    BY <2>1, FS_EmptySet
<1>2. LoneInv => LoneServiceAtMostMedium
  BY DEF LoneInv, LoneServiceAtMostMedium
<1>. QED
  BY <1>1, <1>2, InitDiagnosis, NextDiagnosis, NextLone, PTL DEF Spec

-------------------------------------------------------------------------------
(* Chains of calls, by the least counterexample.                           *)

\* A set of numbers has a least one.
LEMMA LeastNumber ==
    ASSUME NEW B, B \subseteq Nat, B # {}
    PROVE  \E n \in B : \A m \in B : n <= m
<1>1. PICK n \in B : \A m \in B : ~ (<<m, n>> \in OpToRel(<, Nat))
  BY NatLessThanWellFounded, WFMin
<1>2. \A m \in B : ~ (m < n)
  BY <1>1 DEF OpToRel
<1>. QED
  BY <1>2

\* One more step of R.
Further(C, R) ==
    C \cup R \cup {<<x[1][1], x[2][2]>> : x \in {y \in C \X R : y[1][2] = y[2][1]}}

AreChains(f, R, n) == f = [k \in 0 .. n |-> IF k = 0 THEN {} ELSE Further(f[k - 1], R)]

\* The recursion that defines Chains has a solution,
LEMMA ChainsExist ==
    ASSUME NEW R, NEW n \in Nat
    PROVE  \E f : AreChains(f, R, n)
<1> DEFINE Bad == {k \in Nat : ~ \E f : AreChains(f, R, k)}
<1>1. ASSUME Bad # {} PROVE FALSE
  <2>1. PICK k \in Bad : \A m \in Bad : k <= m
    <3>1. Bad \subseteq Nat
      OBVIOUS
    <3>. HIDE DEF Bad
    <3>. QED
      BY <1>1, <3>1, LeastNumber
  <2>2. CASE k = 0
    <3>1. PICK f : f = [m \in 0 .. 0 |-> {}]
      OBVIOUS
    <3>2. AreChains(f, R, 0)
      BY <3>1 DEF AreChains
    <3>. QED
      BY <2>1, <2>2, <3>2
  <2>3. CASE k # 0
    <3>1. k \in Nat /\ k - 1 \in Nat /\ k - 1 \notin Bad
      BY <2>1, <2>3
    <3>2. PICK f : AreChains(f, R, k - 1)
      BY <3>1
    <3>3. \A m \in 0 .. k - 1 : f[m] = IF m = 0 THEN {} ELSE Further(f[m - 1], R)
      BY <3>2, Zenon DEF AreChains
    <3>4. PICK g : g = [m \in 0 .. k |-> IF m = k THEN Further(f[k - 1], R) ELSE f[m]]
      OBVIOUS
    <3>5. \A m \in 0 .. k : g[m] = IF m = 0 THEN {} ELSE Further(g[m - 1], R)
      <4> SUFFICES ASSUME NEW m \in 0 .. k PROVE g[m] = IF m = 0 THEN {} ELSE Further(g[m - 1], R)
        OBVIOUS
      <4>1. CASE m = k
        <5>1. g[m] = Further(f[k - 1], R)
          BY <3>4, <4>1
        <5>2. g[m - 1] = f[k - 1]
          BY <3>1, <3>4, <4>1
        <5>. QED
          BY <2>3, <4>1, <5>1, <5>2
      <4>2. CASE m = 0
        BY <2>3, <3>1, <3>3, <3>4, <4>2
      <4>3. CASE m # k /\ m # 0
        <5>1. m \in 0 .. k - 1 /\ m - 1 \in 0 .. k /\ m - 1 # k
          BY <3>1, <4>3
        <5>2. g[m] = f[m] /\ g[m - 1] = f[m - 1]
          BY <3>4, <4>3, <5>1
        <5>. QED
          BY <3>3, <4>3, <5>1, <5>2
      <4>. QED
        BY <4>1, <4>2, <4>3
    <3>6. g = [m \in 0 .. k |-> g[m]]
      BY <3>4
    <3>7. g = [m \in 0 .. k |-> IF m = 0 THEN {} ELSE Further(g[m - 1], R)]
      BY <3>5, <3>6
    <3>8. AreChains(g, R, k)
      BY <3>7, Zenon DEF AreChains
    <3>. QED
      BY <2>1, <3>8
  <2>. QED
    BY <2>2, <2>3
<1>. QED
  BY <1>1

\* Chains(R) is the last of the sets of ever longer chains.
LEMMA ChainsAre ==
    ASSUME NEW R
    PROVE  \E f : /\ Chains(R) = f[Cardinality(Services)]
                  /\ Cardinality(Services) \in Nat
                  /\ f[0] = {}
                  /\ \A n \in 1 .. Cardinality(Services) : f[n] = Further(f[n - 1], R)
<1>1. PICK N \in Nat : N = Cardinality(Services)
  BY ServicesAssumption, FS_CardinalityType
<1>2. \E f : AreChains(f, R, N)
  BY ChainsExist
<1>3. \E f : AreChains(f, R, Cardinality(Services))
  BY <1>1, <1>2
<1>4. PICK f : f = CHOOSE g : g = [n \in 0 .. Cardinality(Services) |->
                     IF n = 0 THEN {} ELSE Further(g[n - 1], R)]
  OBVIOUS
<1>5. f = [n \in 0 .. Cardinality(Services) |-> IF n = 0 THEN {} ELSE Further(f[n - 1], R)]
  BY <1>3, <1>4, Zenon DEF AreChains
<1>6. Chains(R) = f[Cardinality(Services)]
  BY <1>4, Zenon DEF Chains, Further
<1>7. \A n \in 0 .. N : f[n] = IF n = 0 THEN {} ELSE Further(f[n - 1], R)
  BY <1>1, <1>5
<1>8. f[0] = {} /\ \A n \in 1 .. N : f[n] = Further(f[n - 1], R)
  BY <1>7
<1>. QED
  BY <1>1, <1>6, <1>8

\* Chains(R) lies in every set that contains R and that one more step does not leave.
LEMMA ChainsLeast ==
    ASSUME NEW R, NEW T, R \subseteq T,
           \A x \in T, y \in R : x[2] = y[1] => <<x[1], y[2]>> \in T
    PROVE  Chains(R) \subseteq T
<1>1. PICK f : /\ Chains(R) = f[Cardinality(Services)]
               /\ Cardinality(Services) \in Nat
               /\ f[0] = {}
               /\ \A n \in 1 .. Cardinality(Services) : f[n] = Further(f[n - 1], R)
  BY ChainsAre
<1>2. PICK N \in Nat : N = Cardinality(Services)
  BY <1>1
<1> DEFINE Bad == {n \in 0 .. N : ~ (f[n] \subseteq T)}
<1>3. ASSUME Bad # {} PROVE FALSE
  <2>1. PICK n \in Bad : \A m \in Bad : n <= m
    <3>1. Bad \subseteq Nat
      OBVIOUS
    <3>. HIDE DEF Bad
    <3>. QED
      BY <1>3, <3>1, LeastNumber
  <2>2. n # 0 /\ n \in 1 .. N /\ n - 1 \in 0 .. N
    BY <1>1, <2>1
  <2>3. f[n - 1] \subseteq T
    BY <2>1, <2>2
  <2>4. Further(f[n - 1], R) \subseteq T
    BY <2>3 DEF Further
  <2>. QED
    BY <1>1, <1>2, <2>1, <2>2, <2>4
<1>4. N \in 0 .. N /\ N \notin Bad
  BY <1>3
<1>. QED
  BY <1>1, <1>2, <1>4

\* One more step of it keeps every pair and adds those a call longer.
LEMMA FurtherPairs ==
    ASSUME NEW C, NEW R, C \subseteq Services \X Services, R \subseteq Services \X Services
    PROVE  /\ \A p \in Further(C, R) :
                 p \in C \/ p \in R \/ \E x \in C, y \in R : x[2] = y[1] /\ p = <<x[1], y[2]>>
           /\ C \subseteq Further(C, R) /\ R \subseteq Further(C, R)
           /\ \A x \in C, y \in R : x[2] = y[1] => <<x[1], y[2]>> \in Further(C, R)
<1>1. \A p \in Further(C, R) :
        p \in C \/ p \in R \/ \E x \in C, y \in R : x[2] = y[1] /\ p = <<x[1], y[2]>>
  BY DEF Further
<1>2. C \subseteq Further(C, R) /\ R \subseteq Further(C, R)
  BY DEF Further
<1>3. \A x \in C, y \in R : x[2] = y[1] => <<x[1], y[2]>> \in Further(C, R)
  <2> SUFFICES ASSUME NEW x \in C, NEW y \in R, x[2] = y[1]
               PROVE  <<x[1], y[2]>> \in Further(C, R)
    OBVIOUS
  <2>1. <<x, y>> \in {z \in C \X R : z[1][2] = z[2][1]}
    OBVIOUS
  <2>2. <<x[1], y[2]>> \in {<<z[1][1], z[2][2]>> : z \in {w \in C \X R : w[1][2] = w[2][1]}}
    BY <2>1
  <2>. QED
    BY <2>2 DEF Further
<1>. QED
  BY <1>1, <1>2, <1>3

\* What the pairs of C lead to from a.
From(C, a) == {p[2] : p \in {q \in C : q[1] = a}}

\* The services that a leads to grow with each step, or for good not at all: as many steps
\* as there are services are enough.
LEMMA ChainsClosed ==
    ASSUME NEW R, R \subseteq Services \X Services
    PROVE  /\ Chains(R) \subseteq Services \X Services
           /\ R \subseteq Chains(R)
           /\ \A x \in Chains(R), y \in R : x[2] = y[1] => <<x[1], y[2]>> \in Chains(R)
<1>1. PICK f : /\ Chains(R) = f[Cardinality(Services)]
               /\ Cardinality(Services) \in Nat
               /\ f[0] = {}
               /\ \A n \in 1 .. Cardinality(Services) : f[n] = Further(f[n - 1], R)
  BY ChainsAre
<1>2. PICK N \in Nat : N = Cardinality(Services)
  BY <1>1
<1>3. Chains(R) \subseteq Services \X Services
  <2>1. PICK T : T = Services \X Services
    OBVIOUS
  <2>2. \A x \in T, y \in R : x[2] = y[1] => <<x[1], y[2]>> \in T
    BY <2>1
  <2>. QED
    BY <2>1, <2>2, ChainsLeast
<1> DEFINE Full(C, a) == \A y \in R : y[1] = a \/ <<a, y[1]>> \in C => <<a, y[2]>> \in C
           Good(n, a) == /\ f[n] \subseteq Services \X Services
                         /\ Full(f[n], a) \/ Cardinality(From(f[n], a)) >= n
           Bad(a) == {n \in 0 .. N : ~ Good(n, a)}
<1>4. ASSUME NEW a \in Services, Bad(a) # {} PROVE FALSE
  <2>1. PICK n \in Bad(a) : \A m \in Bad(a) : n <= m
    <3>1. Bad(a) \subseteq Nat
      OBVIOUS
    <3>. HIDE DEF Bad
    <3>. QED
      BY <1>4, <3>1, LeastNumber
  <2>2. n # 0
    <3>1. From({}, a) = {}
      BY DEF From
    <3>2. Cardinality(From(f[0], a)) = 0
      BY <1>1, <3>1, FS_EmptySet
    <3>. QED
      BY <1>1, <2>1, <3>2
  <2>3. n \in 1 .. N /\ n - 1 \in 0 .. N /\ n - 1 \notin Bad(a)
    BY <2>1, <2>2
  <2>4. Good(n - 1, a)
    BY <2>3
  <2>5. PICK C, D : C = f[n - 1] /\ D = f[n] /\ D = Further(C, R)
    BY <1>1, <1>2, <2>3
  <2>6. C \subseteq D /\ C \subseteq Services \X Services /\ D \subseteq Services \X Services
    BY <2>4, <2>5 DEF Further
  <2>7. CASE Full(C, a)
    <3>1. \A p \in D : p[1] = a => p \in C
      <4> SUFFICES ASSUME NEW p \in D, p[1] = a PROVE p \in C
        OBVIOUS
      <4>1. p = <<a, p[2]>>
        BY <2>6
      <4>2. CASE p \in R
        BY <2>7, <4>1, <4>2
      <4>3. CASE \E x \in C, y \in R : x[2] = y[1] /\ p = <<x[1], y[2]>>
        <5>1. PICK x \in C, y \in R : x[2] = y[1] /\ p = <<x[1], y[2]>>
          BY <4>3
        <5>2. x = <<a, y[1]>>
          BY <2>6, <5>1
        <5>. QED
          BY <2>7, <4>1, <5>1, <5>2
      <4>. QED
        BY <2>5, <2>6, <4>2, <4>3, FurtherPairs
    <3>2. Full(D, a)
      BY <2>6, <2>7, <3>1
    <3>. QED
      BY <2>1, <2>5, <2>6, <3>2
  <2>8. CASE ~ Full(C, a)
    <3>1. PICK y \in R : (y[1] = a \/ <<a, y[1]>> \in C) /\ <<a, y[2]>> \notin C
      BY <2>8
    <3>2. <<a, y[2]>> \in D
      <4>1. CASE y[1] = a
        <5>1. y = <<a, y[2]>>
          BY <4>1
        <5>. QED
          BY <2>5, <2>6, <5>1, FurtherPairs
      <4>2. CASE <<a, y[1]>> \in C
        <5>1. PICK x \in C : x = <<a, y[1]>>
          BY <4>2
        <5>. QED
          BY <2>5, <2>6, <5>1, FurtherPairs
      <4>. QED
        BY <3>1, <4>1, <4>2
    <3>3. PICK F, G : F = From(C, a) /\ G = From(D, a)
      OBVIOUS
    <3>4. F \subseteq G /\ y[2] \in G /\ y[2] \notin F /\ G \subseteq Services
      BY <2>6, <3>1, <3>2, <3>3 DEF From
    <3>5. IsFiniteSet(G)
      BY <3>4, ServicesAssumption, FS_Subset
    <3>6. Cardinality(F) <= Cardinality(G) /\ (Cardinality(G) = Cardinality(F) => G = F)
          /\ Cardinality(F) \in Nat /\ Cardinality(G) \in Nat
      BY <3>4, <3>5, FS_Subset, FS_CardinalityType
    <3>7. Cardinality(F) >= n - 1
      BY <2>4, <2>5, <2>8, <3>3
    <3>8. Cardinality(G) >= n
      BY <2>3, <3>4, <3>6, <3>7
    <3>. QED
      BY <2>1, <2>5, <2>6, <3>3, <3>8
  <2>. QED
    BY <2>7, <2>8
<1>5. ASSUME NEW a \in Services PROVE Full(Chains(R), a)
  <2>1. N \in 0 .. N /\ N \notin Bad(a)
    BY <1>4
  <2>2. Good(N, a)
    BY <2>1
  <2>3. ASSUME Cardinality(From(Chains(R), a)) >= N PROVE Full(Chains(R), a)
    <3>1. PICK F : F = From(Chains(R), a)
      OBVIOUS
    <3>2. F \subseteq Services
      BY <1>3, <3>1 DEF From
    <3>3. Cardinality(F) <= N /\ (N = Cardinality(F) => Services = F) /\ Cardinality(F) \in Nat
      BY <1>2, <3>2, ServicesAssumption, FS_Subset, FS_CardinalityType
    <3>4. F = Services
      BY <2>3, <3>1, <3>3
    <3>5. \A b \in Services : <<a, b>> \in Chains(R)
      BY <1>3, <3>1, <3>4 DEF From
    <3>. QED
      BY <3>5
  <2>. QED
    BY <1>1, <1>2, <2>2, <2>3
<1>6. \A x \in Chains(R), y \in R : x[2] = y[1] => <<x[1], y[2]>> \in Chains(R)
  BY <1>3, <1>5
<1>7. \A y \in R : y \in Chains(R)
  <2> SUFFICES ASSUME NEW y \in R PROVE y \in Chains(R)
    OBVIOUS
  <2>1. y[1] \in Services /\ y = <<y[1], y[2]>>
    OBVIOUS
  <2>2. <<y[1], y[2]>> \in Chains(R)
    BY <1>5, <2>1
  <2>. QED
    BY <2>1, <2>2
<1>. QED
  BY <1>3, <1>6, <1>7

\* Chains can be put together.
LEMMA ChainsTransitive ==
    ASSUME NEW R, R \subseteq Services \X Services,
           NEW a, NEW b, NEW c, <<a, b>> \in Chains(R), <<b, c>> \in Chains(R)
    PROVE  <<a, c>> \in Chains(R)
<1>1. PICK T : T = {p \in Services \X Services :
                      <<a, p[1]>> \in Chains(R) => <<a, p[2]>> \in Chains(R)}
  OBVIOUS
<1>2. R \subseteq T
  BY <1>1, ChainsClosed
<1>3. \A x \in T, y \in R : x[2] = y[1] => <<x[1], y[2]>> \in T
  BY <1>1, ChainsClosed
<1>4. Chains(R) \subseteq T
  BY <1>2, <1>3, ChainsLeast
<1>. QED
  BY <1>1, <1>4

IsSeen(f, s, n) ==
    f = [k \in 0 .. n |->
            IF k = 0 THEN {s} ELSE f[k - 1] \cup UNION {DependsOn[v] : v \in f[k - 1]}]

\* The recursion that defines Seen has a solution.
LEMMA SeenExists ==
    ASSUME NEW s, NEW n \in Nat
    PROVE  \E f : IsSeen(f, s, n)
<1> DEFINE More(S) == S \cup UNION {DependsOn[v] : v \in S}
           Bad == {k \in Nat : ~ \E f : IsSeen(f, s, k)}
<1>0. \A f, k : IsSeen(f, s, k) <=> f = [m \in 0 .. k |-> IF m = 0 THEN {s} ELSE More(f[m - 1])]
  BY Zenon DEF IsSeen
<1>. HIDE DEF More
<1>1. ASSUME Bad # {} PROVE FALSE
  <2>1. PICK k \in Bad : \A m \in Bad : k <= m
    <3>1. Bad \subseteq Nat
      OBVIOUS
    <3>. HIDE DEF Bad
    <3>. QED
      BY <1>1, <3>1, LeastNumber
  <2>2. CASE k = 0
    <3>1. PICK f : f = [m \in 0 .. 0 |-> {s}]
      OBVIOUS
    <3>2. f = [m \in 0 .. 0 |-> IF m = 0 THEN {s} ELSE More(f[m - 1])]
      BY <3>1
    <3>3. IsSeen(f, s, 0)
      BY <1>0, <3>2, Zenon
    <3>. QED
      BY <2>1, <2>2, <3>3
  <2>3. CASE k # 0
    <3>1. k \in Nat /\ k - 1 \in Nat /\ k - 1 \notin Bad
      BY <2>1, <2>3
    <3>2. PICK f : IsSeen(f, s, k - 1)
      BY <3>1
    <3>3. \A m \in 0 .. k - 1 : f[m] = IF m = 0 THEN {s} ELSE More(f[m - 1])
      <4>1. f = [m \in 0 .. k - 1 |-> IF m = 0 THEN {s} ELSE More(f[m - 1])]
        BY <1>0, <3>2, Zenon
      <4>. QED
        BY <4>1, Zenon
    <3>4. PICK g : g = [m \in 0 .. k |-> IF m = k THEN More(f[k - 1]) ELSE f[m]]
      OBVIOUS
    <3>5. \A m \in 0 .. k : g[m] = IF m = 0 THEN {s} ELSE More(g[m - 1])
      <4> SUFFICES ASSUME NEW m \in 0 .. k PROVE g[m] = IF m = 0 THEN {s} ELSE More(g[m - 1])
        OBVIOUS
      <4>1. CASE m = k
        <5>1. g[m] = More(f[k - 1])
          BY <3>4, <4>1
        <5>2. g[m - 1] = f[k - 1]
          BY <3>1, <3>4, <4>1
        <5>. QED
          BY <2>3, <4>1, <5>1, <5>2
      <4>2. CASE m = 0
        BY <2>3, <3>1, <3>3, <3>4, <4>2
      <4>3. CASE m # k /\ m # 0
        <5>1. m \in 0 .. k - 1 /\ m - 1 \in 0 .. k /\ m - 1 # k
          BY <3>1, <4>3
        <5>2. g[m] = f[m] /\ g[m - 1] = f[m - 1]
          BY <3>4, <4>3, <5>1
        <5>. QED
          BY <3>3, <4>3, <5>1, <5>2
      <4>. QED
        BY <4>1, <4>2, <4>3
    <3>6. g = [m \in 0 .. k |-> g[m]]
      BY <3>4
    <3>7. g = [m \in 0 .. k |-> IF m = 0 THEN {s} ELSE More(g[m - 1])]
      BY <3>5, <3>6
    <3>8. IsSeen(g, s, k)
      BY <1>0, <3>7, Zenon
    <3>. QED
      BY <2>1, <3>8
  <2>. QED
    BY <2>2, <2>3
<1>. QED
  BY <1>1

\* A call joins two services.
LEMMA CallsInside == Calls \subseteq Services \X Services
BY DEF Calls

\* What a search from s has seen, s calls, directly or not.
LEMMA SeenAreCalled ==
    ASSUME NEW s \in Services, NEW n \in Nat, NEW t \in Seen(s, n)
    PROVE  t = s \/ <<s, t>> \in Callees
<1>1. \E f : IsSeen(f, s, n)
  BY SeenExists
<1>2. PICK f : f = CHOOSE g : g = [k \in 0 .. n |->
             IF k = 0 THEN {s} ELSE g[k - 1] \cup UNION {DependsOn[v] : v \in g[k - 1]}]
  OBVIOUS
<1>3. f = [k \in 0 .. n |->
             IF k = 0 THEN {s} ELSE f[k - 1] \cup UNION {DependsOn[v] : v \in f[k - 1]}]
  BY <1>1, <1>2, Zenon DEF IsSeen
<1>4. Seen(s, n) = f[n]
  BY <1>2, Zenon DEF Seen
<1>5. \A k \in 0 .. n :
        f[k] = IF k = 0 THEN {s} ELSE f[k - 1] \cup UNION {DependsOn[v] : v \in f[k - 1]}
  BY <1>3
<1> DEFINE Good(S) == \A u \in S : u \in Services /\ (u = s \/ <<s, u>> \in Callees)
           Bad == {k \in 0 .. n : ~ Good(f[k])}
<1>6. ASSUME Bad # {} PROVE FALSE
  <2>1. PICK k \in Bad : \A m \in Bad : k <= m
    <3>1. Bad \subseteq Nat
      OBVIOUS
    <3>. HIDE DEF Bad
    <3>. QED
      BY <1>6, <3>1, LeastNumber
  <2>2. k # 0
    BY <1>5, <2>1
  <2>3. k - 1 \in 0 .. n /\ k - 1 \notin Bad /\ k \in 0 .. n
    BY <2>1, <2>2
  <2>4. PICK S : S = f[k - 1] /\ Good(S)
    BY <2>3
  <2>5. ASSUME NEW u \in S, NEW w \in DependsOn[u]
        PROVE  w \in Services /\ (w = s \/ <<s, w>> \in Callees)
    <3>1. u \in Services /\ w \in Services
      BY <2>4, GraphAssumption
    <3>2. <<u, w>> \in Calls
      BY <3>1 DEF Calls
    <3>3. CASE u = s
      BY <3>1, <3>2, <3>3, CallsInside, ChainsClosed DEF Callees
    <3>4. CASE <<s, u>> \in Callees
      <4>1. <<s, u>> \in Chains(Calls) /\ <<u, w>> \in Chains(Calls)
        BY <3>2, <3>4, CallsInside, ChainsClosed DEF Callees
      <4>. QED
        BY <3>1, <4>1, CallsInside, ChainsTransitive DEF Callees
    <3>. QED
      BY <2>4, <3>3, <3>4
  <2>6. f[k] = S \cup UNION {DependsOn[v] : v \in S}
    BY <1>5, <2>2, <2>3, <2>4
  <2>7. Good(f[k])
    BY <2>4, <2>5, <2>6
  <2>. QED
    BY <2>1, <2>7
<1>7. n \in 0 .. n /\ n \notin Bad
  BY <1>6
<1>. QED
  BY <1>4, <1>7

-------------------------------------------------------------------------------
(* Causes.                                                                 *)

\* The cause of each edge is called by the effect.
BlameInv ==
    \A e \in DOMAIN edges : Source(e) # Target(e) => <<Target(e), Source(e)>> \in Callees

\* The cause of an edge of the linker is called by the effect.
LEMMA ProvidedBlame ==
    ASSUME evidence \in Seq(Clusters), NEW e \in ProvidedEdges, Source(e) # Target(e)
    PROVE  <<Target(e), Source(e)>> \in Calls
<1>1. PICK p \in (DOMAIN evidence) \X (DOMAIN evidence) :
         /\ L!Linked(evidence[p[1]], evidence[p[2]])
         /\ e = IF L!Oriented(evidence[p[1]], evidence[p[2]]).source = evidence[p[1]]
                THEN p ELSE <<p[2], p[1]>>
  BY DEF ProvidedEdges
<1>2. PICK a, b \in Clusters : a = evidence[p[1]] /\ b = evidence[p[2]]
  BY EvidenceFacts
<1>3. a.service \in Services /\ b.service \in Services
  BY ClusterFacts
<1>4. e = p \/ e = <<p[2], p[1]>>
  BY <1>1
<1>5. a.service # b.service
  BY <1>2, <1>4 DEF Source, Target
<1>6. a # b
  BY <1>5
<1>7. a.service \in DependsOn[b.service] \/ b.service \in DependsOn[a.service]
  BY <1>1, <1>2, <1>5 DEF L!Linked, L!Proximity
<1>8. CASE b.service \in DependsOn[a.service]
  <2>1. L!Oriented(a, b).source = b
    BY <1>8 DEF L!Oriented
  <2>2. e = <<p[2], p[1]>>
    BY <1>1, <1>2, <1>6, <2>1
  <2>. QED
    BY <1>2, <1>3, <1>8, <2>2 DEF Source, Target, Calls
<1>9. CASE b.service \notin DependsOn[a.service]
  <2>1. L!Oriented(a, b).source = a
    BY <1>7, <1>9 DEF L!Oriented
  <2>2. e = p
    BY <1>1, <1>2, <2>1
  <2>. QED
    BY <1>2, <1>3, <1>7, <1>9, <2>2 DEF Source, Target, Calls
<1>. QED
  BY <1>8, <1>9

\* The cause of an inferred edge is called by the effect, over a chain.
LEMMA InferredBlame ==
    ASSUME evidence \in Seq(Clusters), NEW p \in Inferred, NEW e,
           e = <<EvidenceMap[p[1]], EvidenceMap[p[2]]>>
    PROVE  <<Target(e), Source(e)>> \in Callees
<1>1. /\ p[1] \in ServicesOf(evidence) /\ p[2] \in ServicesOf(evidence)
      /\ p[1] # p[2] /\ p[1] \in Seen(p[2], MaxDepth)
  BY DEF Inferred, Infers, HasDepth
<1>2. Source(e) = p[1] /\ Target(e) = p[2]
  BY <1>1, EvidenceMapFacts DEF Source, Target
<1>3. p[2] \in Services /\ MaxDepth \in Nat
  BY <1>1, EvidenceFacts DEF MaxDepth
<1>. QED
  BY <1>1, <1>2, <1>3, SeenAreCalled

\* Every step keeps causes among what their effects call.
LEMMA NextBlame == TypeOK /\ DiagnosisInv /\ BlameInv /\ [Next]_vars => BlameInv'
<1> SUFFICES ASSUME TypeOK, DiagnosisInv, BlameInv, [Next]_vars PROVE BlameInv'
  OBVIOUS
<1>1. CASE Build
  <2>1. /\ evidence' = evidence /\ evidence \in Seq(Clusters)
        /\ DOMAIN edges' = ProvidedEdges \cup
                             {<<EvidenceMap[p[1]], EvidenceMap[p[2]]>> : p \in Inferred}
    BY <1>1 DEF Build, DiagnosisInv
  <2>2. ASSUME NEW e \in DOMAIN edges', Source(e) # Target(e)
        PROVE  <<Target(e), Source(e)>> \in Callees
    <3>1. CASE e \in ProvidedEdges
      BY <2>1, <2>2, <3>1, ProvidedBlame, CallsInside, ChainsClosed DEF Callees
    <3>2. CASE e \notin ProvidedEdges
      <4>1. PICK p \in Inferred : e = <<EvidenceMap[p[1]], EvidenceMap[p[2]]>>
        BY <2>1, <3>2
      <4>. QED
        BY <2>1, <4>1, InferredBlame
    <3>. QED
      BY <3>1, <3>2
  <2>. QED
    BY <2>1, <2>2 DEF BlameInv, Source, Target
<1>2. CASE Take \/ Publish
  <2>1. DOMAIN edges' = {}
    BY <1>2 DEF Take, Publish, DiagnosisInv, Empty
  <2>. QED
    BY <2>1 DEF BlameInv
<1>3. CASE Rank \/ Explain \/ UNCHANGED vars
  BY <1>3 DEF Rank, Explain, vars, BlameInv, Source, Target
<1>. QED
  BY <1>1, <1>2, <1>3 DEF Next

\* CausalGraphBuilder: however the linker's edges and the inferred ones meet in a
\* candidate, every effect calls its cause, and no service causes itself over any chain of
\* edges, as long as no service calls itself over a chain of calls.
THEOREM CausesAreCalled == Acyclic => (Spec => []CausesAreDependencies)
<1> SUFFICES ASSUME Acyclic PROVE Spec => []CausesAreDependencies
  OBVIOUS
<1>1. Init => BlameInv
  BY DEF Init, Empty, BlameInv
<1>2. TypeOK /\ DiagnosisInv /\ BlameInv => CausesAreDependencies
  <2> SUFFICES ASSUME TypeOK, DiagnosisInv, BlameInv PROVE CausesAreDependencies
    OBVIOUS
  <2>1. PICK B : B = {p \in {<<Source(e), Target(e)>> : e \in DOMAIN edges} : p[1] # p[2]}
    OBVIOUS
  <2>2. B \subseteq Services \X Services
    <3>1. /\ DOMAIN edges \subseteq (DOMAIN evidence) \X (DOMAIN evidence)
          /\ evidence \in Seq(Clusters)
      BY DEF DiagnosisInv, Ranking, TypeOK, Empty
    <3>2. \A e \in DOMAIN edges : Source(e) \in Services /\ Target(e) \in Services
      BY <3>1, EvidenceFacts, ClusterFacts DEF Source, Target
    <3>. QED
      BY <2>1, <3>2
  <2>3. \A p \in B : <<p[2], p[1]>> \in Callees
    BY <2>1 DEF BlameInv
  <2>4. \A p \in Chains(B) : p[1] # p[2]
    <3>1. PICK T : T = {p \in Services \X Services : <<p[2], p[1]>> \in Callees}
      OBVIOUS
    <3>2. B \subseteq T
      BY <2>2, <2>3, <3>1
    <3>3. ASSUME NEW x \in T, NEW y \in B, x[2] = y[1] PROVE <<x[1], y[2]>> \in T
      <4>1. <<y[2], y[1]>> \in Chains(Calls) /\ <<y[1], x[1]>> \in Chains(Calls)
        BY <2>3, <3>1, <3>3 DEF Callees
      <4>2. <<y[2], x[1]>> \in Callees
        BY <4>1, CallsInside, ChainsTransitive DEF Callees
      <4>. QED
        BY <2>2, <3>1, <4>2
    <3>4. Chains(B) \subseteq T
      BY <3>2, <3>3, ChainsLeast
    <3>5. ASSUME NEW p \in Chains(B) PROVE p[1] # p[2]
      <4>1. <<p[2], p[1]>> \in Callees
        BY <3>1, <3>4
      <4>. QED
        BY <4>1 DEF Acyclic
    <3>. QED
      BY <3>5
  <2>. QED
    BY <2>1, <2>3, <2>4, Zenon DEF CausesAreDependencies
<1>. QED
  BY <1>1, <1>2, InitDiagnosis, NextDiagnosis, NextBlame, PTL DEF Spec

-------------------------------------------------------------------------------
(* The root cause of plain evidence.                                       *)

LP == INSTANCE CandidateLinkerProofs WITH
        clusters <- evidence, retained <- {}, signatures <- {}, candidates <- {},
        Records <- Clusters, MaxClusters <- MaxSize, Horizon <- MaxSpan + 1

\* What the linker hands over: clusters in the order of their beginnings, within MaxSpan,
\* and where one begins before all others it is linked to another.
Grouped ==
    /\ \A m, n \in DOMAIN evidence :
          /\ evidence[m].last - evidence[n].first <= MaxSpan
          /\ m < n => evidence[m].first <= evidence[n].first
    /\ \A r \in DOMAIN evidence :
          (\A n \in DOMAIN evidence \ {r} : evidence[r].first < evidence[n].first)
             => \/ DOMAIN evidence = {r}
                \/ \E d \in DOMAIN evidence \ {r} : L!Linked(evidence[r], evidence[d])

\* The candidate's clusters and the settings are such as module CandidateLinker assumes.
LEMMA LinkerSettings ==
    /\ \A c \in Clusters : c \in LP!ClusterType /\ c.first <= c.last
    /\ MaxGap \in Nat /\ MaxSpan \in Nat /\ MaxSpan + 1 \in Nat /\ MaxSize \in Nat
    /\ MaxSpan < MaxSpan + 1
<1>1. \A c \in Clusters : c \in LP!ClusterType /\ c.first <= c.last
  BY ClustersAssumption DEF L!ClusterType, LP!ClusterType
<1>. QED
  BY <1>1, SettingsFacts

\* The search in a candidate takes all of it from its first cluster.
LEMMA FirstReachesAll ==
    ASSUME evidence' \in Seq(Clusters), NEW S, S = DOMAIN evidence', IsFiniteSet(S), S # {},
           L!Groups(S) = {S}, NEW r, LP!IsFirst(r, S)
    PROVE  LP!Reach(r, S) = S
<1>1. LP!Groups(S) = L!Groups(S)
  BY Zenon DEF L!Groups, LP!Groups, L!Reach, LP!Reach, L!LinkedIds, LP!LinkedIds,
    L!Linked, LP!Linked, L!GapOK, LP!GapOK, L!Dist, LP!Dist, L!Proximity, LP!Proximity,
    L!PrecedenceOK, LP!PrecedenceOK, L!Before, LP!Before, L!SortsBefore, LP!SortsBefore
<1>2. LP!Groups(S) = {S}
  BY <1>1, Zenon
<1>3. S \in SUBSET DOMAIN evidence'
  OBVIOUS
<1>4. LP!IsFiniteSet(S)
  BY Zenon DEF LP!IsFiniteSet, IsFiniteSet
<1>. QED
  BY <1>2, <1>3, <1>4, LinkerSettings, GraphAssumption, LP!WholeGroup

\* The candidate that arrives is such a group.
LEMMA TakenIsGrouped == Take => Grouped'
<1> SUFFICES ASSUME Take PROVE Grouped'
  OBVIOUS
<1>1. evidence' \in SortedSeqs /\ evidence' \in Seq(Clusters)
  BY DEF Take, SortedSeqs
<1>2. DOMAIN evidence' \subseteq Nat /\ \A n \in DOMAIN evidence' : evidence'[n] \in Clusters
  BY <1>1
<1>3. \A n \in DOMAIN evidence' : /\ evidence'[n].first \in Nat /\ evidence'[n].last \in Nat
                                 /\ evidence'[n].score \in Nat
  BY <1>2, ClusterFacts
<1>4. \A m, n \in DOMAIN evidence' : m < n => evidence'[m].first <= evidence'[n].first
  <2>1. \A m, n \in DOMAIN evidence' : m < n => ~ L!SortsBefore(evidence'[n], evidence'[m])
    BY <1>1 DEF SortedSeqs
  <2>. QED
    BY <1>3, <2>1 DEF L!SortsBefore
<1>5. \A m, n \in DOMAIN evidence' : evidence'[m].last - evidence'[n].first <= MaxSpan
  BY DEF Take, L!Allowed
<1>6. ASSUME NEW r \in DOMAIN evidence', DOMAIN evidence' # {r},
             \A n \in DOMAIN evidence' \ {r} : evidence'[r].first < evidence'[n].first
      PROVE  \E d \in DOMAIN evidence' \ {r} : L!Linked(evidence'[r], evidence'[d])
  <2>1. PICK S : S = DOMAIN evidence'
    OBVIOUS
  <2>2. IsFiniteSet(S) /\ S # {} /\ r \in S
    <3>1. IsFiniteSet(1 .. Len(evidence')) /\ DOMAIN evidence' = 1 .. Len(evidence')
      <4>1. PICK n \in Nat : n = Len(evidence')
        BY <1>1
      <4>2. IsFiniteSet(1 .. n)
        BY FS_Interval
      <4>. QED
        BY <1>1, <4>1, <4>2
    <3>. QED
      BY <2>1, <3>1
  <2>3. LP!IsFirst(r, S)
    BY <1>6, <2>1 DEF LP!IsFirst, LP!Before, LP!SortsBefore
  <2>4. LP!Reach(r, S) = S
    <3>1. L!Groups(S) = {S}
      BY <2>1 DEF Take
    <3>. QED
      BY <1>1, <2>1, <2>2, <2>3, <3>1, FirstReachesAll
  <2>5. ~ \A d \in S \ {r} : ~ LP!LinkedIds(r, d)
    <3> SUFFICES ASSUME \A d \in S \ {r} : ~ LP!LinkedIds(r, d) PROVE FALSE
      OBVIOUS
    <3>1. PICK T : T = {r}
      OBVIOUS
    <3>2. \A c \in T : \A d \in S : LP!LinkedIds(c, d) => d \in T
      BY <3>1
    <3>3. T \in SUBSET S /\ r \in T
      BY <2>2, <3>1
    <3>4. LP!IsFiniteSet(S)
      BY <2>2, Zenon DEF LP!IsFiniteSet, IsFiniteSet
    <3>5. LP!Reach(r, S) \subseteq T
      BY <2>2, <3>2, <3>3, <3>4, LinkerSettings, GraphAssumption, LP!ReachLeast
    <3>. QED
      BY <1>6, <2>1, <2>2, <2>4, <3>1, <3>5
  <2>6. PICK d \in S \ {r} : LP!LinkedIds(r, d)
    BY <2>5
  <2>7. L!Linked(evidence'[r], evidence'[d])
    BY <2>6 DEF L!Linked, LP!Linked, LP!LinkedIds, L!GapOK, LP!GapOK, L!Dist, LP!Dist,
      L!Proximity, LP!Proximity, L!PrecedenceOK, LP!PrecedenceOK
  <2>. QED
    BY <2>1, <2>6, <2>7
<1>. QED
  BY <1>4, <1>5, <1>6 DEF Grouped

\* The edges as Build leaves them.
Built ==
    /\ DOMAIN edges =
         ProvidedEdges \cup {<<EvidenceMap[p[1]], EvidenceMap[p[2]]>> : p \in Inferred}
    /\ \A e \in ProvidedEdges : edges[e] = Unit

\* The edge from the evidence of s to that of t.
Pair(s, t) == <<latest[s], latest[t]>>

\* An edge leads from r to each other service, to a one of full weight; none leads back.
Star(r, a) ==
    /\ r \in Ranked /\ a \in Ranked \ {r}
    /\ \A u \in Ranked \ {r} : Pair(r, u) \in DOMAIN edges
    /\ edges[Pair(r, a)] = Unit
    /\ \A e \in DOMAIN edges :
          /\ Source(e) \in Ranked /\ Target(e) \in Ranked \ {r, Source(e)}
          /\ e = Pair(Source(e), Target(e))
    /\ \A s, t \in Ranked : ~ (Pair(s, t) \in DOMAIN edges /\ Pair(t, s) \in DOMAIN edges)

\* Where each service has one cluster, a service's evidence is its cluster.
LEMMA OneClusterEach ==
    ASSUME Ranking, Len(evidence) = Cardinality(Ranked)
    PROVE  /\ \A n \in DOMAIN evidence :
                 evidence[n].service \in Ranked /\ latest[evidence[n].service] = n
           /\ \A s \in Ranked : latest[s] \in DOMAIN evidence /\ evidence[latest[s]].service = s
<1>1. PICK D, R : D = DOMAIN evidence /\ R = Ranked
  OBVIOUS
<1>2. R = ServicesOf(evidence) /\ IsFiniteSet(D) /\ evidence \in Seq(Clusters)
  BY <1>1, RankedFacts, EvidenceFacts DEF Ranking
<1>3. Cardinality(D) = Cardinality(R)
  <2>1. PICK k \in Nat : k = Len(evidence) /\ D = 1 .. k
    BY <1>1, <1>2
  <2>2. Cardinality(1 .. k) = k
    BY FS_Interval
  <2>. QED
    BY <1>1, <2>1, <2>2
<1>4. PICK f : f = [n \in D |-> evidence[n].service]
  OBVIOUS
<1>5. f \in Surjection(D, R)
  BY <1>1, <1>2, <1>4 DEF Surjection, ServicesOf
<1>6. f \in Injection(D, R)
  BY <1>2, <1>3, <1>5, FS_SurjSameCardinalityImpliesInj
<1>7. \A s \in R : latest[s] \in D /\ evidence[latest[s]].service = s
  BY <1>1, <1>2, EvidenceMapFacts DEF Ranking
<1>8. ASSUME NEW n \in D PROVE evidence[n].service \in R /\ latest[evidence[n].service] = n
  <2>1. evidence[n].service \in R
    BY <1>1, <1>2 DEF ServicesOf
  <2>2. PICK m \in D : m = latest[evidence[n].service] /\ evidence[m].service = evidence[n].service
    BY <1>7, <2>1
  <2>3. f[m] = f[n]
    BY <1>4, <2>2
  <2>4. m = n
    BY <1>6, <2>3 DEF Injection, IsInjective
  <2>. QED
    BY <2>1, <2>2, <2>4
<1>. QED
  BY <1>1, <1>7, <1>8

\* Calls in both directions, over chains, would be a circle.
LEMMA NoCircle ==
    ASSUME Acyclic, NEW s, NEW t, <<s, t>> \in Callees
    PROVE  <<t, s>> \notin Callees
<1> SUFFICES ASSUME <<t, s>> \in Callees PROVE FALSE
  OBVIOUS
<1>1. <<s, s>> \in Callees
  BY CallsInside, ChainsTransitive DEF Callees
<1>. QED
  BY <1>1 DEF Acyclic

\* The edges around a plain root cause.
LEMMA PlainIsStar ==
    ASSUME Balanced, Ranking, Built, Grouped, BlameInv, Len(evidence) = Cardinality(Ranked),
           NEW r \in Ranked, Plain(r), Ranked # {r}
    PROVE  \E a : Star(r, a)
<1>0. /\ Acyclic /\ \A p \in Callees : HasDepth(p[1], p[2])
      /\ MaxSpan <= MaxLag
  BY DEF Balanced
<1>1. /\ \A n \in DOMAIN evidence :
            evidence[n].service \in Ranked /\ latest[evidence[n].service] = n
      /\ \A s \in Ranked : latest[s] \in DOMAIN evidence /\ evidence[latest[s]].service = s
  BY OneClusterEach
<1>2. /\ evidence \in Seq(Clusters) /\ Ranked = ServicesOf(evidence)
      /\ DOMAIN edges \subseteq (DOMAIN evidence) \X (DOMAIN evidence) /\ latest = EvidenceMap
  BY RankedFacts DEF Ranking
<1>3. \A e \in DOMAIN edges :
        Source(e) \in Ranked /\ Target(e) \in Ranked /\ e = Pair(Source(e), Target(e))
  BY <1>1, <1>2 DEF Source, Target, Pair
<1>4. ASSUME NEW e \in DOMAIN edges PROVE Source(e) # Target(e)
  <2>1. CASE e \in ProvidedEdges
    <3>1. e \in (DOMAIN evidence) \X (DOMAIN evidence) /\ e[1] # e[2]
      BY <1>2, <2>1, EvidenceFacts DEF ProvidedEdges
    <3>. QED
      BY <1>1, <3>1 DEF Source, Target
  <2>2. CASE e \notin ProvidedEdges
    <3>1. PICK p \in Inferred : e = <<EvidenceMap[p[1]], EvidenceMap[p[2]]>>
      BY <2>2 DEF Built
    <3>2. p[1] \in Ranked /\ p[2] \in Ranked /\ p[1] # p[2]
      BY <1>2 DEF Inferred, Infers
    <3>. QED
      BY <1>1, <1>2, <3>1, <3>2 DEF Source, Target
  <2>. QED
    BY <2>1, <2>2
<1>5. ASSUME NEW e \in DOMAIN edges PROVE <<Target(e), Source(e)>> \in Callees
  BY <1>4 DEF BlameInv
<1>6. \A u \in Ranked \ {r} : <<u, r>> \in Callees /\ Evidence(r).first < Evidence(u).first
  BY DEF Plain
<1>7. ASSUME NEW e \in DOMAIN edges PROVE Target(e) # r
  <2> SUFFICES ASSUME Target(e) = r PROVE FALSE
    OBVIOUS
  <2>1. <<r, Source(e)>> \in Callees /\ <<Source(e), r>> \in Callees
    BY <1>3, <1>4, <1>5, <1>6
  <2>. QED
    BY <1>0, <2>1, NoCircle
<1>8. ASSUME NEW s \in Ranked, NEW t \in Ranked, Pair(s, t) \in DOMAIN edges,
             Pair(t, s) \in DOMAIN edges
      PROVE  FALSE
  <2>1. Source(Pair(s, t)) = s /\ Target(Pair(s, t)) = t
    BY <1>1 DEF Source, Target, Pair
  <2>2. Source(Pair(t, s)) = t /\ Target(Pair(t, s)) = s
    BY <1>1 DEF Source, Target, Pair
  <2>3. <<t, s>> \in Callees /\ <<s, t>> \in Callees
    BY <1>5, <1>8, <2>1, <2>2
  <2>. QED
    BY <1>0, <2>3, NoCircle
<1>9. ASSUME NEW u \in Ranked \ {r} PROVE Pair(r, u) \in DOMAIN edges
  <2>1. PICK c, d \in Clusters : c = evidence[latest[r]] /\ d = evidence[latest[u]]
    BY <1>1, <1>2
  <2>2. c.first \in Nat /\ d.first \in Nat /\ d.last \in Nat /\ d.first <= d.last
    BY ClusterFacts
  <2>3. c.first < d.first
    BY <1>6, <2>1 DEF Evidence
  <2>4. d.last - c.first <= MaxSpan
    BY <1>1, <2>1 DEF Grouped
  <2>5. Lag(r, u) = d.first - c.first
    BY <1>2, <2>1 DEF Lag
  <2>6. MaxSpan \in Nat /\ MaxLag \in Nat /\ Overlap \in Nat
    BY SettingsFacts
  <2>7. Lag(r, u) >= - Overlap /\ Lag(r, u) <= MaxLag
    BY <1>0, <2>2, <2>3, <2>4, <2>5, <2>6
  <2>8. HasDepth(u, r)
    <3>1. PICK p \in Callees : p = <<u, r>>
      BY <1>6
    <3>. QED
      BY <1>0, <3>1
  <2>9. <<r, u>> \in Inferred
    BY <1>2, <2>7, <2>8 DEF Inferred, Infers
  <2>10. PICK p \in Inferred : p = <<r, u>>
    BY <2>9
  <2>11. <<EvidenceMap[p[1]], EvidenceMap[p[2]]>> \in DOMAIN edges
    BY DEF Built
  <2>. QED
    BY <1>2, <2>10, <2>11 DEF Pair
<1>10. \E a \in Ranked \ {r} : edges[Pair(r, a)] = Unit
  <2>1. PICK m \in DOMAIN evidence : m = latest[r] /\ evidence[m].service = r
    BY <1>1
  <2>2. ASSUME NEW n \in DOMAIN evidence \ {m}
        PROVE  evidence[n].service \in Ranked \ {r} /\ evidence[m].first < evidence[n].first
    <3>1. evidence[n].service \in Ranked /\ latest[evidence[n].service] = n
      BY <1>1
    <3>2. evidence[n].service # r
      BY <2>1, <3>1
    <3>. QED
      BY <1>6, <2>1, <3>1, <3>2 DEF Evidence
  <2>3. DOMAIN evidence # {m}
    <3> SUFFICES ASSUME DOMAIN evidence = {m} PROVE FALSE
      OBVIOUS
    <3>1. \A s \in Ranked : s = r
      BY <1>1, <2>1
    <3>. QED
      BY <3>1
  <2>4. PICK n \in DOMAIN evidence \ {m} : L!Linked(evidence[m], evidence[n])
    BY <2>2, <2>3 DEF Grouped
  <2>5. PICK a \in Ranked \ {r} : a = evidence[n].service /\ latest[a] = n
    BY <1>1, <2>2
  <2>6. m < n
    <3>1. m \in Nat /\ n \in Nat
      BY <1>2, EvidenceFacts
    <3>2. evidence[m].first \in Nat /\ evidence[n].first \in Nat
      BY <1>2, EvidenceFacts, ClusterFacts
    <3>3. ~ (n < m)
      BY <2>2, <3>2 DEF Grouped
    <3>. QED
      BY <3>1, <3>3
  <2>7. a \notin DependsOn[r]
    <3> SUFFICES ASSUME a \in DependsOn[r] PROVE FALSE
      OBVIOUS
    <3>1. r \in Services /\ a \in Services
      BY RankedFacts
    <3>2. <<r, a>> \in Calls
      BY <3>1 DEF Calls
    <3>3. <<r, a>> \in Callees
      BY <3>2, CallsInside, ChainsClosed DEF Callees
    <3>. QED
      BY <1>0, <1>6, <3>3, NoCircle
  <2>8. r \in DependsOn[a]
    BY <2>1, <2>4, <2>5, <2>7 DEF L!Linked, L!Proximity
  <2>9. L!Oriented(evidence[m], evidence[n]).source = evidence[m]
    BY <2>1, <2>5, <2>7, <2>8 DEF L!Oriented
  <2>10. PICK p : p = <<m, n>>
    OBVIOUS
  <2>11. p \in ProvidedEdges
    BY <2>4, <2>6, <2>9, <2>10 DEF ProvidedEdges
  <2>12. edges[p] = Unit
    BY <2>11 DEF Built
  <2>. QED
    BY <2>1, <2>5, <2>10, <2>12 DEF Pair
<1>11. PICK a \in Ranked \ {r} : edges[Pair(r, a)] = Unit
  BY <1>10
<1>12. Star(r, a)
  BY <1>3, <1>4, <1>7, <1>8, <1>9, <1>11 DEF Star
<1>. QED
  BY <1>12

-------------------------------------------------------------------------------
(* The numbers around a plain root cause, with up to three services.       *)

\* The edge of a pair joins the pair.
LEMMA PairFacts ==
    ASSUME Ranking, NEW s \in Ranked, NEW t \in Ranked
    PROVE  Source(Pair(s, t)) = s /\ Target(Pair(s, t)) = t
BY RankedFacts DEF Source, Target, Pair, Evidence

\* What an edge counts for its ends.
LEMMA CountedIs ==
    ASSUME Ranking, NEW s, NEW e \in DOMAIN edges, Source(e) # Target(e)
    PROVE  /\ Source(e) = s => Counted(s)[e] = Greatest(1000, edges[e])
           /\ Source(e) = s => 1000 <= Counted(s)[e] /\ Counted(s)[e] <= 10000
           /\ Target(e) = s => Counted(s)[e] <= 6000
           /\ Source(e) # s /\ Target(e) # s => Counted(s)[e] = 0
<1>1. PICK w \in Nat : w = edges[e] /\ w <= 10000
  <2>1. edges[e] \in 1 .. Unit
    BY DEF Ranking
  <2>. QED
    BY <2>1, UnitRange
<1>2. Counted(s)[e] = (IF Source(e) = s THEN Greatest(Unit \div 10, w) ELSE 0)
        + (IF Target(e) = s THEN Greatest(Unit \div 20, (6 * w) \div 10) ELSE 0)
  BY <1>1 DEF Counted
<1>3. PICK x \in Nat : x = Greatest(Unit \div 10, w) /\ 1000 <= x /\ x <= 10000
                      /\ x = Greatest(1000, w)
  BY <1>1 DEF Greatest, Unit
<1>4. PICK y \in Nat : y = Greatest(Unit \div 20, (6 * w) \div 10) /\ y <= 6000
  <2>1. PICK z \in Nat : z = (6 * w) \div 10 /\ z <= 6000
    BY <1>1
  <2>2. Greatest(500, z) \in Nat /\ Greatest(500, z) <= 6000
    BY <2>1 DEF Greatest
  <2>3. Unit \div 20 = 500
    BY DEF Unit
  <2>. QED
    BY <2>1, <2>2, <2>3
<1>5. Counted(s)[e] = (IF Source(e) = s THEN x ELSE 0) + (IF Target(e) = s THEN y ELSE 0)
  BY <1>2, <1>3, <1>4
<1>. QED
  BY <1>1, <1>3, <1>4, <1>5

\* The support of the centre of a star and of the others,
LEMMA StarSupport ==
    ASSUME Ranking, NEW r, NEW a, Star(r, a)
    PROVE  /\ Support(r) >= 10000
           /\ \A w \in Ranked \ {r, a} : Support(r) >= 11000
           /\ \A u : Ranked = {r, u} /\ u # r => Support(u) <= 6000
           /\ \A u, o : Ranked = {r, u, o} /\ u # r /\ o # r /\ u # o => Support(u) <= 16000
<1>1. PICK D : D = DOMAIN edges
  OBVIOUS
<1>2. /\ IsFiniteSet(D) /\ r \in Ranked /\ a \in Ranked \ {r}
      /\ \A u \in Ranked \ {r} : Pair(r, u) \in D
      /\ edges[Pair(r, a)] = 10000
      /\ \A e \in D : /\ Source(e) \in Ranked /\ Target(e) \in Ranked \ {r, Source(e)}
                      /\ e = Pair(Source(e), Target(e))
      /\ \A s, t \in Ranked : ~ (Pair(s, t) \in D /\ Pair(t, s) \in D)
  BY <1>1, RankedFacts, UnitFacts DEF Star
<1>3. \A s, t \in Ranked : Source(Pair(s, t)) = s /\ Target(Pair(s, t)) = t
  BY PairFacts
<1>4. \A s : /\ \A e \in D : Counted(s)[e] \in Nat
             /\ Support(s) = Cardinality(Units(Counted(s), D))
             /\ Support(s) \in Nat
  BY <1>1, SupportIs
<1>5. \A s : \A e \in D :
         /\ Source(e) = s => Counted(s)[e] = Greatest(1000, edges[e])
         /\ Source(e) = s => 1000 <= Counted(s)[e] /\ Counted(s)[e] <= 10000
         /\ Target(e) = s => Counted(s)[e] <= 6000
         /\ Source(e) # s /\ Target(e) # s => Counted(s)[e] = 0
  BY <1>1, <1>2, CountedIs
<1>6. Counted(r)[Pair(r, a)] = 10000
  <2>1. Counted(r)[Pair(r, a)] = Greatest(1000, 10000)
    BY <1>2, <1>3, <1>5
  <2>. QED
    BY <2>1 DEF Greatest
<1>7. /\ \A x \in D : Counted(r)[x] <= Support(r)
      /\ \A x, y \in D : x # y => Counted(r)[x] + Counted(r)[y] <= Support(r)
  BY <1>2, <1>4, UnitsAtLeast
<1>8. Support(r) >= 10000
  <2>1. Counted(r)[Pair(r, a)] <= Support(r)
    BY <1>2, <1>7
  <2>. QED
    BY <1>4, <1>6, <2>1
<1>9. ASSUME NEW w \in Ranked \ {r, a} PROVE Support(r) >= 11000
  <2>1. Pair(r, w) \in D /\ Pair(r, w) # Pair(r, a)
    BY <1>2, <1>3
  <2>2. 10000 + Counted(r)[Pair(r, w)] <= Support(r)
    BY <1>2, <1>6, <1>7, <2>1
  <2>3. PICK k, n \in Nat : k = Counted(r)[Pair(r, w)] /\ n = Support(r)
    BY <1>4, <2>1
  <2>4. 1000 <= k
    BY <1>2, <1>3, <1>5, <2>1, <2>3
  <2>. QED
    BY <2>2, <2>3, <2>4
<1>10. ASSUME NEW u, Ranked = {r, u}, u # r PROVE Support(u) <= 6000
  <2>1. u \in Ranked
    BY <1>10
  <2>2. \A e \in D : Source(e) = r /\ Target(e) = u
    BY <1>2, <1>10
  <2>3. \A e \in D : e = Pair(r, u)
    BY <1>2, <2>2
  <2>4. PICK y, z : y = Pair(r, u) /\ z = Pair(u, r) /\ y # z /\ y \in D
    BY <1>2, <1>3, <1>10, <2>1
  <2>5. Counted(u)[y] <= 6000
    BY <1>5, <2>2, <2>4
  <2>6. Cardinality(Units(Counted(u), D)) <= 6000 + 0
    <3>1. z \notin D /\ \A x \in D : x # y /\ x # z => Counted(u)[x] = 0
      BY <2>3, <2>4
    <3>2. 6000 \in Nat /\ 0 \in Nat
      OBVIOUS
    <3>3. PICK v : v = Counted(u)
      OBVIOUS
    <3>4. \A x \in D : v[x] \in Nat
      BY <1>4, <3>3
    <3>5. v[y] <= 6000 /\ \A x \in D : x # y /\ x # z => v[x] = 0
      BY <2>5, <3>1, <3>3
    <3>6. Cardinality(Units(v, D)) <= 6000 + 0
      BY <1>2, <2>4, <3>1, <3>2, <3>4, <3>5, UnitsAtMost
    <3>. QED
      BY <3>3, <3>6
  <2>. QED
    BY <1>4, <2>6
<1>11. ASSUME NEW u, NEW o, Ranked = {r, u, o}, u # r, o # r, u # o
       PROVE  Support(u) <= 16000
  <2>1. u \in Ranked /\ o \in Ranked /\ u \in Ranked \ {r}
    BY <1>11
  <2>2. PICK z : /\ z = Pair(u, o) \/ z = Pair(o, u)
                 /\ \A e \in D : e = Pair(u, o) \/ e = Pair(o, u) => e = z
    <3>1. ~ (Pair(u, o) \in D /\ Pair(o, u) \in D)
      BY <1>2, <2>1
    <3>2. CASE Pair(u, o) \in D
      BY <3>1, <3>2
    <3>3. CASE Pair(u, o) \notin D
      BY <3>3
    <3>. QED
      BY <3>2, <3>3
  <2>3. PICK y : y = Pair(r, u) /\ y \in D
    BY <1>2, <2>1
  <2>4. y # z /\ (Source(z) = u \/ Target(z) = u)
    BY <1>2, <1>3, <1>11, <2>1, <2>2, <2>3
  <2>5. ASSUME NEW e \in D, e # y, e # z PROVE Counted(u)[e] = 0
    <3> SUFFICES Source(e) # u /\ Target(e) # u
      BY <1>5
    <3>1. Source(e) \in {r, u, o} /\ Target(e) \in {u, o} /\ Source(e) # Target(e)
      BY <1>2, <1>11
    <3>2. CASE Source(e) = u
      BY <1>2, <2>2, <2>5, <3>1, <3>2
    <3>3. CASE Target(e) = u
      BY <1>2, <2>2, <2>3, <2>5, <3>1, <3>3
    <3>. QED
      BY <3>2, <3>3
  <2>6. Counted(u)[y] <= 6000
    BY <1>2, <1>3, <1>5, <2>1, <2>3
  <2>7. z \in D => Counted(u)[z] <= 10000
    <3> SUFFICES ASSUME z \in D PROVE Counted(u)[z] <= 10000
      OBVIOUS
    <3>1. PICK k \in Nat : k = Counted(u)[z]
      BY <1>4
    <3>2. k <= 10000 \/ k <= 6000
      BY <1>5, <2>4, <3>1
    <3>. QED
      BY <3>1, <3>2
  <2>8. Cardinality(Units(Counted(u), D)) <= 6000 + 10000
    <3>1. PICK B, C \in Nat : B = 6000 /\ C = 10000
      OBVIOUS
    <3>2. PICK v : v = Counted(u)
      OBVIOUS
    <3>3. \A x \in D : v[x] \in Nat
      BY <1>4, <3>2
    <3>4. /\ y \in D => v[y] <= B
          /\ z \in D => v[z] <= C
          /\ \A x \in D : x # y /\ x # z => v[x] = 0
      BY <2>5, <2>6, <2>7, <3>1, <3>2
    <3>5. IsFiniteSet(D) /\ y # z
      BY <1>2, <2>4
    <3>6. Cardinality(Units(v, D)) <= B + C
      BY <3>3, <3>4, <3>5, UnitsAtMost
    <3>. QED
      BY <3>1, <3>2, <3>6
  <2>. QED
    BY <1>4, <2>8
<1>. QED
  BY <1>8, <1>9, <1>10, <1>11

\* in relation to the largest: eleven sixteenths at least, and no more than all.
LEMMA StarCausalSupport ==
    ASSUME Ranking, Cardinality(Ranked) <= 3, NEW r, NEW a, Star(r, a), NEW u \in Ranked \ {r}
    PROVE  CausalSupport(r) >= 6875 /\ CausalSupport(u) <= 10000
<1>1. PICK W : W = {Unit} \cup {Support(s) : s \in Ranked}
  OBVIOUS
<1>2. PICK x \in Nat : x = Support(r)
  BY SupportIs
<1>3. r \in Ranked /\ a \in Ranked /\ a # r /\ IsFiniteSet(Ranked)
  BY RankedFacts DEF Star
<1>4. IsFiniteSet(W) /\ W \subseteq Int /\ W # {}
  <2>1. PICK f : f = [s \in Ranked |-> Support(s)]
    OBVIOUS
  <2>2. \A s \in Ranked : f[s] = Support(s) /\ f[s] \in Nat
    BY <2>1, SupportIs
  <2>3. PICK V : V = {f[s] : s \in Ranked}
    OBVIOUS
  <2>4. IsFiniteSet(V) /\ V \subseteq Int
    BY <2>2, <2>3, RankedValues
  <2>5. IsFiniteSet(V \cup {Unit})
    BY <2>4, FS_AddElement
  <2>6. W = V \cup {Unit}
    BY <1>1, <2>2, <2>3
  <2>. QED
    BY <2>4, <2>5, <2>6, UnitFacts
<1>5. PICK m \in Int : m = Max(W) /\ m \in W /\ \A y \in W : m >= y
  BY <1>4, MaxFacts
<1>6. m >= 10000
  BY <1>1, <1>5, UnitFacts
<1>7. CausalSupport(r) = Share(x, m)
  BY <1>1, <1>2, <1>5 DEF CausalSupport
<1>8. 11 * m <= 16 * x
  <2>1. \/ Ranked = {r, a} /\ Cardinality(Ranked) = 2
        \/ \E w \in Ranked : Ranked = {r, a, w} /\ w # r /\ w # a /\ Cardinality(Ranked) = 3
    BY <1>3, UpToThree
  <2>2. m = 10000 \/ m = x \/ \E s \in Ranked \ {r} : m = Support(s)
    <3>1. m = Unit \/ \E s \in Ranked : m = Support(s)
      BY <1>1, <1>5
    <3>. QED
      BY <1>2, <3>1, UnitFacts
  <2>3. x >= 10000
    BY <1>2, StarSupport
  <2>4. CASE Ranked = {r, a}
    <3>1. Support(a) <= 6000
      BY <1>3, <2>4, StarSupport
    <3>2. m = 10000 \/ m = x \/ m <= 6000
      BY <2>2, <2>4, <3>1
    <3>. QED
      BY <2>3, <3>2
  <2>5. CASE \E w \in Ranked : Ranked = {r, a, w} /\ w # r /\ w # a
    <3>1. PICK w \in Ranked : Ranked = {r, a, w} /\ w # r /\ w # a
      BY <2>5
    <3>2. Ranked = {r, w, a}
      BY <3>1
    <3>3. Support(a) <= 16000 /\ Support(w) <= 16000
      BY <1>3, <3>1, <3>2, StarSupport
    <3>4. x >= 11000
      BY <1>2, <3>1, StarSupport
    <3>5. m = 10000 \/ m = x \/ m <= 16000
      BY <2>2, <3>1, <3>3
    <3>. QED
      BY <3>4, <3>5
  <2>. QED
    BY <2>1, <2>4, <2>5
<1>9. 6875 <= Share(x, m)
  <2>1. 6875 * m <= 10000 * x
    BY <1>8
  <2>2. m \in Nat \ {0} /\ 6875 \in Nat
    BY <1>6
  <2>. QED
    BY <2>1, <2>2, ShareBounds
<1>10. CausalSupport(u) <= 10000
  <2>1. PICK y \in Nat : y = Support(u)
    BY SupportIs
  <2>2. y <= m
    BY <1>1, <1>5, <2>1
  <2>3. CausalSupport(u) = Share(y, m)
    BY <1>1, <1>5, <2>1 DEF CausalSupport
  <2>4. m \in Nat \ {0}
    BY <1>6
  <2>. QED
    BY <2>2, <2>3, <2>4, ShareOfWhole
<1>. QED
  <2>1. Share(x, m) \in Nat
    BY <1>6, ShareIsNat
  <2>. QED
    BY <1>7, <1>9, <1>10, <2>1

\* What leaves the centre of a star, and what leaves the others.
LEMMA StarOut ==
    ASSUME Ranking, NEW r, NEW a, Star(r, a)
    PROVE  /\ WeightedOut(r) >= 10000
           /\ \A w \in Ranked \ {r, a} : WeightedOut(r) >= 11000
           /\ {Target(e) : e \in Outgoing(r)} = Ranked \ {r}
           /\ \A u : Ranked = {r, u} /\ u # r => Outgoing(u) = {} /\ WeightedOut(u) = 0
           /\ \A u, o : Ranked = {r, u, o} /\ u # r /\ o # r /\ u # o =>
                 /\ \A e \in Outgoing(u) : e = Pair(u, o)
                 /\ WeightedOut(u) <= 10000
<1>1. PICK D : D = DOMAIN edges
  OBVIOUS
<1>2. /\ IsFiniteSet(D) /\ r \in Ranked /\ a \in Ranked \ {r}
      /\ \A u \in Ranked \ {r} : Pair(r, u) \in D
      /\ edges[Pair(r, a)] = 10000
      /\ \A e \in D : /\ Source(e) \in Ranked /\ Target(e) \in Ranked \ {r, Source(e)}
                      /\ e = Pair(Source(e), Target(e))
  BY <1>1, RankedFacts, UnitFacts DEF Star
<1>3. \A s, t \in Ranked : Source(Pair(s, t)) = s /\ Target(Pair(s, t)) = t
  BY PairFacts
<1>4. \A s : /\ \A e \in Outgoing(s) : Leaving(s)[e] \in Nat
             /\ WeightedOut(s) = Cardinality(Units(Leaving(s), Outgoing(s)))
             /\ WeightedOut(s) \in Nat
  BY WeightedOutIs
<1>5. ASSUME NEW s, NEW e \in Outgoing(s)
      PROVE  /\ Leaving(s)[e] = Greatest(1000, edges[e])
             /\ 1000 <= Leaving(s)[e] /\ Leaving(s)[e] <= 10000
  <2>1. e \in DOMAIN edges /\ edges[e] \in 1 .. Unit
    BY DEF Outgoing, Ranking
  <2>2. PICK w \in Nat : w = edges[e] /\ w <= 10000
    BY <2>1, UnitRange
  <2>3. Leaving(s)[e] = Greatest(Unit \div 10, edges[e])
    BY <2>1 DEF Leaving
  <2>4. Unit \div 10 = 1000
    BY DEF Unit
  <2>5. Leaving(s)[e] = Greatest(1000, w)
    BY <2>2, <2>3, <2>4
  <2>6. 1000 <= Greatest(1000, w) /\ Greatest(1000, w) <= 10000
    BY <2>2 DEF Greatest
  <2>. QED
    BY <2>2, <2>5, <2>6
<1>6. /\ \A s : IsFiniteSet(Outgoing(s)) /\ Outgoing(s) \subseteq D
      /\ \A s : \A e \in D : e \in Outgoing(s) <=> Source(e) = s
  BY <1>1, <1>2, FS_Subset DEF Outgoing
<1>7. \A u \in Ranked \ {r} : Pair(r, u) \in Outgoing(r)
  BY <1>2, <1>3, <1>6
<1>8. /\ \A x \in Outgoing(r) : Leaving(r)[x] <= WeightedOut(r)
      /\ \A x, y \in Outgoing(r) : x # y => Leaving(r)[x] + Leaving(r)[y] <= WeightedOut(r)
  BY <1>4, <1>6, UnitsAtLeast
<1>9. Leaving(r)[Pair(r, a)] = 10000
  <2>1. Leaving(r)[Pair(r, a)] = Greatest(1000, 10000)
    BY <1>2, <1>5, <1>7
  <2>. QED
    BY <2>1 DEF Greatest
<1>10. WeightedOut(r) >= 10000
  <2>1. Leaving(r)[Pair(r, a)] <= WeightedOut(r)
    BY <1>2, <1>7, <1>8
  <2>. QED
    BY <1>4, <1>9, <2>1
<1>11. ASSUME NEW w \in Ranked \ {r, a} PROVE WeightedOut(r) >= 11000
  <2>1. Pair(r, w) \in Outgoing(r) /\ Pair(r, w) # Pair(r, a)
    BY <1>2, <1>3, <1>7
  <2>2. 10000 + Leaving(r)[Pair(r, w)] <= WeightedOut(r)
    BY <1>2, <1>7, <1>8, <1>9, <2>1
  <2>3. PICK k, n \in Nat : k = Leaving(r)[Pair(r, w)] /\ n = WeightedOut(r)
    BY <1>4, <2>1
  <2>4. 1000 <= k
    BY <1>5, <2>1, <2>3
  <2>. QED
    BY <2>2, <2>3, <2>4
<1>12. {Target(e) : e \in Outgoing(r)} = Ranked \ {r}
  <2>1. \A e \in Outgoing(r) : Target(e) \in Ranked \ {r}
    BY <1>2, <1>6
  <2>2. \A u \in Ranked \ {r} : Pair(r, u) \in Outgoing(r) /\ Target(Pair(r, u)) = u
    BY <1>2, <1>3, <1>7
  <2>. QED
    BY <2>1, <2>2
<1>13. ASSUME NEW u, Ranked = {r, u}, u # r PROVE Outgoing(u) = {} /\ WeightedOut(u) = 0
  <2>1. Outgoing(u) = {}
    BY <1>2, <1>6, <1>13
  <2>2. Units(Leaving(u), {}) = {}
    BY DEF Units
  <2>. QED
    BY <1>4, <2>1, <2>2, FS_EmptySet
<1>14. ASSUME NEW u, NEW o, Ranked = {r, u, o}, u # r, o # r, u # o
       PROVE  (\A e \in Outgoing(u) : e = Pair(u, o)) /\ WeightedOut(u) <= 10000
  <2>1. \A e \in Outgoing(u) : e = Pair(u, o)
    <3> SUFFICES ASSUME NEW e \in Outgoing(u) PROVE e = Pair(u, o)
      OBVIOUS
    <3>1. e \in D /\ Source(e) = u
      BY <1>6
    <3>2. Target(e) = o
      BY <1>2, <1>14, <3>1
    <3>. QED
      BY <1>2, <3>1, <3>2
  <2>2. PICK v, T : v = Leaving(u) /\ T = Outgoing(u)
    OBVIOUS
  <2>3. PICK y, z : y = Pair(u, o) /\ z = Pair(o, u) /\ y # z
    <3>1. u \in Ranked /\ o \in Ranked
      BY <1>14
    <3>. QED
      BY <1>3, <1>14, <3>1
  <2>4. PICK B, C \in Nat : B = 10000 /\ C = 0
    OBVIOUS
  <2>5. IsFiniteSet(T) /\ \A x \in T : v[x] \in Nat
    BY <1>4, <1>6, <2>2
  <2>6. /\ y \in T => v[y] <= B
        /\ z \in T => v[z] <= C
        /\ \A x \in T : x # y /\ x # z => v[x] = 0
    BY <1>5, <2>1, <2>2, <2>3, <2>4
  <2>7. Cardinality(Units(v, T)) <= B + C
    <3>1. y # z
      BY <2>3
    <3>. QED
      BY <2>5, <2>6, <3>1, UnitsAtMost
  <2>. QED
    BY <1>4, <2>1, <2>2, <2>4, <2>7
<1>. QED
  BY <1>10, <1>11, <1>12, <1>13, <1>14

LEMMA OthersOut ==
    ASSUME Ranking, NEW r, NEW a, Star(r, a), NEW v, NEW w,
           Ranked = {r, v, w}, v # r, w # r, v # w
    PROVE  WeightedOut(v) <= 10000
BY StarOut

\* The blast radius of the centre is the unit, that of the others two thirds at most.
LEMMA StarBlast ==
    ASSUME Ranking, Cardinality(Ranked) <= 3, NEW r, NEW a, Star(r, a), NEW u \in Ranked \ {r}
    PROVE  BlastRadius(r) = 10000 /\ BlastRadius(u) <= 6636
<1>1. r \in Ranked /\ a \in Ranked /\ a # r /\ IsFiniteSet(Ranked)
  BY RankedFacts DEF Star
<1>2. PICK n \in Nat \ {0} : n = Cardinality(Ranked) - 1 /\ n <= 2
  <2>1. Cardinality(Ranked) = 2 \/ Cardinality(Ranked) = 3
    BY <1>1, UpToThree
  <2>. QED
    BY <2>1
<1>3. Greatest(1, Cardinality(Ranked) - 1) = n
  <2>1. Greatest(1, n) = n
    BY DEF Greatest
  <2>. QED
    BY <1>2, <2>1
<1>4. PICK W : W = {Unit} \cup {WeightedOut(s) : s \in Ranked}
  OBVIOUS
<1>5. \A s \in Ranked : WeightedOut(s) \in Nat
  BY WeightedOutIs
<1>6. IsFiniteSet(W) /\ W \subseteq Int /\ W # {}
  <2>1. PICK f : f = [s \in Ranked |-> WeightedOut(s)]
    OBVIOUS
  <2>2. \A s \in Ranked : f[s] = WeightedOut(s) /\ f[s] \in Nat
    BY <1>5, <2>1
  <2>3. PICK V : V = {f[s] : s \in Ranked}
    OBVIOUS
  <2>4. IsFiniteSet(V) /\ V \subseteq Int
    BY <2>2, <2>3, RankedValues
  <2>5. IsFiniteSet(V \cup {Unit})
    BY <2>4, FS_AddElement
  <2>6. W = V \cup {Unit}
    BY <1>4, <2>2, <2>3
  <2>. QED
    BY <2>4, <2>5, <2>6, UnitFacts
<1>7. PICK m \in Int : m = Max(W) /\ m \in W /\ \A y \in W : m >= y
  BY <1>6, MaxFacts
<1>8. m \in Nat \ {0} /\ m >= 10000
  BY <1>4, <1>7, UnitFacts
<1>9. PICK x, y \in Nat : x = WeightedOut(r) /\ y = WeightedOut(u)
  BY <1>1, <1>5
<1>10. x >= 10000
  BY <1>9, StarOut
<1>11. \/ Ranked = {r, u} /\ n = 1
       \/ \E o \in Ranked : Ranked = {r, u, o} /\ o # r /\ o # u /\ n = 2
  BY <1>1, <1>2, UpToThree
<1>12. \A s \in Ranked \ {r} : WeightedOut(s) <= 10000
  <2>1. CASE Ranked = {r, u}
    BY <2>1, StarOut
  <2>2. CASE \E o \in Ranked : Ranked = {r, u, o} /\ o # r /\ o # u
    <3>1. PICK o \in Ranked : Ranked = {r, u, o} /\ Ranked = {r, o, u} /\ o # r /\ o # u
      BY <2>2
    <3>2. WeightedOut(o) <= 10000
      BY <3>1, OthersOut
    <3>3. WeightedOut(u) <= 10000
      BY <3>1, OthersOut
    <3>. QED
      BY <3>1, <3>2, <3>3
  <2>. QED
    BY <1>11, <2>1, <2>2
<1>13. m = x
  <2>1. m = Unit \/ \E s \in Ranked : m = WeightedOut(s)
    BY <1>4, <1>7
  <2>2. m >= x
    BY <1>1, <1>4, <1>7, <1>9
  <2>3. m <= 10000 \/ m = x
    BY <1>9, <1>12, <2>1, UnitFacts
  <2>. QED
    BY <1>10, <2>2, <2>3
<1>14. BlastRadius(r) = 10000
  <2>1. Cardinality({Target(e) : e \in Outgoing(r)}) = n
    <3>1. {Target(e) : e \in Outgoing(r)} = Ranked \ {r}
      BY StarOut
    <3>2. Cardinality(Ranked \ {r}) = Cardinality(Ranked) - 1
      BY <1>1, FS_RemoveElement
    <3>. QED
      BY <1>2, <3>1, <3>2
  <2>2. Share(n, n) = 10000 /\ Share(x, m) = 10000
    <3>1. n \in Nat
      OBVIOUS
    <3>. QED
      BY <1>8, <1>13, <3>1, ShareOfWhole
  <2>3. BlastRadius(r) = Least(Unit, (6 * 10000 + 4 * 10000) \div 10)
    BY <1>3, <1>4, <1>7, <1>9, <2>1, <2>2 DEF BlastRadius
  <2>4. (6 * 10000 + 4 * 10000) \div 10 = 10000
    OBVIOUS
  <2>. QED
    BY <2>3, <2>4, UnitFacts DEF Least
<1>15. PICK T : T = {Target(e) : e \in Outgoing(u)}
  OBVIOUS
<1>16. PICK t \in Nat : t = Cardinality(T) /\ (t = 0 \/ (n = 2 /\ t = 1))
  <2>1. CASE Ranked = {r, u}
    <3>1. T = {}
      BY <1>15, <2>1, StarOut
    <3>. QED
      BY <3>1, FS_EmptySet
  <2>2. CASE \E o \in Ranked : Ranked = {r, u, o} /\ o # r /\ o # u /\ n = 2
    <3>1. PICK o \in Ranked : Ranked = {r, u, o} /\ o # r /\ o # u
      BY <2>2
    <3>2. \A e \in Outgoing(u) : Target(e) = o
      BY <3>1, StarOut, PairFacts
    <3>3. T = {} \/ T = {o}
      BY <1>15, <3>2
    <3>4. Cardinality(T) = 0 \/ Cardinality(T) = 1
      BY <3>3, FS_EmptySet, FS_Singleton
    <3>. QED
      BY <2>2, <3>4
  <2>. QED
    BY <1>11, <2>1, <2>2
<1>17. PICK p \in Nat : p = Share(t, n) /\ p <= 5000
  <2>1. CASE t = 0
    <3>1. Share(t, n) = 0
      BY <2>1, ShareOfWhole
    <3>. QED
      BY <3>1
  <2>2. CASE n = 2 /\ t = 1
    <3>1. Share(1, 2) = 5000
      BY DEF Share, Unit
    <3>. QED
      BY <2>2, <3>1
  <2>. QED
    BY <1>16, <2>1, <2>2
<1>18. PICK q \in Nat : q = Share(y, m) /\ q <= 9090
  <2>1. CASE Ranked = {r, u}
    <3>1. y = 0
      BY <1>9, <2>1, StarOut
    <3>2. Share(y, m) = 0
      BY <1>8, <3>1, ShareOfWhole
    <3>. QED
      BY <3>2
  <2>2. CASE \E o \in Ranked : Ranked = {r, u, o} /\ o # r /\ o # u
    <3>1. PICK o \in Ranked : Ranked = {r, u, o} /\ o # r /\ o # u
      BY <2>2
    <3>2. \E w \in Ranked : w \notin {r, a}
      BY <3>1
    <3>3. x >= 11000
      BY <1>9, <3>2, StarOut
    <3>4. y <= 10000
      BY <1>9, <1>12
    <3>5. 10000 * y < (9090 + 1) * m
      BY <1>13, <3>3, <3>4
    <3>6. PICK k \in Nat : k = 9090
      OBVIOUS
    <3>7. 10000 * y < (k + 1) * m
      BY <3>5, <3>6
    <3>8. Share(y, m) <= k
      BY <1>8, <3>7, ShareBounds
    <3>9. Share(y, m) \in Nat
      BY <1>8, ShareIsNat
    <3>. QED
      BY <3>6, <3>8, <3>9
  <2>. QED
    BY <1>11, <2>1, <2>2
<1>19. BlastRadius(u) <= 6636
  <2>1. BlastRadius(u) = Least(Unit, (6 * p + 4 * q) \div 10)
    BY <1>3, <1>4, <1>7, <1>9, <1>15, <1>16, <1>17, <1>18 DEF BlastRadius
  <2>2. PICK z \in Nat : z = (6 * p + 4 * q) \div 10 /\ z <= 6636
    BY <1>17, <1>18
  <2>. QED
    BY <2>1, <2>2, UnitFacts DEF Least
<1>. QED
  BY <1>14, <1>19

\* The first to fail has all of the precedence, a plain one leaves the others three
\* quarters at most.
LEMMA PlainPrecedence ==
    ASSUME Ranking, NEW r \in Ranked, Plain(r), NEW u \in Ranked \ {r}
    PROVE  Precedence(r) = 10000 /\ Precedence(u) <= 7500
<1>1. \A s \in Ranked : /\ Evidence(s).first \in Nat /\ Evidence(s).last \in Nat
                        /\ Evidence(s).first <= Evidence(s).last
  BY RankedFacts, ClusterFacts
<1>2. PICK F, E : F = {Evidence(s).first : s \in Ranked} /\ E = {Evidence(s).last : s \in Ranked}
  OBVIOUS
<1>3. IsFiniteSet(F) /\ F \subseteq Int /\ F # {}
  <2>1. PICK f : f = [s \in Ranked |-> Evidence(s).first]
    OBVIOUS
  <2>2. F = {f[s] : s \in Ranked} /\ \A s \in Ranked : f[s] \in Nat
    BY <1>1, <1>2, <2>1
  <2>. QED
    BY <2>2, RankedValues
<1>4. IsFiniteSet(E) /\ E \subseteq Int /\ E # {}
  <2>1. PICK f : f = [s \in Ranked |-> Evidence(s).last]
    OBVIOUS
  <2>2. E = {f[s] : s \in Ranked} /\ \A s \in Ranked : f[s] \in Nat
    BY <1>1, <1>2, <2>1
  <2>. QED
    BY <2>2, RankedValues
<1>5. PICK b \in Nat : b = Evidence(r).first
  BY <1>1
<1>6. PICK c \in Nat : c = Evidence(u).first
  BY <1>1
<1>7. Min(F) = b
  <2>1. Min(F) \in F /\ \A y \in F : Min(F) <= y
    BY <1>3, MinFacts
  <2>2. \A s \in Ranked : b <= Evidence(s).first
    <3>1. \A s \in Ranked \ {r} : Evidence(r).first < Evidence(s).first
      BY DEF Plain
    <3> SUFFICES ASSUME NEW s \in Ranked PROVE b <= Evidence(s).first
      OBVIOUS
    <3>2. PICK k \in Nat : k = Evidence(s).first
      BY <1>1
    <3>3. CASE s = r
      BY <1>5, <3>3
    <3>4. CASE s # r
      BY <1>5, <3>1, <3>2, <3>4
    <3>. QED
      BY <3>3, <3>4
  <2>3. b \in F /\ \A y \in F : b <= y
    BY <1>2, <1>5, <2>2
  <2>4. Min(F) <= b /\ b <= Min(F) /\ Min(F) \in Int
    BY <1>3, <2>1, <2>3
  <2>. QED
    BY <2>4
<1>8. PICK e \in Int : e = Max(E) /\ \A y \in E : e >= y
  BY <1>4, MaxFacts
<1>9. b < c /\ c <= e /\ 4 * (c - b) >= e - b
  <2>1. Evidence(u).last \in E
    BY <1>2
  <2>2. PICK l \in Nat : l = Evidence(u).last /\ c <= l
    BY <1>1, <1>6
  <2>3. l <= e
    BY <1>8, <2>1, <2>2
  <2>4. b < c /\ 4 * (c - b) >= e - b
    BY <1>2, <1>5, <1>6, <1>8 DEF Plain
  <2>. QED
    BY <2>2, <2>3, <2>4
<1>10. PICK w \in Nat \ {0} : w = e - b /\ Greatest(1, e - b) = w
  BY <1>9 DEF Greatest
<1>11. PICK x \in Nat : x = c - b /\ w <= 4 * x
  BY <1>9, <1>10
<1>12. Precedence(r) = Unit - Share(b - b, w) /\ Precedence(u) = Unit - Share(x, w)
  BY <1>2, <1>5, <1>6, <1>7, <1>8, <1>10, <1>11 DEF Precedence
<1>13. Share(b - b, w) = 0
  <2>1. b - b = 0 /\ 0 \in Nat
    OBVIOUS
  <2>. QED
    BY <2>1, ShareOfWhole
<1>14. 2500 <= Share(x, w) /\ Share(x, w) \in Nat
  <2>1. PICK k \in Nat : k = 2500
    OBVIOUS
  <2>2. k * w <= 10000 * x
    BY <1>11, <2>1
  <2>3. k <= Share(x, w)
    BY <2>2, ShareBounds
  <2>. QED
    BY <2>1, <2>3, ShareIsNat
<1>. QED
  BY <1>12, <1>13, <1>14, UnitFacts

\* Weaker evidence is no more of an anomaly,
LEMMA WeakerAnomaly ==
    ASSUME Ranking, NEW r \in Ranked, NEW u \in Ranked,
           Evidence(r).score >= Evidence(u).score, Evidence(r).signals >= Evidence(u).signals
    PROVE  Anomaly(u) <= Anomaly(r)
<1>1. \A s \in Ranked : Evidence(s).score \in Nat /\ Evidence(s).signals \in Nat
  BY RankedFacts, ClusterFacts
<1>2. PICK f : f = [s \in Ranked |-> Evidence(s).score]
  OBVIOUS
<1>3. {f[s] : s \in Ranked} = {Evidence(s).score : s \in Ranked} /\ \A s \in Ranked : f[s] \in Nat
  BY <1>1, <1>2
<1>4. PICK w \in Nat \ {0} : w = Max({10} \cup {f[s] : s \in Ranked})
  <2>1. \A n \in Nat \ {0} : Max({n} \cup {f[s] : s \in Ranked}) \in Nat \ {0}
    BY <1>3, RankedValues
  <2>2. 10 \in Nat \ {0}
    OBVIOUS
  <2>3. Max({10} \cup {f[s] : s \in Ranked}) \in Nat \ {0}
    BY <2>1, <2>2, Zenon
  <2>. QED
    BY <2>3, Zenon
<1>5. PICK xr, xu \in Nat : /\ xr = Share(Evidence(r).score, w)
                            /\ xu = Share(Evidence(u).score, w) /\ xu <= xr
  <2>1. PICK k, l \in Nat : k = Evidence(r).score /\ l = Evidence(u).score /\ l <= k
    BY <1>1
  <2>. QED
    BY <2>1, ShareIsNat, ShareMonotone
<1>6. PICK yr, yu \in Nat : yr = Diversity(r) /\ yu = Diversity(u) /\ yu <= yr
  <2>1. PICK k, l \in Nat : k = Evidence(r).signals /\ l = Evidence(u).signals /\ l <= k
    BY <1>1
  <2>2. PICK p, q \in Nat : p = Share(k, 3) /\ q = Share(l, 3) /\ q <= p
    BY <2>1, ShareIsNat, ShareMonotone
  <2>3. /\ Least(Unit, p) \in Nat /\ Least(Unit, q) \in Nat
        /\ Least(Unit, q) <= Least(Unit, p)
    BY <2>2, UnitFacts DEF Least
  <2>. QED
    BY <2>1, <2>2, <2>3 DEF Diversity
<1>7. PICK zr, zu \in Nat : /\ zr = (65 * xr + 35 * yr) \div 100
                            /\ zu = (65 * xu + 35 * yu) \div 100 /\ zu <= zr
  BY <1>5, <1>6
<1>8. Anomaly(r) = Least(Unit, zr) /\ Anomaly(u) = Least(Unit, zu)
  BY <1>3, <1>4, <1>5, <1>6, <1>7 DEF Anomaly
<1>. QED
  BY <1>7, <1>8, UnitFacts DEF Least

\* and is punished no less.
LEMMA WeakerPenalty ==
    ASSUME Ranking, NEW r \in Ranked, NEW u \in Ranked,
           Evidence(r).score >= Evidence(u).score, Evidence(r).signals >= Evidence(u).signals,
           Evidence(r).events >= Evidence(u).events,
           Evidence(u).critical => Evidence(r).critical
    PROVE  Penalty(r) <= Penalty(u) /\ Penalty(r) <= 10000
<1>1. \A s \in Ranked : /\ Evidence(s).score \in Nat /\ Evidence(s).signals \in Nat
                        /\ Evidence(s).events \in Nat
  BY RankedFacts, ClusterFacts
<1> DEFINE few(s) == IF Evidence(s).events <= 2 THEN 3500 ELSE 0
           weak(s) == IF Evidence(s).score < 30 THEN 3000 ELSE 0
           single(s) == IF Evidence(s).signals <= 1 THEN 3500 ELSE 0
           minor(s) == IF Evidence(s).critical THEN 0 ELSE 1000
<1>2. \A s : few(s) \in Nat /\ weak(s) \in Nat /\ single(s) \in Nat /\ minor(s) \in Nat
  OBVIOUS
<1>3. few(r) <= few(u) /\ weak(r) <= weak(u) /\ single(r) <= single(u) /\ minor(r) <= minor(u)
  BY <1>1
<1>4. \A s : Penalty(s) = Least(Unit, few(s) + weak(s) + single(s) + minor(s))
  BY DEF Penalty
<1>. HIDE DEF few, weak, single, minor
<1>5. PICK x, y \in Nat : /\ x = few(r) + weak(r) + single(r) + minor(r)
                          /\ y = few(u) + weak(u) + single(u) + minor(u) /\ x <= y
  BY <1>2, <1>3
<1>6. Penalty(r) = Least(Unit, x) /\ Penalty(u) = Least(Unit, y)
  BY <1>4, <1>5
<1>. QED
  BY <1>5, <1>6, UnitFacts DEF Least

\* Put together with the weights: what precedence and blast radius give the root cause is
\* more than what centrality and support can give another.
LEMMA PlainScoresMost ==
    ASSUME Balanced, Ranking, Built, Grouped, BlameInv, Len(evidence) = Cardinality(Ranked),
           Cardinality(Ranked) <= 3, NEW r \in Ranked, Plain(r), NEW u \in Ranked \ {r}
    PROVE  Score(r) > Score(u)
<1>1. PICK a : Star(r, a)
  <2>1. Ranked # {r}
    OBVIOUS
  <2>. QED
    BY <2>1, PlainIsStar
<1>2. PICK pr, pu \in Int : /\ pr = Precedence(r) /\ pu = Precedence(u)
                            /\ pr = 10000 /\ pu <= 7500
  BY PlainPrecedence, PrecedenceFacts
<1>3. PICK cr, cu \in Nat : /\ cr = Centrality(r) /\ cu = Centrality(u)
                            /\ cu <= cr + 7500
  <2>1. PICK k, l \in Nat : k = Centrality(r) /\ l = Centrality(u)
    BY CentralityFacts
  <2>2. PICK p \in Callees : p = <<u, r>>
    BY DEF Plain
  <2>3. 4 * (Centrality(p[1]) - Centrality(p[2])) <= 3 * Unit
    BY DEF Balanced
  <2>4. 4 * (l - k) <= 3 * 10000
    BY <2>1, <2>2, <2>3, UnitFacts
  <2>. QED
    BY <2>1, <2>4
<1>4. PICK sr, su \in Nat : /\ sr = CausalSupport(r) /\ su = CausalSupport(u)
                            /\ sr >= 6875 /\ su <= 10000
  BY <1>1, SupportFacts, StarCausalSupport
<1>5. PICK xr, xu \in Nat : /\ xr = (7 * cr + 3 * sr) \div 10
                            /\ xu = (7 * cu + 3 * su) \div 10 /\ xu <= xr + 6188
  <2>1. PICK p, q \in Nat : p = 7 * cr + 3 * sr /\ q = 7 * cu + 3 * su /\ q <= p + 61875
    <3>1. 7 * cu <= 7 * cr + 52500 /\ 7 * cr \in Nat /\ 7 * cu \in Nat
      BY <1>3
    <3>2. 3 * su <= 30000 /\ 20625 <= 3 * sr /\ 3 * sr \in Nat /\ 3 * su \in Nat
      BY <1>4
    <3>3. PICK i, j, k, l \in Nat : i = 7 * cr /\ j = 7 * cu /\ k = 3 * sr /\ l = 3 * su
      BY <3>1, <3>2
    <3>4. i + k \in Nat /\ j + l \in Nat /\ j + l <= (i + k) + 61875
      BY <3>1, <3>2, <3>3
    <3>. QED
      BY <3>3, <3>4
  <2>2. PICK x, y \in Nat : x = p \div 10 /\ y = q \div 10 /\ y <= x + 6188
    BY <2>1
  <2>. QED
    BY <2>1, <2>2
<1>6. PICK tr, tu \in Nat : /\ tr = Least(Unit, (7 * Centrality(r) + 3 * CausalSupport(r)) \div 10)
                            /\ tu = Least(Unit, (7 * Centrality(u) + 3 * CausalSupport(u)) \div 10)
                            /\ tu <= tr + 6188
  <2>1. PICK k, l \in Nat : k = Least(Unit, xr) /\ l = Least(Unit, xu) /\ l <= k + 6188
    BY <1>5, UnitFacts DEF Least
  <2>2. /\ k = Least(Unit, (7 * Centrality(r) + 3 * CausalSupport(r)) \div 10)
        /\ l = Least(Unit, (7 * Centrality(u) + 3 * CausalSupport(u)) \div 10)
    BY <1>3, <1>4, <1>5, <2>1
  <2>. QED
    BY <2>1, <2>2
<1>7. /\ Evidence(r).score >= Evidence(u).score /\ Evidence(r).signals >= Evidence(u).signals
      /\ Evidence(r).events >= Evidence(u).events
      /\ Evidence(u).critical => Evidence(r).critical
  BY DEF Plain
<1>8. PICK ar, au \in Nat : ar = Anomaly(r) /\ au = Anomaly(u) /\ au <= ar
  BY <1>7, AnomalyFacts, WeakerAnomaly
<1>9. PICK br, bu \in Nat : br = BlastRadius(r) /\ bu = BlastRadius(u) /\ br = 10000 /\ bu <= 6636
  BY <1>1, BlastFacts, StarBlast
<1>10. PICK qr, qu \in Nat : qr = Penalty(r) /\ qu = Penalty(u) /\ qr <= qu /\ qr <= 10000
  BY <1>7, PenaltyFacts, WeakerPenalty
<1>11. PICK vr, vu \in Int : /\ vr = 30 * pr + 20 * tr + 25 * ar + 15 * br - 10 * qr
                             /\ vu = 30 * pu + 20 * tu + 25 * au + 15 * bu - 10 * qu
                             /\ vr >= vu + 100 /\ vr >= 100
  <2>1. 30 * pu <= 225000 /\ 30 * pr = 300000
    BY <1>2
  <2>2. 20 * tu <= 20 * tr + 123760 /\ 0 <= 20 * tr
    BY <1>6
  <2>3. 25 * au <= 25 * ar /\ 0 <= 25 * ar
    BY <1>8
  <2>4. 15 * bu <= 99540 /\ 15 * br = 150000
    BY <1>9
  <2>5. 10 * qr <= 10 * qu /\ 10 * qr <= 100000
    BY <1>10
  <2>. QED
    BY <2>1, <2>2, <2>3, <2>4, <2>5
<1>12. PICK wr, wu \in Int : wr = vr \div 100 /\ wu = vu \div 100 /\ wr > wu /\ wr > 0
  BY <1>11
<1>13. Score(r) = Greatest(0, wr) /\ Score(u) = Greatest(0, wu)
  <2>1. Score(r) = Greatest(0, (30 * pr + 20 * tr + 25 * ar + 15 * br - 10 * qr) \div 100)
    BY <1>2, <1>6, <1>8, <1>9, <1>10 DEF Score
  <2>2. Score(u) = Greatest(0, (30 * pu + 20 * tu + 25 * au + 15 * bu - 10 * qu) \div 100)
    BY <1>2, <1>6, <1>8, <1>9, <1>10 DEF Score
  <2>. QED
    BY <1>11, <1>12, <2>1, <2>2
<1>. QED
  BY <1>12, <1>13 DEF Greatest

-------------------------------------------------------------------------------
(* The plain root cause comes first.                                       *)

\* What Build leaves for Rank, and what Rank makes of it.
RootInv ==
    /\ Grouped
    /\ pc = "rank" => Built
    /\ RootRankedFirst

\* Every step keeps the group and the edges, and the plain root cause first.
LEMMA NextRoot ==
    Balanced /\ TypeOK /\ DiagnosisInv /\ BlameInv /\ RootInv /\ [Next]_vars => RootInv'
<1> SUFFICES ASSUME Balanced, TypeOK, DiagnosisInv, BlameInv, RootInv, [Next]_vars
             PROVE  RootInv'
  OBVIOUS
<1>0. ASSUME evidence' = evidence PROVE Grouped'
  BY <1>0 DEF RootInv, Grouped
<1>1. CASE UNCHANGED vars
  <2>1. /\ pc' = pc /\ evidence' = evidence /\ latest' = latest /\ edges' = edges
        /\ rankings' = rankings
    BY <1>1 DEF vars
  <2>2. Built' <=> Built
    BY <2>1 DEF Built, ProvidedEdges, EvidenceMap, Inferred, Infers, Lag, ServicesOf
  <2>3. RootRankedFirst' <=> RootRankedFirst
    BY <2>1 DEF RootRankedFirst, Plain, Ranked, Evidence
  <2>. QED
    BY <1>0, <2>1, <2>2, <2>3 DEF RootInv
<1>2. CASE Take
  <2>1. rankings' = <<>> /\ pc' = "build"
    BY <1>2 DEF Take, DiagnosisInv
  <2>2. Grouped'
    BY <1>2, TakenIsGrouped
  <2>. QED
    BY <2>1, <2>2 DEF RootInv, RootRankedFirst
<1>3. CASE Build
  <2>1. /\ evidence' = evidence /\ rankings' = <<>> /\ latest' = EvidenceMap
        /\ DOMAIN edges' =
             ProvidedEdges \cup {<<EvidenceMap[p[1]], EvidenceMap[p[2]]>> : p \in Inferred}
        /\ \A e \in ProvidedEdges : edges'[e] = Unit
    BY <1>3 DEF Build, DiagnosisInv
  <2>2. ServicesOf(evidence)' = ServicesOf(evidence) /\ EvidenceMap' = EvidenceMap
    BY <2>1 DEF EvidenceMap, ServicesOf
  <2>3. ProvidedEdges' = ProvidedEdges
    BY <2>1 DEF ProvidedEdges
  <2>4. Inferred' = Inferred
    BY <2>1, <2>2 DEF Inferred, Infers, Lag
  <2>5. Built'
    BY <2>1, <2>2, <2>3, <2>4 DEF Built
  <2>. QED
    BY <1>0, <2>1, <2>5 DEF RootInv, RootRankedFirst
<1>4. CASE Rank
  <2>1. /\ evidence' = evidence /\ latest' = latest /\ edges' = edges /\ pc' = "explain"
        /\ rankings' = SubSeq(RankOrder, 1, Least(TopK, Cardinality(Ranked)))
        /\ Ranking /\ Built /\ Grouped
    BY <1>4 DEF Rank, DiagnosisInv, RootInv
  <2>2. SUFFICES ASSUME rankings' # <<>>, Cardinality(Ranked) <= 3, NEW r \in Ranked, Plain(r),
                        Len(evidence) = Cardinality(Ranked)
                 PROVE  rankings'[1].service = r
    <3>1. Ranked' = Ranked /\ (\A s : Plain(s)' <=> Plain(s))
      BY <2>1 DEF Plain, Ranked, Evidence
    <3>2. RootRankedFirst' <=>
            (rankings' # <<>> /\ Cardinality(Ranked) <= 3 =>
                \A s \in Ranked : Plain(s) /\ Len(evidence) = Cardinality(Ranked)
                    => rankings'[1].service = s)
      BY <2>1, <3>1 DEF RootRankedFirst
    <3>. QED
      BY <1>0, <2>1, <3>2 DEF RootInv
  <2>3. PICK n \in Nat : n = Cardinality(Ranked) /\ n # 0
    BY <2>1, RankedFacts, FS_CardinalityType, FS_EmptySet
  <2>4. PICK k \in Nat : k = Least(TopK, Cardinality(Ranked)) /\ 1 <= k
    BY <2>3, SettingsFacts DEF Least
  <2>5. rankings'[1] = RankOrder[1]
    <3>1. PICK R : R = RankOrder
      OBVIOUS
    <3>2. SubSeq(R, 1, k)[1] = R[1]
      <4>1. PICK S : S = {R[m] : m \in 1 .. k}
        OBVIOUS
      <4>2. \A m \in 1 .. k : R[m] \in S
        BY <4>1
      <4>3. \A m \in 1 .. k - 1 + 1 : SubSeq(R, 1, k)[m] = R[1 + m - 1]
        BY <4>2, SubSeqProperties
      <4>. QED
        BY <2>4, <4>3
    <3>. QED
      BY <2>1, <2>4, <3>1, <3>2
  <2>6. RankOrder[1].service \in Ranked /\ ~ (Score(r) > Score(RankOrder[1].service))
    BY <2>1, <2>3, RankOrderFacts
  <2>7. RankOrder[1].service \in Ranked \ {r} => Score(r) > Score(RankOrder[1].service)
    BY <2>1, <2>2, PlainScoresMost
  <2>. QED
    BY <2>5, <2>6, <2>7
<1>5. CASE Explain
  <2>1. /\ evidence' = evidence /\ latest' = latest /\ rankings' = rankings /\ pc' = "publish"
    BY <1>5 DEF Explain
  <2>2. RootRankedFirst' <=> RootRankedFirst
    BY <2>1 DEF RootRankedFirst, Plain, Ranked, Evidence
  <2>. QED
    BY <1>0, <2>1, <2>2 DEF RootInv
<1>6. CASE Publish
  <2>1. evidence' = <<>> /\ rankings' = <<>> /\ pc' = "idle"
    BY <1>6 DEF Publish
  <2>2. DOMAIN evidence' = {}
    BY <2>1
  <2>. QED
    BY <2>1, <2>2 DEF RootInv, Grouped, RootRankedFirst
<1>. QED
  BY <1>1, <1>2, <1>3, <1>4, <1>5, <1>6 DEF Next

\* RootCauseRanker: the weighted sum of five components names the root cause of an incident
\* of up to three services when the evidence is plain, whatever the clusters are: with any
\* configuration that is balanced, as the one that is shipped is.
THEOREM PlainRootIsFirst == Balanced => (Spec => []RootRankedFirst)
<1> SUFFICES ASSUME Balanced PROVE Spec => []RootRankedFirst
  OBVIOUS
<1>1. Init => BlameInv /\ RootInv
  <2> SUFFICES ASSUME Init PROVE BlameInv /\ RootInv
    OBVIOUS
  <2>1. DOMAIN evidence = {} /\ DOMAIN edges = {}
    BY DEF Init, Empty
  <2>. QED
    BY <2>1 DEF Init, BlameInv, RootInv, Grouped, RootRankedFirst
<1>2. RootInv => RootRankedFirst
  BY DEF RootInv
<1>3. TypeOK /\ DiagnosisInv /\ BlameInv /\ RootInv /\ [Next]_vars => RootInv'
  BY NextRoot
<1>. QED
  BY <1>1, <1>2, <1>3, InitDiagnosis, NextDiagnosis, NextBlame, PTL DEF Spec
===============================================================================
