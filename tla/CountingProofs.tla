--------------------------- MODULE CountingProofs ---------------------------
(***************************************************************************)
(* Facts about Total and about ranks, used by the other proofs.            *)
(***************************************************************************)
EXTENDS Counting, FiniteSetTheorems, WellFoundedInduction, NaturalsInduction, TLAPS

\* Every non-empty set of naturals has a least element.
LEMMA NatMin ==
  ASSUME NEW T \in SUBSET Nat, T # {}
  PROVE  \E x \in T : \A y \in T : x <= y
<1>1. PICK x \in T : \A y \in T : ~ (<<y, x>> \in OpToRel(<, Nat))
  BY WFMin, NatLessThanWellFounded, Zenon
<1>2. ASSUME NEW y \in T PROVE ~ (y < x)
  BY <1>1, Zenon DEF OpToRel
<1>3. ASSUME NEW y \in T PROVE x <= y
  BY <1>2
<1> QED BY <1>3

\* A family of subsets of a finite set that holds {} and is closed under
\* adding one element holds the whole set.
LEMMA FiniteGrowth ==
  ASSUME NEW S, IsFiniteSet(S), NEW F \in SUBSET (SUBSET S),
         {} \in F, \A A \in F : \A x \in S \ A : A \cup {x} \in F
  PROVE  S \in F
<1> DEFINE Rest == {Cardinality(S \ A) : A \in F}
<1>1. \A A \in F : IsFiniteSet(S \ A) /\ Cardinality(S \ A) \in Nat
  BY FS_Difference, FS_CardinalityType, FS_Subset
<1>2. Rest \in SUBSET Nat /\ Rest # {}
  BY <1>1
<1>3. PICK m \in Rest : \A y \in Rest : m <= y
  <2> HIDE DEF Rest
  <2> QED BY <1>2, NatMin
<1>4. PICK A \in F : m = Cardinality(S \ A)
  BY <1>3
<1>5. SUFFICES ASSUME NEW x \in S \ A PROVE FALSE
  BY <1>4
<1>6. A \cup {x} \in F
  BY <1>5
<1>7. S \ (A \cup {x}) = (S \ A) \ {x}
  OBVIOUS
<1>8. Cardinality((S \ A) \ {x}) = Cardinality(S \ A) - 1
  BY <1>1, FS_RemoveElement
<1>9. Cardinality(S \ A) - 1 \in Rest
  BY <1>6, <1>7, <1>8
<1>10. Cardinality(S \ A) \in Nat
  BY <1>1
<1>11. m <= Cardinality(S \ A) - 1
  BY <1>3, <1>9
<1> QED BY <1>4, <1>10, <1>11

\* A column of n units holds n units.
LEMMA ColumnSize ==
  ASSUME NEW i, NEW n \in Nat
  PROVE  /\ IsFiniteSet({i} \X (1..n))
         /\ Cardinality({i} \X (1..n)) = n
<1>1. IsFiniteSet({i}) /\ Cardinality({i}) = 1
  BY FS_Singleton
<1>2. IsFiniteSet(1..n) /\ Cardinality(1..n) = n
  BY FS_Interval
<1>3. Cardinality({i} \X (1..n)) = Cardinality({i}) * Cardinality(1..n)
  BY <1>1, <1>2, FS_Product, Zenon
<1>4. IsFiniteSet({i} \X (1..n))
  BY <1>1, <1>2, FS_Product, Zenon
<1> QED BY <1>1, <1>2, <1>3, <1>4

\* Units of a finite index set are finite, so Total is a natural number.
LEMMA UnitsFinite ==
  ASSUME NEW I, IsFiniteSet(I), NEW c, \A i \in I : c[i] \in Nat
  PROVE  IsFiniteSet(Units(c, I)) /\ Total(c, I) \in Nat
<1>1. ASSUME NEW i \in I PROVE IsFiniteSet({i} \X (1..c[i]))
  BY ColumnSize, Zenon
<1> DEFINE F == {A \in SUBSET I : IsFiniteSet(Units(c, A))}
<1>2. {} \in F
  BY FS_EmptySet DEF Units
<1>3. ASSUME NEW A \in F, NEW x \in I \ A PROVE A \cup {x} \in F
  <2>1. Units(c, A \cup {x}) = Units(c, A) \cup ({x} \X (1..c[x]))
    BY DEF Units
  <2>2. IsFiniteSet(Units(c, A)) /\ IsFiniteSet({x} \X (1..c[x]))
    BY <1>1
  <2>3. IsFiniteSet(Units(c, A) \cup ({x} \X (1..c[x])))
    BY <2>2, FS_Union, Zenon
  <2> QED BY <2>1, <2>3
<1>4. I \in F
  <2> HIDE DEF F
  <2>1. F \in SUBSET (SUBSET I) BY DEF F
  <2> QED BY <1>2, <1>3, <2>1, FiniteGrowth
<1> QED BY <1>4, FS_CardinalityType DEF Total

\* The sum over two disjoint index sets is the sum of the two sums.
LEMMA TotalSplit ==
  ASSUME NEW I, IsFiniteSet(I), NEW c, \A i \in I : c[i] \in Nat,
         NEW A \in SUBSET I
  PROVE  Total(c, I) = Total(c, A) + Total(c, I \ A)
<1>1. IsFiniteSet(A) /\ IsFiniteSet(I \ A)
  BY FS_Subset
<1>2. /\ IsFiniteSet(Units(c, A)) /\ Total(c, A) \in Nat
      /\ IsFiniteSet(Units(c, I \ A)) /\ Total(c, I \ A) \in Nat
  BY <1>1, UnitsFinite
<1>3. Units(c, I) = Units(c, A) \cup Units(c, I \ A)
  BY DEF Units
<1>4. Units(c, A) \cap Units(c, I \ A) = {}
  BY DEF Units
<1>5. Cardinality(Units(c, A) \cap Units(c, I \ A)) = 0
  BY <1>4, FS_EmptySet
<1>6. Total(c, I) = Total(c, A) + Total(c, I \ A) - 0
  BY <1>2, <1>3, <1>5, FS_Union, Zenon DEF Total
<1> QED BY <1>2, <1>6

\* Functions that agree on an index set have the same sum over it.
LEMMA TotalCong ==
  ASSUME NEW I, NEW c, NEW d, \A i \in I : c[i] = d[i]
  PROVE  Total(c, I) = Total(d, I)
BY DEF Total, Units

\* A function that is 0 on an index set has sum 0 over it.
LEMMA TotalZero ==
  ASSUME NEW I, NEW c, \A i \in I : c[i] = 0
  PROVE  Total(c, I) = 0
<1>1. \A i \in I : {i} \X (1..c[i]) = {}
  OBVIOUS
<1>2. Units(c, I) = {}
  BY <1>1 DEF Units
<1> QED BY <1>2, FS_EmptySet DEF Total

\* The sum over one index is the value there.
LEMMA TotalOne ==
  ASSUME NEW i, NEW c, c[i] \in Nat
  PROVE  Total(c, {i}) = c[i]
<1>1. Units(c, {i}) = {i} \X (1..c[i])
  BY DEF Units
<1>2. Cardinality({i} \X (1..c[i])) = c[i]
  BY ColumnSize, Zenon
<1> QED BY <1>1, <1>2, Zenon DEF Total

\* One more at one index adds one to the sum.
LEMMA TotalHit ==
  ASSUME NEW I, IsFiniteSet(I), NEW c, NEW d, NEW j \in I,
         \A i \in I : c[i] \in Nat,
         d[j] = c[j] + 1, \A i \in I \ {j} : d[i] = c[i]
  PROVE  Total(d, I) = Total(c, I) + 1
<1>1. \A i \in I : d[i] \in Nat
  <2>1. ASSUME NEW i \in I PROVE d[i] \in Nat
    <3>1. CASE i = j
      BY <3>1
    <3>2. CASE i # j
      BY <3>2
    <3> QED BY <3>1, <3>2
  <2> QED BY <2>1
<1>2. {j} \in SUBSET I
  OBVIOUS
<1>3. Total(c, I) = Total(c, {j}) + Total(c, I \ {j})
  BY <1>2, TotalSplit
<1>4. Total(d, I) = Total(d, {j}) + Total(d, I \ {j})
  BY <1>1, <1>2, TotalSplit
<1>5. Total(c, {j}) = c[j] /\ Total(d, {j}) = d[j]
  BY <1>1, TotalOne
<1>6. Total(d, I \ {j}) = Total(c, I \ {j})
  BY TotalCong
<1>7. Total(c, I \ {j}) \in Nat
  <2>1. IsFiniteSet(I \ {j})
    BY FS_Subset
  <2> QED BY <2>1, UnitsFinite
<1> QED BY <1>3, <1>4, <1>5, <1>6, <1>7

\* More indices, and more at them, sum up to more.
LEMMA TotalGrows ==
  ASSUME NEW I, IsFiniteSet(I), NEW A \in SUBSET I, NEW c, NEW d,
         \A i \in I : d[i] \in Nat, \A i \in A : c[i] \in Nat /\ c[i] <= d[i]
  PROVE  Total(c, A) <= Total(d, I)
<1>1. Units(c, A) \subseteq Units(d, I)
  <2>1. ASSUME NEW i \in A PROVE {i} \X (1..c[i]) \subseteq {i} \X (1..d[i])
    <3>1. c[i] \in Nat /\ d[i] \in Nat /\ c[i] <= d[i]
      OBVIOUS
    <3>2. 1..c[i] \subseteq 1..d[i]
      BY <3>1
    <3> QED BY <3>2
  <2> QED BY <2>1 DEF Units
<1>2. IsFiniteSet(Units(d, I))
  BY UnitsFinite
<1> QED BY <1>1, <1>2, FS_Subset DEF Total

\* A finite set in parts: the sum of their sizes is its size.
LEMMA TotalOfParts ==
  ASSUME NEW S, IsFiniteSet(S), NEW I, IsFiniteSet(I), NEW f \in [S -> I],
         NEW c, \A i \in I : c[i] = Cardinality({x \in S : f[x] = i})
  PROVE  Total(c, I) = Cardinality(S)
<1> DEFINE part(A, i) == {x \in A : f[x] = i}
           sizes(A) == [i \in I |-> Cardinality(part(A, i))]
           F == {A \in SUBSET S : Total(sizes(A), I) = Cardinality(A)}
<1>1. ASSUME NEW A \in SUBSET S, NEW i \in I
      PROVE  IsFiniteSet(part(A, i)) /\ sizes(A)[i] \in Nat
  <2>1. IsFiniteSet(part(A, i))
    BY FS_Subset
  <2> QED BY <2>1, FS_CardinalityType
<1>2. {} \in F
  <2>1. \A i \in I : part({}, i) = {}
    OBVIOUS
  <2>2. \A i \in I : sizes({})[i] = 0
    BY <2>1, FS_EmptySet
  <2> HIDE DEF sizes
  <2>3. Total(sizes({}), I) = 0
    BY <2>2, TotalZero
  <2> QED BY <2>3, FS_EmptySet
<1>3. ASSUME NEW A \in F, NEW x \in S \ A PROVE A \cup {x} \in F
  <2> DEFINE B == A \cup {x}
             j == f[x]
  <2>1. A \in SUBSET S /\ B \in SUBSET S /\ Total(sizes(A), I) = Cardinality(A) /\ j \in I
    OBVIOUS
  <2>2. IsFiniteSet(A) /\ Cardinality(B) = Cardinality(A) + 1
    BY <2>1, FS_Subset, FS_AddElement
  <2>3. sizes(B)[j] = sizes(A)[j] + 1
    <3>1. part(B, j) = part(A, j) \cup {x} /\ x \notin part(A, j)
      OBVIOUS
    <3>2. Cardinality(part(A, j) \cup {x}) = Cardinality(part(A, j)) + 1
      <4>1. IsFiniteSet(part(A, j))
        BY <1>1, <2>1
      <4> HIDE DEF part
      <4> QED BY <3>1, <4>1, FS_AddElement
    <3> QED BY <2>1, <3>1, <3>2
  <2>4. \A i \in I \ {j} : sizes(B)[i] = sizes(A)[i]
    <3>1. \A i \in I \ {j} : part(B, i) = part(A, i)
      OBVIOUS
    <3> QED BY <3>1
  <2>5. \A i \in I : sizes(A)[i] \in Nat
    BY <1>1, <2>1
  <2> HIDE DEF sizes, j
  <2>6. Total(sizes(B), I) = Total(sizes(A), I) + 1
    BY <2>1, <2>3, <2>4, <2>5, TotalHit
  <2> QED BY <2>1, <2>2, <2>6
<1>4. S \in F
  <2> HIDE DEF F
  <2>1. F \in SUBSET (SUBSET S) BY DEF F
  <2> QED BY <1>2, <1>3, <2>1, FiniteGrowth
<1>5. Total(sizes(S), I) = Cardinality(S)
  BY <1>4
<1>6. \A i \in I : c[i] = sizes(S)[i]
  OBVIOUS
<1> HIDE DEF sizes
<1> QED BY <1>5, <1>6, TotalCong

\* A finite set has a positive size unless it is empty.
LEMMA PositiveSize ==
  ASSUME NEW S, IsFiniteSet(S)
  PROVE  Cardinality(S) \in Nat /\ (Cardinality(S) > 0 <=> S # {})
BY FS_CardinalityType, FS_EmptySet

\* The rank of an element in a strict linear order R is its place.
LEMMA RankIsPlace ==
  ASSUME NEW items, IsFiniteSet(items), NEW R,
         \A q \in items : <<q, q>> \notin R,
         \A q, r, s \in items : <<q, r>> \in R /\ <<r, s>> \in R => <<q, s>> \in R,
         \A q, r \in items : q = r \/ <<q, r>> \in R \/ <<r, q>> \in R,
         NEW rank \in [items -> Int],
         \A q \in items : rank[q] = 1 + Cardinality({r \in items : <<r, q>> \in R})
  PROVE  /\ rank \in [items -> 1..Cardinality(items)]
         /\ \A q, r \in items : <<q, r>> \in R <=> rank[q] < rank[r]
         /\ \A n \in 1..Cardinality(items) : \E q \in items : rank[q] = n
<1> DEFINE before(q) == {r \in items : <<r, q>> \in R}
<1>6. \A q \in items : /\ before(q) \in SUBSET (items \ {q})
                       /\ IsFiniteSet(before(q)) /\ Cardinality(before(q)) \in Nat
  BY FS_Subset, FS_CardinalityType
<1>7. ASSUME NEW q \in items PROVE rank[q] \in 1..Cardinality(items)
  <2>1. IsFiniteSet(items \ {q}) /\ Cardinality(items \ {q}) = Cardinality(items) - 1
    BY FS_RemoveElement
  <2>2. Cardinality(before(q)) <= Cardinality(items \ {q})
    BY <1>6, <2>1, FS_Subset
  <2>3. rank[q] = 1 + Cardinality(before(q)) /\ Cardinality(items) \in Nat
    BY FS_CardinalityType
  <2> HIDE DEF before
  <2> QED BY <1>6, <2>1, <2>2, <2>3
<1>8. ASSUME NEW q \in items, NEW r \in items, <<q, r>> \in R PROVE rank[q] < rank[r]
  <2>1. before(q) \cup {q} \subseteq before(r)
    BY <1>8
  <2>2. q \notin before(q)
    OBVIOUS
  <2>3. rank[q] = 1 + Cardinality(before(q)) /\ rank[r] = 1 + Cardinality(before(r))
    OBVIOUS
  <2> HIDE DEF before
  <2>4. IsFiniteSet(before(q) \cup {q}) /\ Cardinality(before(q) \cup {q}) = Cardinality(before(q)) + 1
    BY <1>6, <2>2, FS_AddElement
  <2>5. Cardinality(before(q) \cup {q}) <= Cardinality(before(r))
    BY <1>6, <2>1, <2>4, FS_Subset
  <2> QED BY <1>6, <2>3, <2>4, <2>5
<1>9. rank \in [items -> 1..Cardinality(items)]
  BY <1>7
<1>10. \A q \in items : rank[q] \in Int
  BY <1>7
<1>5. \A q, r \in items : q # r => <<q, r>> \in R \/ <<r, q>> \in R
  OBVIOUS
<1> HIDE DEF before
<1>11. ASSUME NEW q \in items, NEW r \in items
       PROVE  /\ <<q, r>> \in R <=> rank[q] < rank[r]
              /\ rank[q] = rank[r] => q = r
  <2>1. (<<q, r>> \in R => rank[q] < rank[r]) /\ (<<r, q>> \in R => rank[r] < rank[q])
    BY <1>8
  <2>2. rank[q] \in Int /\ rank[r] \in Int
    BY <1>10
  <2>3. q # r => <<q, r>> \in R \/ <<r, q>> \in R
    BY <1>5
  <2> QED BY <2>1, <2>2, <2>3
<1>12. \A n \in 1..Cardinality(items) : \E q \in items : rank[q] = n
  <2>1. IsInjective(rank)
    BY <1>9, <1>11 DEF IsInjective
  <2>2. Cardinality(items) \in Nat
    BY FS_CardinalityType
  <2>3. IsFiniteSet(1..Cardinality(items)) /\ Cardinality(1..Cardinality(items)) = Cardinality(items)
    BY <2>2, FS_Interval
  <2>4. rank \in Injection(items, 1..Cardinality(items))
    BY <1>9, <2>1 DEF Injection
  <2>5. rank \in Surjection(items, 1..Cardinality(items))
    BY <2>3, <2>4, FS_Injection, FS_Surjection
  <2> QED BY <2>5 DEF Surjection
<1> QED BY <1>9, <1>11, <1>12

\* Another value at one index changes the sum by the difference.
LEMMA TotalReplaced ==
  ASSUME NEW I, IsFiniteSet(I), NEW c, NEW d, NEW j \in I,
         \A i \in I : c[i] \in Nat /\ d[i] \in Nat, \A i \in I \ {j} : d[i] = c[i]
  PROVE  /\ Total(c, I) \in Nat /\ Total(d, I) \in Nat
         /\ Total(d, I) + c[j] = Total(c, I) + d[j]
<1>1. {j} \in SUBSET I /\ IsFiniteSet(I \ {j})
  BY FS_Subset
<1>2. /\ Total(c, I) = Total(c, {j}) + Total(c, I \ {j})
      /\ Total(d, I) = Total(d, {j}) + Total(d, I \ {j})
  BY <1>1, TotalSplit
<1>3. Total(c, {j}) = c[j] /\ Total(d, {j}) = d[j]
  BY TotalOne
<1>4. Total(d, I \ {j}) = Total(c, I \ {j})
  BY TotalCong
<1>5. Total(c, I \ {j}) \in Nat /\ Total(c, I) \in Nat /\ Total(d, I) \in Nat
  BY <1>1, UnitsFinite
<1> QED BY <1>2, <1>3, <1>4, <1>5

\* A sum does not depend on the names of its indices.
LEMMA TotalRenamed ==
  ASSUME NEW I, IsFiniteSet(I), NEW J, NEW f \in Bijection(I, J), NEW c, NEW d,
         \A i \in I : c[i] \in Nat, \A i \in I : d[f[i]] = c[i]
  PROVE  Total(d, J) = Total(c, I)
<1> DEFINE image(A) == {f[i] : i \in A}
           F == {A \in SUBSET I : Total(d, image(A)) = Total(c, A)}
<1>1. f \in [I -> J] /\ image(I) = J /\ \A i, k \in I : f[i] = f[k] => i = k
  BY DEF Bijection, Injection, Surjection, IsInjective
<1>2. {} \in F
  <2>1. image({}) = {}
    OBVIOUS
  <2>2. Total(d, {}) = 0 /\ Total(c, {}) = 0
    BY TotalZero
  <2> QED BY <2>1, <2>2
<1>3. ASSUME NEW A \in F, NEW x \in I \ A PROVE A \cup {x} \in F
  <2> DEFINE B == A \cup {x}
  <2>1. A \in SUBSET I /\ B \in SUBSET I /\ Total(d, image(A)) = Total(c, A)
    OBVIOUS
  <2>2. IsFiniteSet(A) /\ IsFiniteSet(B) /\ IsFiniteSet(I)
    BY <2>1, FS_Subset
  <2>3. \A i \in B : c[i] \in Nat
    BY <2>1
  <2>4. Total(c, B) = Total(c, A) + c[x]
    <3>1. A \in SUBSET B /\ B \ A = {x}
      OBVIOUS
    <3>2. Total(c, B) = Total(c, A) + Total(c, {x})
      BY <2>2, <2>3, <3>1, TotalSplit
    <3> QED BY <2>3, <3>2, TotalOne
  <2>5. Total(d, image(B)) = Total(d, image(A)) + d[f[x]]
    <3>1. image(A) \in SUBSET image(B) /\ image(B) \ image(A) = {f[x]}
      BY <1>1, <2>1
    <3>2. \A j \in image(B) : d[j] \in Nat
      BY <2>1
    <3>3. IsFiniteSet(image(B))
      <4> DEFINE g == [i \in B |-> f[i]]
      <4>1. g \in Surjection(B, image(B))
        BY DEF Surjection
      <4> HIDE DEF image, g
      <4> QED BY <2>2, <4>1, FS_Surjection
    <3>4. d[f[x]] \in Nat
      OBVIOUS
    <3> HIDE DEF image, B
    <3>5. Total(d, image(B)) = Total(d, image(A)) + Total(d, {f[x]})
      BY <3>1, <3>2, <3>3, TotalSplit
    <3> QED BY <3>4, <3>5, TotalOne
  <2> QED BY <2>1, <2>4, <2>5
<1>4. I \in F
  <2> HIDE DEF F
  <2>1. F \in SUBSET (SUBSET I) BY DEF F
  <2> QED BY <1>2, <1>3, <2>1, FiniteGrowth
<1> QED BY <1>1, <1>4
=============================================================================
