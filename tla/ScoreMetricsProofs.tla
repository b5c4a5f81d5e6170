------------------------- MODULE ScoreMetricsProofs -------------------------
(***************************************************************************)
(* What the metrics compute, for samples of any size: sums of counts are   *)
(* counts, and the rank statistics are the counts of pairs and rows they   *)
(* are defined by.                                                         *)
(***************************************************************************)
EXTENDS ScoreMetrics, TLAPS, FiniteSetTheorems, WellFoundedInduction

-----------------------------------------------------------------------------
(* Finite sets.                                                             *)

\* Among finite sets that are not empty together one is smallest.
LEMMA SmallestSet ==
  ASSUME NEW C, C # {}, \A T \in C : IsFiniteSet(T)
  PROVE  \E T \in C : \A U \in C : Cardinality(T) <= Cardinality(U)
<1> DEFINE N == {Cardinality(T) : T \in C}
<1>1. N \subseteq Nat /\ N # {}
  BY FS_CardinalityType
<1>2. PICK m \in N : \A x \in N : ~(<<x, m>> \in OpToRel(<, Nat))
  BY <1>1, NatLessThanWellFounded, WFMin
<1>3. PICK T \in C : m = Cardinality(T)
  BY <1>2
<1>4. ASSUME NEW U \in C PROVE Cardinality(T) <= Cardinality(U)
  <2>1. Cardinality(U) \in N /\ Cardinality(U) \in Nat /\ m \in Nat
    BY <1>1, <1>2
  <2>2. ~(Cardinality(U) < m)
    BY <1>2, <2>1 DEF OpToRel
  <2> QED
    BY <1>3, <2>1, <2>2
<1> QED
  BY <1>4

\* A finite set of integers that is not empty has a greatest element.
LEMMA GreatestElement ==
  ASSUME NEW S \in SUBSET Int, IsFiniteSet(S), S # {}
  PROVE  \E x \in S : \A y \in S : x >= y
<1> DEFINE Above(x) == {y \in S : y > x}
<1> DEFINE C == {Above(x) : x \in S}
<1>1. C # {} /\ \A T \in C : IsFiniteSet(T)
  <2>1. \A x \in S : Above(x) \in SUBSET S
    OBVIOUS
  <2>2. \A x \in S : IsFiniteSet(Above(x))
    BY <2>1, FS_Subset, Zenon
  <2> QED
    BY <2>2
<1>2. PICK T \in C : \A U \in C : Cardinality(T) <= Cardinality(U)
  BY <1>1, SmallestSet
<1>3. PICK x \in S : T = Above(x)
  BY <1>2
<1>4. ASSUME NEW y \in S, y > x PROVE FALSE
  <2>1. Above(y) \subseteq Above(x) /\ y \in Above(x) /\ y \notin Above(y)
    <3>1. \A z \in S : z > y => z > x
      BY <1>4
    <3>2. ~(y > y)
      BY <1>4
    <3> QED
      BY <1>4, <3>1, <3>2
  <2>2. Cardinality(Above(x)) <= Cardinality(Above(y))
    <3>1. Above(y) \in C
      BY <1>4
    <3> HIDE DEF C
    <3> QED
      BY <1>2, <1>3, <3>1
  <2>3. IsFiniteSet(Above(x)) /\ IsFiniteSet(Above(y))
    BY <1>1
  <2>4. Cardinality(Above(y)) <= Cardinality(Above(x)) /\ Cardinality(Above(x)) # Cardinality(Above(y))
    BY <2>1, <2>3, FS_Subset
  <2>5. Cardinality(Above(x)) \in Nat /\ Cardinality(Above(y)) \in Nat
    BY <2>3, FS_CardinalityType
  <2> QED
    BY <2>2, <2>4, <2>5
<1> QED
  BY <1>3, <1>4

\* Max is what it is called.
LEMMA MaxIsGreatest ==
  ASSUME NEW S \in SUBSET Int, IsFiniteSet(S), S # {}
  PROVE  Max(S) \in S /\ \A y \in S : Max(S) >= y
BY GreatestElement DEF Max

\* What a function makes of a finite set is finite.
LEMMA ImageIsFinite ==
  ASSUME NEW S, IsFiniteSet(S), NEW f
  PROVE  IsFiniteSet({f[x] : x \in S})
<1> DEFINE T == {f[x] : x \in S}
<1> DEFINE g == [x \in S |-> f[x]]
<1>1. g \in Surjection(S, T)
  BY DEF Surjection
<1> QED
  BY <1>1, FS_Surjection

\* The parts of a finite set that a condition makes.
LEMMA PartsOfSet ==
  ASSUME NEW S, IsFiniteSet(S), NEW T \in SUBSET S, NEW U \in SUBSET S,
         T \cup U = S, T \cap U = {}
  PROVE  /\ Cardinality(S) = Cardinality(T) + Cardinality(U)
         /\ Cardinality(S) \in Nat /\ Cardinality(T) \in Nat /\ Cardinality(U) \in Nat
<1>1. IsFiniteSet(T) /\ IsFiniteSet(U)
  BY FS_Subset
<1>2. Cardinality(T \cup U) = Cardinality(T) + Cardinality(U) - Cardinality(T \cap U)
  BY <1>1, FS_Union
<1>3. Cardinality(T \cap U) = 0
  BY FS_EmptySet
<1>4. Cardinality(S) \in Nat /\ Cardinality(T) \in Nat /\ Cardinality(U) \in Nat
  BY <1>1, FS_CardinalityType
<1>5. Cardinality(T \cup U) = Cardinality(S)
  BY Zenon
<1> QED
  BY <1>2, <1>3, <1>4, <1>5

-----------------------------------------------------------------------------
(* Sums.                                                                    *)

\* A sum is known when a value is known for every subset of its indices that
\* grows by the summand of each index.
LEMMA SumIs ==
  ASSUME NEW c, NEW g, IsFiniteSet(DOMAIN c), g[{}] = 0,
         \A T \in SUBSET DOMAIN c : \A x \in T : g[T] = c[x] + g[T \ {x}]
  PROVE  SumFunction(c) = g[DOMAIN c]
<1> DEFINE S == DOMAIN c
<1> DEFINE F(h, s) == IF s = {} THEN 0 ELSE LET x == CHOOSE x \in s : TRUE IN c[x] + h[s \ {x}]
<1> DEFINE iter == CHOOSE h : h = [s \in SUBSET S |-> F(h, s)]
<1> DEFINE G == [T \in SUBSET S |-> g[T]]
<1>1. SumFunction(c) = iter[S]
  BY DEF SumFunction, SumFunctionOnSet, FoldFunctionOnSet, MapThenFoldSet
<1>2. G = [s \in SUBSET S |-> F(G, s)]
  <2>1. ASSUME NEW s \in SUBSET S PROVE g[s] = F(G, s)
    <3>1. CASE s = {}
      BY <3>1
    <3>2. CASE s # {}
      <4>1. (CHOOSE x \in s : TRUE) \in s
        BY <3>2
      <4> QED
        BY <3>2, <4>1
    <3> QED
      BY <3>1, <3>2
  <2> QED
    BY <2>1
<1>3. iter = [s \in SUBSET S |-> F(iter, s)]
  BY <1>2
<1> HIDE DEF iter
<1> DEFINE Bads == {T \in SUBSET S : iter[T] # g[T]}
<1>4. Bads = {}
  <2> SUFFICES ASSUME Bads # {} PROVE FALSE
    OBVIOUS
  <2>1. \A T \in Bads : IsFiniteSet(T)
    BY FS_Subset
  <2>2. PICK T \in Bads : \A U \in Bads : Cardinality(T) <= Cardinality(U)
    BY <2>1, SmallestSet
  <2>3. T # {}
    <3>1. iter[{}] = F(iter, {})
      BY <1>3
    <3> QED
      BY <3>1, <2>2
  <2> DEFINE x == CHOOSE x \in T : TRUE
  <2>4. x \in T
    BY <2>3
  <2>5. iter[T] = c[x] + iter[T \ {x}]
    BY <1>3, <2>2, <2>3
  <2> HIDE DEF x
  <2>6. T \ {x} \notin Bads
    <3>1. Cardinality(T \ {x}) = Cardinality(T) - 1 /\ Cardinality(T) \in Nat
      BY <2>1, <2>2, <2>4, FS_RemoveElement, FS_CardinalityType
    <3>2. ~(Cardinality(T) <= Cardinality(T \ {x}))
      BY <3>1
    <3> QED
      BY <2>2, <3>2
  <2>7. iter[T \ {x}] = g[T \ {x}]
    BY <2>2, <2>6
  <2> QED
    BY <2>2, <2>4, <2>5, <2>7
<1> QED
  BY <1>1, <1>4

\* Sets between which there is a one-to-one map have the same size.
LEMMA OneToOne ==
  ASSUME NEW S, IsFiniteSet(S), NEW T, NEW f \in [S -> T],
         \A x, y \in S : f[x] = f[y] => x = y,
         \A t \in T : \E x \in S : f[x] = t
  PROVE  IsFiniteSet(T) /\ Cardinality(T) = Cardinality(S)
<1>1. f \in Bijection(S, T)
  BY DEF Bijection, Injection, Surjection, IsInjective
<1> QED
  BY <1>1, FS_Bijection DEF ExistsBijection

\* A set is as large as its groups together.
LEMMA CountsAddUp ==
  ASSUME NEW K, IsFiniteSet(K), NEW B, IsFiniteSet(B), NEW group, NEW c,
         c = [b \in B |-> Cardinality({k \in K : group[k] = b})]
  PROVE  SumFunction(c) = Cardinality({k \in K : group[k] \in B})
<1> DEFINE In(T) == {k \in K : group[k] \in T}
<1> DEFINE g == [T \in SUBSET B |-> Cardinality(In(T))]
<1>1. g[{}] = 0
  <2>1. In({}) = {}
    OBVIOUS
  <2> QED
    BY <2>1, FS_EmptySet, Zenon
<1>2. ASSUME NEW T \in SUBSET B, NEW x \in T PROVE g[T] = c[x] + g[T \ {x}]
  <2> DEFINE Of == {k \in K : group[k] = x}
  <2>1. IsFiniteSet(In(T))
    BY FS_Subset
  <2>2. Of \in SUBSET In(T) /\ In(T \ {x}) \in SUBSET In(T)
    OBVIOUS
  <2>3. Of \cup In(T \ {x}) = In(T) /\ Of \cap In(T \ {x}) = {}
    OBVIOUS
  <2>4. /\ Cardinality(In(T)) = Cardinality(Of) + Cardinality(In(T \ {x}))
        /\ Cardinality(In(T)) \in Nat /\ Cardinality(Of) \in Nat
           /\ Cardinality(In(T \ {x})) \in Nat
    BY <2>1, <2>2, <2>3, PartsOfSet, Zenon
  <2> QED
    BY <2>4
<1>3. DOMAIN c = B
  OBVIOUS
<1>4. SumFunction(c) = g[DOMAIN c]
  <2> HIDE DEF g
  <2> QED
    BY <1>1, <1>2, <1>3, SumIs
<1> QED
  BY <1>3, <1>4

\* The pairs of a relation that start in T, and the partners of x in it.
From(R, T) == {q \in R : q[1] \in T}
Partners(R, D, x) == {i \in D : <<x, i>> \in R}

\* The pairs of a relation, added up by their first elements.
LEMMA PairsAddUp ==
  ASSUME NEW K, NEW D, IsFiniteSet(K), IsFiniteSet(D), NEW R \in SUBSET (K \X D),
         NEW T \in SUBSET K, NEW x \in T
  PROVE  /\ Cardinality(From(R, T))
              = Cardinality(Partners(R, D, x)) + Cardinality(From(R, T \ {x}))
         /\ Cardinality(From(R, T)) \in Nat
         /\ Cardinality(Partners(R, D, x)) \in Nat
         /\ Cardinality(From(R, T \ {x})) \in Nat
<1> DEFINE In(U) == {q \in R : q[1] \in U}
<1> DEFINE Of == {q \in R : q[1] = x}
<1> DEFINE Row == {i \in D : <<x, i>> \in R}
<1> DEFINE f == [i \in Row |-> <<x, i>>]
<1>1. IsFiniteSet(In(T))
  <2>1. IsFiniteSet(K \X D)
    BY FS_Product
  <2>2. IsFiniteSet(R)
    BY <2>1, FS_Subset
  <2>3. In(T) \in SUBSET R
    OBVIOUS
  <2> QED
    BY <2>2, <2>3, FS_Subset, Zenon
<1>2. Of \in SUBSET In(T) /\ In(T \ {x}) \in SUBSET In(T)
  OBVIOUS
<1>3. Of \cup In(T \ {x}) = In(T) /\ Of \cap In(T \ {x}) = {}
  OBVIOUS
<1>4. /\ Cardinality(In(T)) = Cardinality(Of) + Cardinality(In(T \ {x}))
      /\ Cardinality(In(T)) \in Nat /\ Cardinality(Of) \in Nat /\ Cardinality(In(T \ {x})) \in Nat
  BY <1>1, <1>2, <1>3, PartsOfSet, Zenon
<1>5. Cardinality(Of) = Cardinality(Row)
  <2>1. IsFiniteSet(Row)
    BY FS_Subset
  <2>2. f \in [Row -> Of] /\ \A i, j \in Row : f[i] = f[j] => i = j
    OBVIOUS
  <2>3. ASSUME NEW q \in Of PROVE \E i \in Row : f[i] = q
    <3>1. q = <<x, q[2]>> /\ q[2] \in D
      OBVIOUS
    <3>2. q[2] \in Row
      BY <3>1
    <3> QED
      BY <3>1, <3>2
  <2> HIDE DEF f, Row, Of
  <2> QED
    BY <2>1, <2>2, <2>3, OneToOne
<1>6. In(T) = From(R, T) /\ In(T \ {x}) = From(R, T \ {x}) /\ Row = Partners(R, D, x)
  BY DEF From, Partners
<1> HIDE DEF In, Of, Row
<1> QED
  BY <1>4, <1>5, <1>6

-----------------------------------------------------------------------------
(* Samples.                                                                 *)

\* The rows of a sample are bad or good.
LEMMA SampleFacts ==
  ASSUME NEW s, IsSample(s)
  PROVE  /\ Bad(s) \cup Good(s) = DOMAIN s /\ Bad(s) \cap Good(s) = {}
         /\ IsFiniteSet(DOMAIN s) /\ IsFiniteSet(Bad(s)) /\ IsFiniteSet(Good(s))
         /\ \A k \in DOMAIN s : s[k].y \in {0, 1} /\ s[k].p \in Nat
         /\ Size(s) = Cardinality(Bad(s)) + Cardinality(Good(s))
         /\ Size(s) \in Nat /\ Cardinality(Bad(s)) \in Nat /\ Cardinality(Good(s)) \in Nat
<1>1. \A k \in DOMAIN s : s[k].y \in {0, 1} /\ s[k].p \in Nat
  BY MetricAssumption DEF IsSample
<1>2. Bad(s) \cup Good(s) = DOMAIN s /\ Bad(s) \cap Good(s) = {}
  BY <1>1 DEF Bad, Good
<1>3. IsFiniteSet(DOMAIN s)
  BY DEF IsSample
<1>4. Bad(s) \in SUBSET DOMAIN s /\ Good(s) \in SUBSET DOMAIN s
  BY DEF Bad, Good
<1>5. IsFiniteSet(Bad(s)) /\ IsFiniteSet(Good(s))
  BY <1>3, <1>4, FS_Subset
<1>6. /\ Cardinality(DOMAIN s) = Cardinality(Bad(s)) + Cardinality(Good(s))
      /\ Cardinality(DOMAIN s) \in Nat /\ Cardinality(Bad(s)) \in Nat
         /\ Cardinality(Good(s)) \in Nat
  BY <1>2, <1>3, <1>4, PartsOfSet, Zenon
<1> QED
  BY <1>1, <1>2, <1>3, <1>5, <1>6 DEF Size

\* Pairs of a bad and a good row, those the scores order, and the ties.
Pairs(s)      == Bad(s) \X Good(s)
Concordant(s) == {q \in Pairs(s) : s[q[1]].p > s[q[2]].p}
Tied(s)       == {q \in Pairs(s) : s[q[1]].p = s[q[2]].p}

\* The pairs are counted by the product.
LEMMA PairsFacts ==
  ASSUME NEW s, IsSample(s)
  PROVE  /\ IsFiniteSet(Pairs(s)) /\ IsFiniteSet(Concordant(s)) /\ IsFiniteSet(Tied(s))
         /\ Cardinality(Pairs(s)) = Cardinality(Bad(s)) * Cardinality(Good(s))
         /\ Cardinality(Concordant(s)) \in Nat /\ Cardinality(Tied(s)) \in Nat
<1>1. IsFiniteSet(Bad(s)) /\ IsFiniteSet(Good(s))
  BY SampleFacts
<1>2. IsFiniteSet(Pairs(s)) /\ Cardinality(Pairs(s)) = Cardinality(Bad(s)) * Cardinality(Good(s))
  BY <1>1, FS_Product DEF Pairs
<1>3. Concordant(s) \in SUBSET Pairs(s) /\ Tied(s) \in SUBSET Pairs(s)
  BY DEF Concordant, Tied
<1>4. IsFiniteSet(Concordant(s)) /\ IsFiniteSet(Tied(s))
  BY <1>2, <1>3, FS_Subset
<1> QED
  BY <1>2, <1>4, FS_CardinalityType

\* The sum of the ranks of the bad rows, as pairs with rows that score lower
\* and with rows that do not score higher.
LEMMA RankSum ==
  ASSUME NEW s, IsSample(s)
  PROVE  LET L == {q \in Bad(s) \X DOMAIN s : s[q[2]].p < s[q[1]].p}
             E == {q \in Bad(s) \X DOMAIN s : s[q[2]].p <= s[q[1]].p}
         IN  SumFunction([k \in Bad(s) |-> AverageRank(s, k)])
               = Cardinality(L) + Cardinality(E) + Cardinality(Bad(s))
<1> DEFINE B == Bad(s)
<1> DEFINE D == DOMAIN s
<1> DEFINE L == {q \in B \X D : s[q[2]].p < s[q[1]].p}
<1> DEFINE E == {q \in B \X D : s[q[2]].p <= s[q[1]].p}
<1> DEFINE g == [T \in SUBSET B |-> Cardinality(From(L, T)) + Cardinality(From(E, T)) + Cardinality(T)]
<1> DEFINE c == [k \in B |-> AverageRank(s, k)]
<1>1. IsFiniteSet(B) /\ IsFiniteSet(D) /\ B \subseteq D
  BY SampleFacts DEF Bad
<1>2. \A k \in B : c[k] = Cardinality(Partners(L, D, k)) + Cardinality(Partners(E, D, k)) + 1
  <2> TAKE k \in B
  <2>1. Partners(L, D, k) = {i \in D : s[i].p < s[k].p}
    BY DEF Partners
  <2>2. Partners(E, D, k) = {i \in D : s[i].p <= s[k].p}
    BY DEF Partners
  <2>3. c[k] = Cardinality({i \in D : s[i].p < s[k].p}) + Cardinality({i \in D : s[i].p <= s[k].p}) + 1
    BY DEF AverageRank
  <2> HIDE DEF c, L, E, D
  <2> QED
    BY <2>1, <2>2, <2>3
<1>3. g[{}] = 0
  <2>1. From(L, {}) = {} /\ From(E, {}) = {}
    BY DEF From
  <2>2. Cardinality(From(L, {})) = 0 /\ Cardinality(From(E, {})) = 0 /\ Cardinality({}) = 0
    BY <2>1, FS_EmptySet, Zenon
  <2> QED
    BY <2>2
<1>4. ASSUME NEW T \in SUBSET B, NEW x \in T PROVE g[T] = c[x] + g[T \ {x}]
  <2>1. L \in SUBSET (B \X D) /\ E \in SUBSET (B \X D)
    OBVIOUS
  <2> HIDE DEF L, E, B, D
  <2>2. ASSUME NEW R \in SUBSET (B \X D)
        PROVE  /\ Cardinality(From(R, T)) = Cardinality(Partners(R, D, x)) + Cardinality(From(R, T \ {x}))
               /\ Cardinality(From(R, T)) \in Nat
               /\ Cardinality(Partners(R, D, x)) \in Nat
               /\ Cardinality(From(R, T \ {x})) \in Nat
    BY <1>1, PairsAddUp
  <2>3. /\ Cardinality(From(L, T)) = Cardinality(Partners(L, D, x)) + Cardinality(From(L, T \ {x}))
        /\ Cardinality(From(L, T)) \in Nat /\ Cardinality(Partners(L, D, x)) \in Nat
        /\ Cardinality(From(L, T \ {x})) \in Nat
        /\ Cardinality(From(E, T)) = Cardinality(Partners(E, D, x)) + Cardinality(From(E, T \ {x}))
        /\ Cardinality(From(E, T)) \in Nat /\ Cardinality(Partners(E, D, x)) \in Nat
        /\ Cardinality(From(E, T \ {x})) \in Nat
    BY <2>1, <2>2
  <2>4. Cardinality(T) = 1 + Cardinality(T \ {x}) /\ Cardinality(T \ {x}) \in Nat
    <3>1. IsFiniteSet(T)
      BY <1>1, FS_Subset
    <3>2. Cardinality(T) \in Nat /\ IsFiniteSet(T \ {x}) /\ Cardinality(T \ {x}) = Cardinality(T) - 1
      BY <3>1, FS_CardinalityType, FS_RemoveElement
    <3> QED
      BY <3>2, FS_CardinalityType
  <2>5. c[x] = Cardinality(Partners(L, D, x)) + Cardinality(Partners(E, D, x)) + 1
    BY <1>2
  <2>6. /\ g[T] = Cardinality(From(L, T)) + Cardinality(From(E, T)) + Cardinality(T)
        /\ g[T \ {x}] = Cardinality(From(L, T \ {x})) + Cardinality(From(E, T \ {x})) + Cardinality(T \ {x})
    OBVIOUS
  <2> HIDE DEF g, c
  <2> QED
    BY <2>3, <2>4, <2>5, <2>6
<1>5. DOMAIN c = B
  OBVIOUS
<1>6. SumFunction(c) = g[B]
  <2> HIDE DEF g, c
  <2> QED
    BY <1>1, <1>3, <1>4, <1>5, SumIs
<1>7. From(L, B) = L /\ From(E, B) = E
  BY DEF From
<1>8. g[B] = Cardinality(From(L, B)) + Cardinality(From(E, B)) + Cardinality(B)
  OBVIOUS
<1> HIDE DEF g, L, E, B
<1>9. g[B] = Cardinality(L) + Cardinality(E) + Cardinality(B)
  BY <1>7, <1>8
<1> QED
  BY <1>6, <1>9 DEF L, E, B

\* The AUC by rank sums is the AUC by pairs, a tie counting half.
LEMMA AucIsPairs ==
  ASSUME NEW s, IsSample(s), ~OneClass(s)
  PROVE  RocAuc(s) = <<2 * Cardinality(Concordant(s)) + Cardinality(Tied(s)),
                       2 * Cardinality(Bad(s)) * Cardinality(Good(s))>>
<1> DEFINE B == Bad(s)
<1> DEFINE G == Good(s)
<1> DEFINE D == DOMAIN s
<1> DEFINE n == Cardinality(B)
<1> DEFINE L == {q \in B \X D : s[q[2]].p < s[q[1]].p}
<1> DEFINE E == {q \in B \X D : s[q[2]].p <= s[q[1]].p}
<1> DEFINE LB == {q \in B \X B : s[q[2]].p < s[q[1]].p}
<1> DEFINE EB == {q \in B \X B : s[q[2]].p <= s[q[1]].p}
<1> DEFINE NB == {q \in B \X B : s[q[1]].p <= s[q[2]].p}
<1> DEFINE EG == {q \in B \X G : s[q[2]].p <= s[q[1]].p}
<1>1. /\ B \cup G = D /\ B \cap G = {}
      /\ IsFiniteSet(B) /\ IsFiniteSet(G) /\ IsFiniteSet(D) /\ n \in Nat
      /\ \A k \in D : s[k].p \in Nat
  BY SampleFacts
<1>2. IsFiniteSet(B \X D) /\ IsFiniteSet(B \X B) /\ Cardinality(B \X B) = n * n
  BY <1>1, FS_Product
<1>3. IsFiniteSet(L) /\ IsFiniteSet(E) /\ IsFiniteSet(EG) /\ IsFiniteSet(EB)
  <2>1. L \in SUBSET (B \X D) /\ E \in SUBSET (B \X D)
    OBVIOUS
  <2>2. EG \in SUBSET E /\ EB \in SUBSET (B \X B)
    BY <1>1
  <2>3. IsFiniteSet(L) /\ IsFiniteSet(E) /\ IsFiniteSet(EB)
    BY <1>2, <2>1, <2>2, FS_Subset, Zenon
  <2> QED
    BY <2>2, <2>3, FS_Subset, Zenon
<1>4. Cardinality(L) = Cardinality(LB) + Cardinality(Concordant(s))
  <2>1. LB \in SUBSET L /\ Concordant(s) \in SUBSET L
    BY <1>1 DEF Concordant, Pairs
  <2>2. LB \cup Concordant(s) = L /\ LB \cap Concordant(s) = {}
    BY <1>1 DEF Concordant, Pairs
  <2> HIDE DEF L, LB
  <2> QED
    BY <1>3, <2>1, <2>2, PartsOfSet
<1>5. Cardinality(E) = Cardinality(EB) + Cardinality(EG)
  <2>1. EB \in SUBSET E /\ EG \in SUBSET E
    BY <1>1
  <2>2. EB \cup EG = E /\ EB \cap EG = {}
    BY <1>1
  <2> HIDE DEF E, EB, EG
  <2> QED
    BY <1>3, <2>1, <2>2, PartsOfSet
<1>6. Cardinality(EG) = Cardinality(Concordant(s)) + Cardinality(Tied(s))
  <2>1. Concordant(s) \in SUBSET EG /\ Tied(s) \in SUBSET EG
    BY <1>1 DEF Concordant, Tied, Pairs
  <2>2. Concordant(s) \cup Tied(s) = EG /\ Concordant(s) \cap Tied(s) = {}
    BY <1>1 DEF Concordant, Tied, Pairs
  <2> HIDE DEF EG
  <2> QED
    BY <1>3, <2>1, <2>2, PartsOfSet
<1>7. /\ n * n = Cardinality(LB) + Cardinality(NB)
      /\ Cardinality(LB) \in Nat /\ Cardinality(NB) \in Nat
  <2>1. LB \in SUBSET (B \X B) /\ NB \in SUBSET (B \X B)
    OBVIOUS
  <2>2. LB \cup NB = B \X B /\ LB \cap NB = {}
    BY <1>1
  <2> HIDE DEF LB, NB
  <2>3. /\ Cardinality(B \X B) = Cardinality(LB) + Cardinality(NB)
        /\ Cardinality(B \X B) \in Nat /\ Cardinality(LB) \in Nat /\ Cardinality(NB) \in Nat
    <3> DEFINE S == B \X B
    <3>1. IsFiniteSet(S) /\ LB \in SUBSET S /\ NB \in SUBSET S /\ LB \cup NB = S /\ LB \cap NB = {}
      BY <1>2, <2>1, <2>2
    <3> HIDE DEF S
    <3>2. /\ Cardinality(S) = Cardinality(LB) + Cardinality(NB)
          /\ Cardinality(S) \in Nat /\ Cardinality(LB) \in Nat /\ Cardinality(NB) \in Nat
      BY <3>1, PartsOfSet
    <3> QED
      BY <3>2 DEF S
  <2> QED
    BY <1>2, <2>3
<1>8. Cardinality(NB) = Cardinality(EB)
  <2> DEFINE swap == [q \in EB |-> <<q[2], q[1]>>]
  <2>1. swap \in [EB -> NB]
    OBVIOUS
  <2>2. \A q, r \in EB : swap[q] = swap[r] => q = r
    OBVIOUS
  <2>3. ASSUME NEW t \in NB PROVE \E q \in EB : swap[q] = t
    <3>1. <<t[2], t[1]>> \in EB /\ t = <<t[1], t[2]>>
      OBVIOUS
    <3>2. swap[<<t[2], t[1]>>] = t
      BY <3>1
    <3> QED
      BY <3>1, <3>2
  <2> HIDE DEF swap, EB, NB
  <2> QED
    BY <1>3, <2>1, <2>2, <2>3, OneToOne
<1>9. SumFunction([k \in B |-> AverageRank(s, k)]) = Cardinality(L) + Cardinality(E) + n
  BY RankSum
<1>10. Cardinality(Concordant(s)) \in Nat /\ Cardinality(Tied(s)) \in Nat
  BY PairsFacts
<1> HIDE DEF L, E, LB, EB, NB, EG
<1>11. SumFunction([k \in B |-> AverageRank(s, k)]) - n * (n + 1)
         = 2 * Cardinality(Concordant(s)) + Cardinality(Tied(s))
  <2>1. n * (n + 1) = n * n + n
    BY <1>1
  <2> HIDE DEF n
  <2> QED
    BY <1>1, <1>4, <1>5, <1>6, <1>7, <1>8, <1>9, <1>10, <2>1
<1> QED
  BY <1>11 DEF RocAuc


-----------------------------------------------------------------------------
(* The widest gap.                                                          *)

\* The two distributions at a score, by the rows that do not score higher.
Below(s, rows, x) == Cardinality({k \in rows : s[k].p <= x})
GapAt(s, x) == Distance(Below(s, Bad(s), x) * Cardinality(Good(s)),
                        Below(s, Good(s), x) * Cardinality(Bad(s)))

\* A gap is a natural number.
LEMMA GapIsNatural ==
  ASSUME NEW s, IsSample(s), NEW x
  PROVE  GapAt(s, x) \in Nat
<1> DEFINE a == Below(s, Bad(s), x)
<1> DEFINE b == Below(s, Good(s), x)
<1>1. a \in Nat /\ b \in Nat
  <2>1. ASSUME NEW R, IsFiniteSet(R) PROVE Below(s, R, x) \in Nat
    <3> DEFINE T == {k \in R : s[k].p <= x}
    <3>1. T \in SUBSET R
      OBVIOUS
    <3> HIDE DEF T
    <3>2. Cardinality(T) \in Nat
      BY <2>1, <3>1, FS_Subset, FS_CardinalityType
    <3> QED
      BY <3>2 DEF Below, T
  <2> QED
    BY <2>1, SampleFacts
<1> DEFINE n == Cardinality(Bad(s))
<1> DEFINE m == Cardinality(Good(s))
<1>2. n \in Nat /\ m \in Nat
  BY SampleFacts
<1> DEFINE u == a * m
<1> DEFINE v == b * n
<1>3. u \in Int /\ v \in Int
  <2> HIDE DEF a, b, n, m
  <2> QED
    BY <1>1, <1>2
<1>4. GapAt(s, x) = Distance(u, v)
  BY DEF GapAt
<1> HIDE DEF u, v
<1> QED
  BY <1>3, <1>4 DEF Distance

\* The rows up to the last of a tie are those that do not score higher.
LEMMA UpToLastOfTies ==
  ASSUME NEW s, IsSample(s), NEW k \in LastOfTies(s)
  PROVE  /\ UpTo(s, k) \cap Bad(s) = {i \in Bad(s) : s[i].p <= s[k].p}
         /\ UpTo(s, k) \cap Good(s) = {i \in Good(s) : s[i].p <= s[k].p}
<1>1. k \in DOMAIN s /\ \A i \in DOMAIN s : s[i].p = s[k].p => i <= k
  BY DEF LastOfTies
<1>2. \A i \in DOMAIN s : s[i].p \in Nat
  BY SampleFacts
<1>3. \A i \in DOMAIN s : i \in UpTo(s, k) <=> s[i].p <= s[k].p
  BY <1>1, <1>2 DEF UpTo
<1> QED
  BY <1>3 DEF Bad, Good, UpTo

\* The distributions change at scores of the sample only.
LEMMA GapIsAtRow ==
  ASSUME NEW s, IsSample(s), DOMAIN s \subseteq Nat, NEW x \in Int
  PROVE  GapAt(s, x) = 0 \/ \E k \in LastOfTies(s) : GapAt(s, x) = GapAt(s, s[k].p)
<1> DEFINE R == {i \in DOMAIN s : s[i].p <= x}
<1>0. \A i \in DOMAIN s : s[i].p \in Nat
  BY SampleFacts
<1>1. CASE R = {}
  <2>1. {k \in Bad(s) : s[k].p <= x} = {} /\ {k \in Good(s) : s[k].p <= x} = {}
    BY <1>1 DEF Bad, Good
  <2>2. Below(s, Bad(s), x) = 0 /\ Below(s, Good(s), x) = 0
    BY <2>1, FS_EmptySet DEF Below
  <2> DEFINE n == Cardinality(Bad(s))
  <2> DEFINE m == Cardinality(Good(s))
  <2>3. n \in Nat /\ m \in Nat
    BY SampleFacts
  <2>4. GapAt(s, x) = Distance(0 * m, 0 * n)
    BY <2>2 DEF GapAt
  <2> HIDE DEF n, m
  <2>5. GapAt(s, x) = Distance(0, 0)
    BY <2>3, <2>4
  <2> QED
    BY <2>5 DEF Distance
<1>2. CASE R # {}
  <2> DEFINE P == {s[i].p : i \in R}
  <2>1. R \in SUBSET DOMAIN s /\ IsFiniteSet(DOMAIN s)
    BY SampleFacts
  <2>2. IsFiniteSet(R)
    <3> HIDE DEF R
    <3> QED
      BY <2>1, FS_Subset
  <2>3. P \in SUBSET Int /\ P # {}
    <3>1. \A i \in R : s[i].p \in Int
      BY <1>0
    <3> HIDE DEF R
    <3> QED
      BY <1>2, <3>1
  <2>4. IsFiniteSet(P)
    <3> DEFINE score == [i \in R |-> s[i].p]
    <3>1. P = {score[i] : i \in R}
      OBVIOUS
    <3> HIDE DEF R, P, score
    <3> QED
      BY <2>2, <3>1, ImageIsFinite
  <2>5. PICK v \in P : \A u \in P : v >= u
    <3> HIDE DEF P
    <3> QED
      BY <2>3, <2>4, GreatestElement
  <2> DEFINE T == {i \in R : s[i].p = v}
  <2>6. T \in SUBSET Int /\ T # {} /\ T \in SUBSET R
    <3>1. PICK j \in R : s[j].p = v
      BY <2>5
    <3>2. R \in SUBSET Int
      BY <2>1
    <3> HIDE DEF R
    <3> QED
      BY <3>1, <3>2
  <2>7. IsFiniteSet(T)
    <3> HIDE DEF T, R
    <3> QED
      BY <2>2, <2>6, FS_Subset
  <2>8. PICK k \in T : \A i \in T : k >= i
    <3> HIDE DEF T
    <3> QED
      BY <2>6, <2>7, GreatestElement
  <2>9. k \in DOMAIN s /\ s[k].p = v /\ v <= x /\ v \in Nat /\ k \in Nat
    BY <1>0, <2>8
  <2>10. \A i \in DOMAIN s : s[i].p <= x => s[i].p <= v
    <3>1. \A i \in R : v >= s[i].p
      BY <2>5
    <3>2. \A i \in R : s[i].p <= v
      BY <1>0, <2>1, <2>9, <3>1
    <3> QED
      BY <3>2
  <2>11. k \in LastOfTies(s)
    <3>1. \A i \in DOMAIN s : s[i].p = v => i \in T
      BY <2>9
    <3>2. \A i \in DOMAIN s : s[i].p = v => i <= k
      BY <2>8, <2>9, <3>1
    <3> QED
      BY <2>9, <3>2 DEF LastOfTies
  <2>12. /\ {i \in Bad(s) : s[i].p <= x} = {i \in Bad(s) : s[i].p <= v}
         /\ {i \in Good(s) : s[i].p <= x} = {i \in Good(s) : s[i].p <= v}
    <3>1. ASSUME NEW i \in DOMAIN s PROVE s[i].p <= x <=> s[i].p <= v
      <4>1. CASE s[i].p <= x
        BY <2>10, <4>1
      <4>2. CASE s[i].p <= v
        BY <1>0, <2>9, <4>2
      <4> QED
        BY <4>1, <4>2
    <3> QED
      BY <3>1 DEF Bad, Good
  <2>13. GapAt(s, x) = GapAt(s, v)
    BY <2>12 DEF GapAt, Below
  <2> QED
    BY <2>9, <2>11, <2>13
<1> QED
  BY <1>1, <1>2

\* KS is the widest gap of the distributions over all scores.
LEMMA KsIsWidest ==
  ASSUME NEW s, IsSample(s), DOMAIN s \subseteq Nat, ~OneClass(s)
  PROVE  KsStatistic(s)[1] = Max({GapAt(s, x) : x \in 0 .. Grid})
<1> DEFINE n == Cardinality(Bad(s))
<1> DEFINE m == Cardinality(Good(s))
<1> DEFINE Gap(k) == Distance(Cardinality(UpTo(s, k) \cap Bad(s)) * m,
                              Cardinality(UpTo(s, k) \cap Good(s)) * n)
<1> DEFINE L == LastOfTies(s)
<1> DEFINE G == {Gap(k) : k \in L}
<1> DEFINE H == {GapAt(s, x) : x \in 0 .. Grid}
<1>1. KsStatistic(s)[1] = Max(G)
  BY DEF KsStatistic
<1>2. \A k \in L : Gap(k) = GapAt(s, s[k].p)
  BY UpToLastOfTies DEF GapAt, Below
<1> HIDE DEF Gap
<1>3. /\ L \in SUBSET DOMAIN s /\ IsFiniteSet(DOMAIN s) /\ Grid \in Nat
      /\ \A k \in DOMAIN s : s[k].p \in 0 .. Grid
  BY MetricAssumption DEF IsSample, LastOfTies
<1>4. G \subseteq H
  BY <1>2, <1>3
<1>5. H \subseteq Nat
  BY GapIsNatural
<1>6. IsFiniteSet(H)
  <2> DEFINE I == 0 .. Grid
  <2> DEFINE gap == [x \in I |-> GapAt(s, x)]
  <2>1. IsFiniteSet(I)
    <3>1. 0 \in Int /\ Grid \in Int
      BY <1>3
    <3> QED
      BY <3>1, FS_Interval, Zenon
  <2>2. H = {gap[x] : x \in I}
    OBVIOUS
  <2> HIDE DEF gap, I, H
  <2> QED
    BY <2>1, <2>2, ImageIsFinite
<1>7. \A h \in H : h = 0 \/ h \in G
  BY <1>2, GapIsAtRow
<1>8. G # {}
  <2>1. PICK k \in DOMAIN s : TRUE
    BY DEF OneClass, Bad
  <2> DEFINE T == {i \in DOMAIN s : s[i].p = s[k].p}
  <2>2. T \in SUBSET Int /\ T # {} /\ T \in SUBSET DOMAIN s
    BY <2>1
  <2>3. IsFiniteSet(T)
    <3> HIDE DEF T
    <3> QED
      BY <1>3, <2>2, FS_Subset
  <2>4. PICK j \in T : \A i \in T : j >= i
    <3> HIDE DEF T
    <3> QED
      BY <2>2, <2>3, GreatestElement
  <2>5. j \in L
    BY <2>4 DEF LastOfTies
  <2> HIDE DEF L
  <2> QED
    BY <2>5
<1> HIDE DEF G, H
<1>9. H # {} /\ IsFiniteSet(G)
  BY <1>4, <1>6, <1>8, FS_Subset
<1>10. Max(G) \in G /\ \A y \in G : Max(G) >= y
  <2>1. G \in SUBSET Int
    BY <1>4, <1>5
  <2> QED
    BY <1>8, <1>9, <2>1, MaxIsGreatest
<1>11. Max(H) \in H /\ \A y \in H : Max(H) >= y
  <2>1. H \in SUBSET Int
    BY <1>5
  <2> QED
    BY <1>6, <1>9, <2>1, MaxIsGreatest
<1>12. Max(H) >= Max(G) /\ Max(G) >= Max(H) /\ Max(G) \in Nat /\ Max(H) \in Nat
  <2>1. Max(G) \in H /\ Max(G) \in Nat /\ Max(H) \in Nat
    BY <1>4, <1>5, <1>10, <1>11
  <2>2. Max(H) >= Max(G)
    BY <1>11, <2>1
  <2>3. Max(H) = 0 \/ Max(G) >= Max(H)
    BY <1>7, <1>10, <1>11
  <2> QED
    BY <2>1, <2>2, <2>3
<1> QED
  BY <1>1, <1>12 DEF H

-----------------------------------------------------------------------------
(* The cheapest cut-off.                                                    *)

\* Costs are natural numbers.
LEMMA CostIsNatural ==
  ASSUME NEW s, IsSample(s), NEW t
  PROVE  ExpectedCost(s, t) \in Nat
<1>1. Bad(s) \ Declined(s, t) \in SUBSET Bad(s) /\ Declined(s, t) \cap Good(s) \in SUBSET Good(s)
  OBVIOUS
<1>2. Cardinality(Bad(s) \ Declined(s, t)) \in Nat /\ Cardinality(Declined(s, t) \cap Good(s)) \in Nat
  BY <1>1, SampleFacts, FS_Subset, FS_CardinalityType
<1> QED
  BY <1>2 DEF ExpectedCost, ConfusionAt

\* No cut-off of the grid is cheaper than the one chosen, and none above it is as
\* cheap.
LEMMA CutoffIsCheapest ==
  ASSUME NEW s, IsSample(s), NEW t \in Cutoffs
  PROVE  LET best == OptimalThresholdByCost(s)
         IN  /\ best \in Cutoffs /\ ExpectedCost(s, best) <= ExpectedCost(s, t)
             /\ t > best => ExpectedCost(s, best) < ExpectedCost(s, t)
<1> DEFINE best == OptimalThresholdByCost(s)
<1> DEFINE Least == {v \in Cutoffs : \A u \in Cutoffs : ExpectedCost(s, v) <= ExpectedCost(s, u)}
<1>1. \A u : ExpectedCost(s, u) \in Nat
  BY CostIsNatural
<1>2. Cutoffs \subseteq Int /\ Cutoffs # {} /\ IsFiniteSet(Cutoffs)
  <2>1. 2 * Grid - 1 \in Int /\ Cutoffs \in SUBSET (1 .. 2 * Grid - 1) /\ Cutoffs # {}
    BY MetricAssumption
  <2>2. IsFiniteSet(1 .. 2 * Grid - 1)
    BY <2>1, FS_Interval
  <2>3. IsFiniteSet(Cutoffs)
    BY <2>1, <2>2, FS_Subset
  <2> QED
    BY <2>1, <2>3
<1>3. Least # {}
  <2> DEFINE cost == [u \in Cutoffs |-> 0 - ExpectedCost(s, u)]
  <2> DEFINE C == {cost[u] : u \in Cutoffs}
  <2>1. IsFiniteSet(C)
    <3> HIDE DEF cost
    <3> QED
      BY <1>2, ImageIsFinite
  <2>2. C # {} /\ C \in SUBSET Int
    BY <1>1, <1>2
  <2>3. PICK c \in C : \A d \in C : c >= d
    <3> HIDE DEF C
    <3> QED
      BY <2>1, <2>2, GreatestElement
  <2>4. PICK v \in Cutoffs : c = 0 - ExpectedCost(s, v)
    OBVIOUS
  <2>5. \A u \in Cutoffs : c >= 0 - ExpectedCost(s, u)
    BY <2>3
  <2>6. \A u \in Cutoffs : ExpectedCost(s, v) <= ExpectedCost(s, u)
    BY <1>1, <2>4, <2>5
  <2> QED
    BY <2>6
<1>4. best \in Least /\ \A u \in Least : best >= u
  <2>1. Least \in SUBSET Cutoffs
    OBVIOUS
  <2>2. best = Max(Least)
    BY DEF OptimalThresholdByCost
  <2> HIDE DEF Least, best
  <2>3. Least \in SUBSET Int /\ IsFiniteSet(Least)
    BY <1>2, <2>1, FS_Subset
  <2> QED
    BY <1>3, <2>2, <2>3, MaxIsGreatest
<1> HIDE DEF best
<1>5. best \in Cutoffs /\ \A u \in Cutoffs : ExpectedCost(s, best) <= ExpectedCost(s, u)
  BY <1>4
<1>6. ASSUME t > best PROVE ExpectedCost(s, best) < ExpectedCost(s, t)
  <2>1. t \notin Least
    BY <1>2, <1>4, <1>5, <1>6
  <2>2. PICK u \in Cutoffs : ~(ExpectedCost(s, t) <= ExpectedCost(s, u))
    BY <2>1
  <2>3. ExpectedCost(s, best) <= ExpectedCost(s, u)
    BY <1>5
  <2> QED
    BY <1>1, <2>2, <2>3
<1> QED
  BY <1>5, <1>6 DEF best

-----------------------------------------------------------------------------
(* Calibration.                                                             *)

\* The outcomes of a set of rows add up to its bad rows.
LEMMA OutcomesAddUp ==
  ASSUME NEW s, IsSample(s), NEW R \in SUBSET DOMAIN s
  PROVE  SumFunction([k \in R |-> s[k].y]) = Cardinality({k \in R : s[k].y = 1})
<1> DEFINE c == [k \in R |-> s[k].y]
<1> DEFINE Ones(T) == {k \in T : s[k].y = 1}
<1> DEFINE g == [T \in SUBSET R |-> Cardinality(Ones(T))]
<1>1. IsFiniteSet(R)
  BY SampleFacts, FS_Subset
<1>2. g[{}] = 0
  <2>1. Ones({}) = {}
    OBVIOUS
  <2> QED
    BY <2>1, FS_EmptySet, Zenon
<1>3. ASSUME NEW T \in SUBSET R, NEW x \in T PROVE g[T] = c[x] + g[T \ {x}]
  <2>1. Ones(T) \in SUBSET R
    OBVIOUS
  <2>2. IsFiniteSet(Ones(T))
    <3> HIDE DEF Ones
    <3> QED
      BY <1>1, <2>1, FS_Subset
  <2>3. s[x].y \in {0, 1} /\ c[x] = s[x].y
    BY SampleFacts
  <2>4. Ones(T \ {x}) = Ones(T) \ {x} /\ (x \in Ones(T) <=> s[x].y = 1)
    OBVIOUS
  <2>5. g[T] = Cardinality(Ones(T)) /\ g[T \ {x}] = Cardinality(Ones(T \ {x}))
    OBVIOUS
  <2> HIDE DEF Ones, g, c
  <2>6. Cardinality(Ones(T)) \in Nat
    BY <2>2, FS_CardinalityType
  <2>7. Cardinality(Ones(T) \ {x}) = IF x \in Ones(T) THEN Cardinality(Ones(T)) - 1 ELSE Cardinality(Ones(T))
    BY <2>2, FS_RemoveElement
  <2>8. Cardinality(Ones(T \ {x})) = IF s[x].y = 1 THEN Cardinality(Ones(T)) - 1 ELSE Cardinality(Ones(T))
    BY <2>4, <2>7, Zenon
  <2> QED
    BY <2>3, <2>5, <2>6, <2>8
<1>4. DOMAIN c = R
  OBVIOUS
<1>5. SumFunction(c) = g[R]
  <2> HIDE DEF c, g
  <2> QED
    BY <1>1, <1>2, <1>3, <1>4, SumIs
<1> QED
  BY <1>5

\* Each score has a bin.
LEMMA BinOfScore ==
  ASSUME NEW p \in Nat
  PROVE  BinOf(p) \in 0 .. Bins - 1
<1>1. p * Bins \in Nat /\ Grid \in Nat \ {0} /\ Bins \in Nat \ {0}
  <2>1. Grid \in Nat \ {0} /\ Bins \in Nat \ {0}
    BY MetricAssumption
  <2> QED
    BY <2>1
<1>2. ASSUME NEW a \in Nat PROVE a \div Grid \in Nat
  BY <1>1
<1>3. (p * Bins) \div Grid \in Nat
  BY <1>1, <1>2
<1> DEFINE q == (p * Bins) \div Grid
<1>4. BinOf(p) = IF q < Bins - 1 THEN q ELSE Bins - 1
  BY DEF BinOf, Smaller
<1> HIDE DEF q
<1> QED
  BY <1>1, <1>3, <1>4 DEF q

\* The calibration bins count every row and every bad row once.
LEMMA CalibrationCounts ==
  ASSUME NEW s, IsSample(s)
  PROVE  LET table == CalibrationTable(s)
         IN  /\ SumFunction([b \in DOMAIN table |-> table[b].n]) = Size(s)
             /\ SumFunction([b \in DOMAIN table |-> table[b].obs]) = Cardinality(Bad(s))
<1> DEFINE D == DOMAIN s
<1> DEFINE B == 0 .. Bins - 1
<1> DEFINE group == [k \in D |-> BinOf(s[k].p)]
<1> DEFINE In(b) == {k \in D : BinOf(s[k].p) = b}
<1> DEFINE BadIn(b) == {k \in Bad(s) : group[k] = b}
<1> DEFINE table == CalibrationTable(s)
<1>1. IsFiniteSet(D) /\ IsFiniteSet(Bad(s)) /\ Bad(s) \in SUBSET D /\ \A k \in D : s[k].p \in Nat
  BY SampleFacts DEF Bad
<1>2. IsFiniteSet(B)
  <2>1. 0 \in Int /\ Bins - 1 \in Int
    BY MetricAssumption
  <2> QED
    BY <2>1, FS_Interval, Zenon
<1>3. \A k \in D : group[k] \in B
  BY <1>1, BinOfScore
<1>4. table = [b \in B |-> [n |-> Cardinality(In(b)), pred |-> SumFunction([k \in In(b) |-> s[k].p]),
                             obs |-> SumFunction([k \in In(b) |-> s[k].y])]]
  BY DEF CalibrationTable
<1>5. \A b \in B : In(b) = {k \in D : group[k] = b}
  OBVIOUS
<1>6. \A b \in B : SumFunction([k \in In(b) |-> s[k].y]) = Cardinality(BadIn(b))
  <2> SUFFICES ASSUME NEW b \in B PROVE SumFunction([k \in In(b) |-> s[k].y]) = Cardinality(BadIn(b))
    OBVIOUS
  <2>1. In(b) \in SUBSET D
    OBVIOUS
  <2>2. {k \in In(b) : s[k].y = 1} = BadIn(b)
    BY DEF Bad
  <2> HIDE DEF In, BadIn
  <2> QED
    BY <2>1, <2>2, OutcomesAddUp
<1> HIDE DEF table, In, B, group
<1>7. [b \in DOMAIN table |-> table[b].n] = [b \in B |-> Cardinality({k \in D : group[k] = b})]
  BY <1>4, <1>5
<1>8. [b \in DOMAIN table |-> table[b].obs] = [b \in B |-> Cardinality({k \in Bad(s) : group[k] = b})]
  BY <1>4, <1>6
<1>9. SumFunction([b \in DOMAIN table |-> table[b].n]) = Cardinality({k \in D : group[k] \in B})
  BY <1>1, <1>2, <1>7, CountsAddUp
<1>10. SumFunction([b \in DOMAIN table |-> table[b].obs]) = Cardinality({k \in Bad(s) : group[k] \in B})
  BY <1>1, <1>2, <1>8, CountsAddUp
<1>11. {k \in D : group[k] \in B} = D /\ {k \in Bad(s) : group[k] \in B} = Bad(s)
  BY <1>1, <1>3
<1> QED
  BY <1>9, <1>10, <1>11 DEF Size, table

-----------------------------------------------------------------------------
(* Lift.                                                                    *)

\* The groups end one after the other, the last with the last row.
LEMMA GroupEnds ==
  ASSUME NEW n \in Nat
  PROVE  /\ GroupEnd(n, 0) = 0 /\ GroupEnd(n, Deciles) = n
         /\ \A d \in Nat : GroupEnd(n, d) \in Nat
         /\ \A d, e \in Nat : d <= e => GroupEnd(n, d) <= GroupEnd(n, e)
<1> DEFINE q == n \div Deciles
<1> DEFINE r == n % Deciles
<1>1. Deciles \in Nat \ {0}
  BY MetricAssumption
<1>2. q \in Nat /\ r \in Nat /\ r < Deciles /\ n = Deciles * q + r
  BY <1>1
<1>3. \A d : GroupEnd(n, d) = d * q + Smaller(d, r)
  BY DEF GroupEnd
<1> HIDE DEF q, r
<1>4. GroupEnd(n, 0) = 0
  <2>1. Smaller(0, r) = 0 /\ 0 * q = 0
    BY <1>2 DEF Smaller
  <2> QED
    BY <1>3, <2>1
<1>5. GroupEnd(n, Deciles) = n
  <2>1. Smaller(Deciles, r) = r
    BY <1>1, <1>2 DEF Smaller
  <2> QED
    BY <1>2, <1>3, <2>1
<1>6. ASSUME NEW d \in Nat, NEW e \in Nat
      PROVE  GroupEnd(n, d) \in Nat /\ (d <= e => GroupEnd(n, d) <= GroupEnd(n, e))
  <2>1. d * q \in Nat /\ e * q \in Nat /\ Smaller(d, r) \in Nat /\ Smaller(e, r) \in Nat
    <3>1. d * q \in Nat /\ e * q \in Nat
      BY <1>2
    <3>2. Smaller(d, r) \in Nat /\ Smaller(e, r) \in Nat
      BY <1>2 DEF Smaller
    <3> QED
      BY <3>1, <3>2
  <2>2. ASSUME d <= e PROVE d * q <= e * q /\ Smaller(d, r) <= Smaller(e, r)
    <3>1. Smaller(d, r) <= Smaller(e, r)
      BY <1>2, <2>2 DEF Smaller
    <3>2. e * q = d * q + (e - d) * q
      BY <1>2
    <3>3. (e - d) * q \in Nat
      <4>1. e - d \in Nat
        BY <2>2
      <4> HIDE <2>2
      <4> DEFINE f == e - d
      <4>2. f \in Nat
        BY <4>1
      <4> HIDE DEF f
      <4>3. f * q \in Nat
        BY <1>2, <4>2
      <4> QED
        BY <4>3 DEF f
    <3> QED
      BY <2>1, <3>1, <3>2, <3>3
  <2> QED
    BY <1>3, <2>1, <2>2
<1> QED
  BY <1>4, <1>5, <1>6

\* The groups that have rows.
Groups(n) == {g \in 1 .. Deciles : GroupEnd(n, g) > GroupEnd(n, g - 1)}

\* The place i is in group d.
InGroup(n, i, d) == GroupEnd(n, d - 1) < i /\ i <= GroupEnd(n, d)

\* Each place is in one group.
LEMMA PlaceHasGroup ==
  ASSUME NEW n \in Nat, NEW i \in 1 .. n
  PROVE  \E d \in Groups(n) : InGroup(n, i, d) /\ \A e \in Groups(n) : InGroup(n, i, e) => e = d
<1> DEFINE S == {e \in 0 .. Deciles : GroupEnd(n, e) < i}
<1>0. Deciles \in Nat \ {0}
  BY MetricAssumption
<1>1. S \in SUBSET Int /\ S # {} /\ IsFiniteSet(S)
  <2>1. 0 \in Int /\ Deciles \in Int /\ 0 \in 0 .. Deciles
    BY <1>0
  <2>2. IsFiniteSet(0 .. Deciles)
    BY <2>1, FS_Interval, Zenon
  <2>3. S \in SUBSET (0 .. Deciles)
    OBVIOUS
  <2>4. 0 \in S
    BY <2>1, GroupEnds
  <2>5. S \in SUBSET Int
    BY <2>1
  <2> HIDE DEF S
  <2> QED
    BY <2>2, <2>3, <2>4, <2>5, FS_Subset
<1>2. PICK e \in S : \A f \in S : e >= f
  <2> HIDE DEF S
  <2> QED
    BY <1>1, GreatestElement
<1> DEFINE d == e + 1
<1>3. e \in Nat /\ e <= Deciles /\ GroupEnd(n, e) < i
  BY <1>0, <1>2
<1>4. e # Deciles
  BY <1>3, GroupEnds
<1>5. d \in 1 .. Deciles /\ d - 1 = e
  BY <1>0, <1>3, <1>4
<1>6. i <= GroupEnd(n, d)
  <2>1. d \notin S
    BY <1>2, <1>3
  <2>2. GroupEnd(n, d) \in Nat
    BY <1>5, GroupEnds
  <2> QED
    BY <1>5, <2>1, <2>2
<1>7. d \in Groups(n) /\ InGroup(n, i, d)
  <2>1. GroupEnd(n, d) \in Nat /\ GroupEnd(n, e) \in Nat
    BY <1>3, <1>5, GroupEnds
  <2> HIDE DEF d
  <2> QED
    BY <1>3, <1>5, <1>6, <2>1 DEF Groups, InGroup
<1>8. ASSUME NEW f \in Groups(n), InGroup(n, i, f) PROVE f = d
  <2>1. f \in Nat /\ f - 1 \in Nat /\ d \in Nat
    BY <1>0, <1>5, <1>8 DEF Groups
  <2>2. /\ GroupEnd(n, f - 1) < i /\ i <= GroupEnd(n, f)
        /\ GroupEnd(n, e) < i /\ i <= GroupEnd(n, d)
    BY <1>3, <1>6, <1>8 DEF InGroup
  <2>3. /\ GroupEnd(n, f - 1) \in Nat /\ GroupEnd(n, f) \in Nat
        /\ GroupEnd(n, e) \in Nat /\ GroupEnd(n, d) \in Nat
        /\ d <= f - 1 => GroupEnd(n, d) <= GroupEnd(n, f - 1)
        /\ f <= e => GroupEnd(n, f) <= GroupEnd(n, e)
    <3> HIDE DEF d
    <3> QED
      BY <1>3, <2>1, GroupEnds
  <2>4. ~(d <= f - 1) /\ ~(f <= e)
    <3> HIDE DEF d
    <3> QED
      BY <2>2, <2>3
  <2> QED
    BY <1>3, <2>1, <2>4
<1> HIDE DEF d
<1> QED
  BY <1>7, <1>8

\* Rows that are placed are counted by the groups once.
LEMMA GroupsCountRows ==
  ASSUME NEW n \in Nat, NEW K, IsFiniteSet(K), NEW place, \A k \in K : place[k] \in 1 .. n
  PROVE  SumFunction([d \in Groups(n) |-> Cardinality({k \in K : InGroup(n, place[k], d)})])
           = Cardinality(K)
<1> DEFINE D == Groups(n)
<1> DEFINE group == [k \in K |-> CHOOSE d \in D : InGroup(n, place[k], d)]
<1>1. IsFiniteSet(D)
  <2>1. 1 \in Int /\ Deciles \in Int
    BY MetricAssumption
  <2>2. IsFiniteSet(1 .. Deciles)
    BY <2>1, FS_Interval, Zenon
  <2>3. D \in SUBSET (1 .. Deciles)
    BY DEF Groups
  <2> QED
    BY <2>2, <2>3, FS_Subset
<1> HIDE DEF D
<1>2. ASSUME NEW k \in K PROVE group[k] \in D /\ \A d \in D : group[k] = d <=> InGroup(n, place[k], d)
  <2>1. PICK d \in D : InGroup(n, place[k], d) /\ \A e \in D : InGroup(n, place[k], e) => e = d
    BY PlaceHasGroup DEF D
  <2>2. group[k] = d
    BY <2>1
  <2> HIDE DEF group
  <2> QED
    BY <2>1, <2>2
<1> HIDE DEF group
<1> DEFINE c == [d \in D |-> Cardinality({k \in K : group[k] = d})]
<1>3. SumFunction(c) = Cardinality({k \in K : group[k] \in D})
  BY <1>1, CountsAddUp
<1>4. {k \in K : group[k] \in D} = K
  BY <1>2
<1>5. c = [d \in D |-> Cardinality({k \in K : InGroup(n, place[k], d)})]
  <2>1. \A d \in D : {k \in K : group[k] = d} = {k \in K : InGroup(n, place[k], d)}
    BY <1>2
  <2> QED
    BY <2>1
<1> HIDE DEF c
<1> QED
  BY <1>3, <1>4, <1>5 DEF D

\* The places of a sample.
LEMMA PlaceOfRow ==
  ASSUME NEW s, IsSample(s), NEW k \in DOMAIN s, k \in Nat
  PROVE  Place(s, k) \in 1 .. Size(s)
<1> DEFINE T == {i \in DOMAIN s : s[i].p > s[k].p \/ (s[i].p = s[k].p /\ i <= k)}
<1>1. k \in T /\ T \in SUBSET DOMAIN s
  OBVIOUS
<1>2. Place(s, k) = Cardinality(T)
  BY DEF Place
<1> HIDE DEF T
<1>3. IsFiniteSet(T) /\ Cardinality(T) <= Cardinality(DOMAIN s)
  BY <1>1, SampleFacts, FS_Subset
<1>4. Cardinality(T) \in Nat /\ Cardinality(T) # 0 /\ Cardinality(DOMAIN s) \in Nat
  BY <1>1, <1>3, SampleFacts, FS_CardinalityType, FS_EmptySet
<1> QED
  BY <1>2, <1>3, <1>4 DEF Size

\* The lift groups count every row and every bad row once, and the last has
\* captured all bad rows.
LEMMA LiftCounts ==
  ASSUME NEW s, IsSample(s), DOMAIN s \subseteq Nat, DOMAIN s # {}
  PROVE  LET lift == DecileLift(s)
         IN  /\ SumFunction([d \in DOMAIN lift |-> lift[d].n]) = Size(s)
             /\ SumFunction([d \in DOMAIN lift |-> lift[d].bad]) = Cardinality(Bad(s))
             /\ lift[Max(DOMAIN lift)].captured = Cardinality(Bad(s))
<1> DEFINE n == Size(s)
<1> DEFINE D == Groups(n)
<1> DEFINE End(d) == GroupEnd(n, d)
<1> DEFINE BadIn(d) == {k \in Bad(s) : End(d - 1) < Place(s, k) /\ Place(s, k) <= End(d)}
<1> DEFINE Caught(d) == {k \in Bad(s) : Place(s, k) <= End(d)}
<1> DEFINE lift == DecileLift(s)
<1>0. /\ n \in Nat /\ n # 0 /\ IsFiniteSet(Bad(s)) /\ Bad(s) \in SUBSET DOMAIN s
      /\ IsFiniteSet(DOMAIN s)
  <2>1. n \in Nat /\ IsFiniteSet(Bad(s)) /\ IsFiniteSet(DOMAIN s)
    BY SampleFacts
  <2>2. n # 0
    BY <2>1, FS_EmptySet DEF Size
  <2> QED
    BY <2>1, <2>2 DEF Bad
<1>1. lift = [d \in D |-> [n |-> End(d) - End(d - 1), bad |-> Cardinality(BadIn(d)),
                           captured |-> Cardinality(Caught(d))]]
  BY DEF DecileLift, Groups
<1>2. \A k \in DOMAIN s : Place(s, k) \in 1 .. n
  BY PlaceOfRow
<1> HIDE DEF n
<1>3. D \subseteq 1 .. Deciles /\ D \subseteq Nat /\ \A d \in D : d - 1 \in Nat
  BY MetricAssumption DEF Groups
<1>4. \A d \in D : End(d) \in Nat /\ End(d - 1) \in Nat /\ End(d) > End(d - 1)
  BY <1>0, <1>3, GroupEnds DEF Groups
<1> HIDE DEF lift, D
<1>5. SumFunction([d \in DOMAIN lift |-> lift[d].n]) = n
  <2> DEFINE K == 1 .. n
  <2> DEFINE place == [i \in K |-> i]
  <2>1. IsFiniteSet(K) /\ Cardinality(K) = n
    <3>1. 1 \in Int /\ n \in Int
      BY <1>0
    <3>2. IsFiniteSet(1 .. n) /\ Cardinality(1 .. n) = IF 1 > n THEN 0 ELSE n - 1 + 1
      BY <3>1, FS_Interval, Zenon
    <3> QED
      BY <1>0, <3>2
  <2>2. ASSUME NEW d \in D
        PROVE  Cardinality({i \in K : InGroup(n, place[i], d)}) = End(d) - End(d - 1)
    <3> DEFINE a == End(d - 1)
    <3> DEFINE b == End(d)
    <3>1. a \in Nat /\ b \in Nat /\ b > a
      BY <1>4, <2>2
    <3>2. b <= n
      <4>1. d \in Nat /\ Deciles \in Nat /\ d <= Deciles
        BY <1>3, <2>2, MetricAssumption
      <4>2. GroupEnd(n, d) <= GroupEnd(n, Deciles) /\ GroupEnd(n, Deciles) = n
        BY <1>0, <4>1, GroupEnds
      <4> QED
        BY <4>2
    <3>3. {i \in K : InGroup(n, place[i], d)} = {i \in K : a < i /\ i <= b}
      BY DEF InGroup
    <3> HIDE DEF a, b
    <3>4. {i \in K : a < i /\ i <= b} = (a + 1) .. b
      BY <1>0, <3>1, <3>2
    <3>5. a + 1 \in Int /\ b \in Int
      BY <3>1
    <3>6. Cardinality((a + 1) .. b) = IF a + 1 > b THEN 0 ELSE b - (a + 1) + 1
      BY <3>5, FS_Interval, Zenon
    <3>7. Cardinality((a + 1) .. b) = b - a
      BY <3>1, <3>6
    <3> QED
      BY <3>3, <3>4, <3>7 DEF a, b
  <2>3. [d \in DOMAIN lift |-> lift[d].n]
          = [d \in D |-> Cardinality({i \in K : InGroup(n, place[i], d)})]
    <3> HIDE DEF place, K, End, BadIn, Caught
    <3> QED
      BY <1>1, <2>2
  <2>4. \A i \in K : place[i] \in 1 .. n
    OBVIOUS
  <2> HIDE DEF place, K
  <2>5. SumFunction([d \in Groups(n) |-> Cardinality({i \in K : InGroup(n, place[i], d)})]) = Cardinality(K)
    BY <1>0, <2>1, <2>4, GroupsCountRows
  <2> QED
    BY <2>1, <2>3, <2>5 DEF D
<1>6. SumFunction([d \in DOMAIN lift |-> lift[d].bad]) = Cardinality(Bad(s))
  <2> DEFINE K == Bad(s)
  <2> DEFINE place == [k \in K |-> Place(s, k)]
  <2>1. \A k \in K : place[k] \in 1 .. n
    BY <1>0, <1>2
  <2>2. \A d \in D : BadIn(d) = {k \in K : InGroup(n, place[k], d)}
    BY DEF InGroup
  <2>3. [d \in DOMAIN lift |-> lift[d].bad]
          = [d \in D |-> Cardinality({k \in K : InGroup(n, place[k], d)})]
    <3> HIDE DEF place, K, End, BadIn, Caught
    <3> QED
      BY <1>1, <2>2
  <2> HIDE DEF place
  <2>4. SumFunction([d \in Groups(n) |-> Cardinality({k \in K : InGroup(n, place[k], d)})]) = Cardinality(K)
    BY <1>0, <2>1, GroupsCountRows
  <2> QED
    BY <2>3, <2>4 DEF D
<1>7. lift[Max(DOMAIN lift)].captured = Cardinality(Bad(s))
  <2>1. PICK d \in D : InGroup(n, n, d)
    <3>1. n \in 1 .. n
      BY <1>0
    <3> QED
      BY <1>0, <3>1, PlaceHasGroup DEF D
  <2>2. IsFiniteSet(D)
    <3>1. 1 \in Int /\ Deciles \in Int
      BY MetricAssumption
    <3>2. IsFiniteSet(1 .. Deciles)
      BY <3>1, FS_Interval, Zenon
    <3> QED
      BY <1>3, <3>2, FS_Subset
  <2> DEFINE last == Max(D)
  <2>3. last \in D /\ last >= d
    <3>1. D \in SUBSET Int /\ D # {}
      BY <1>3, <2>1
    <3> QED
      BY <2>1, <2>2, <3>1, MaxIsGreatest
  <2> HIDE DEF last
  <2>4. End(last) >= n
    <3>1. d \in Nat /\ last \in Nat /\ d <= last
      BY <1>3, <2>3
    <3>2. GroupEnd(n, d) <= GroupEnd(n, last) /\ GroupEnd(n, d) \in Nat /\ GroupEnd(n, last) \in Nat
      BY <1>0, <3>1, GroupEnds
    <3>3. n <= GroupEnd(n, d)
      BY <2>1 DEF InGroup
    <3> QED
      BY <1>0, <3>2, <3>3
  <2>5. Caught(last) = Bad(s)
    <3>1. End(last) \in Nat
      BY <1>4, <2>3
    <3> QED
      BY <1>0, <1>2, <2>4, <3>1
  <2>6. DOMAIN lift = D /\ lift[last].captured = Cardinality(Caught(last))
    <3> HIDE DEF Caught, End, BadIn
    <3> QED
      BY <1>1, <2>3
  <2> QED
    BY <2>5, <2>6 DEF last
<1> QED
  BY <1>5, <1>6, <1>7 DEF n, lift
=============================================================================
