--------------------------- MODULE ServicesProofs ---------------------------
(***************************************************************************)
(* Theorems about what is done on request: each from the invariant of its  *)
(* part, for a step of another part leaves it as it is.                    *)
(***************************************************************************)
EXTENDS Services, UpkeepProofs

-----------------------------------------------------------------------------
(* Search: lists in an order *)

\* Who is ahead of whom puts a set in an order: everything has its place, behind all that is
\* ahead of it.
IsOrder(is, ahead) ==
    /\ \A i \in is : ahead[i] \in SUBSET is /\ i \notin ahead[i]
    /\ \A i, j \in is : i # j => i \in ahead[j] \/ j \in ahead[i]
    /\ \A i, j, k \in is : i \in ahead[j] /\ j \in ahead[k] => i \in ahead[k]

InPlaces(list, is, ahead) ==
    /\ list \in Seq(is) /\ Len(list) = Cardinality(is) /\ Cardinality(is) \in Nat
    /\ \A i \in is : \E n \in DOMAIN list : list[n] = i
    /\ \A m, n \in DOMAIN list : m < n => list[m] \in ahead[list[n]]
    /\ \A m, n \in DOMAIN list : list[m] \in ahead[list[n]] => m < n
    /\ \A m, n \in DOMAIN list : list[m] = list[n] => m = n
    /\ \A n \in DOMAIN list : Cardinality(ahead[list[n]]) = n - 1

LEMMA SomeAhead ==
    ASSUME NEW is, IsFiniteSet(is), NEW ahead, IsOrder(is, ahead), NEW i \in is
    PROVE  /\ IsFiniteSet(ahead[i]) /\ Cardinality(ahead[i]) \in Nat
           /\ Cardinality(ahead[i]) < Cardinality(is)
           /\ \A j \in is : j \in ahead[i] => Cardinality(ahead[j]) < Cardinality(ahead[i])
<1>1. ahead[i] \in SUBSET (is \ {i})
  BY DEF IsOrder
<1>2. IsFiniteSet(is \ {i}) /\ Cardinality(is \ {i}) = Cardinality(is) - 1 /\ Cardinality(is) \in Nat
  BY FS_RemoveElement, FS_CardinalityType
<1>3. IsFiniteSet(ahead[i]) /\ Cardinality(ahead[i]) <= Cardinality(is \ {i})
  BY <1>1, <1>2, FS_Subset
<1>4. Cardinality(ahead[i]) \in Nat
  BY <1>3, FS_CardinalityType
<1>5. ASSUME NEW j \in is, j \in ahead[i]
      PROVE  Cardinality(ahead[j]) < Cardinality(ahead[i])
  <2>1. ahead[j] \in SUBSET (ahead[i] \ {j})
    BY <1>5 DEF IsOrder
  <2>2. IsFiniteSet(ahead[i] \ {j})
        /\ Cardinality(ahead[i] \ {j}) = Cardinality(ahead[i]) - 1
    BY <1>3, <1>5, FS_RemoveElement
  <2>3. IsFiniteSet(ahead[j])
        /\ Cardinality(ahead[j]) <= Cardinality(ahead[i] \ {j})
    BY <2>1, <2>2, FS_Subset
  <2>4. Cardinality(ahead[j]) \in Nat
    BY <2>3, FS_CardinalityType
  <2> QED
    BY <1>4, <2>2, <2>3, <2>4
<1> QED
  BY <1>2, <1>3, <1>4, <1>5

LEMMA EveryPlace ==
    ASSUME NEW is, IsFiniteSet(is), NEW ahead, IsOrder(is, ahead)
    PROVE  /\ \A i, j \in is : Cardinality(ahead[i]) = Cardinality(ahead[j]) => i = j
           /\ \A n \in 1 .. Cardinality(is) : \E i \in is : Cardinality(ahead[i]) = n - 1
<1> DEFINE rank == [i \in is |-> Cardinality(ahead[i])]
<1>1. Cardinality(is) \in Nat
  BY FS_CardinalityType
<1>2. \A i \in is : Cardinality(ahead[i]) \in Nat /\ Cardinality(ahead[i]) < Cardinality(is)
  BY SomeAhead
<1>3. ASSUME NEW i \in is, NEW j \in is, Cardinality(ahead[i]) = Cardinality(ahead[j])
      PROVE  i = j
  <2>1. i \notin ahead[j]
    BY <1>2, <1>3, SomeAhead
  <2>2. j \notin ahead[i]
    BY <1>2, <1>3, SomeAhead
  <2> QED
    BY <2>1, <2>2 DEF IsOrder
<1> DEFINE R == 0 .. (Cardinality(is) - 1)
<1>4. \A i \in is : Cardinality(ahead[i]) \in R
  BY <1>1, <1>2
<1>5. IsFiniteSet(R) /\ Cardinality(R) = Cardinality(is)
  <2>1. Cardinality(is) - 1 \in Int
    BY <1>1
  <2> QED
    BY <1>1, <2>1, FS_Interval
<1> HIDE DEF R
<1>6. rank \in Injection(is, R)
  <2>1. rank \in [is -> R] /\ \A i, j \in is : rank[i] = rank[j] => i = j
    BY <1>3, <1>4
  <2> HIDE DEF rank
  <2> QED
    BY <2>1 DEF Injection, IsInjective
<1>7. \A n \in R : \E i \in is : rank[i] = n
  <2> HIDE DEF rank
  <2>1. rank \in Surjection(is, R)
    BY <1>5, <1>6, FS_Injection
  <2> QED
    BY <2>1 DEF Surjection
<1>8. \A n \in 1 .. Cardinality(is) : n - 1 \in R
  BY <1>1 DEF R
<1>9. \A n \in R : \E i \in is : Cardinality(ahead[i]) = n
  BY <1>7
<1>10. \A n \in 1 .. Cardinality(is) : \E i \in is : Cardinality(ahead[i]) = n - 1
  BY <1>8, <1>9
<1> QED
  BY <1>3, <1>10

LEMMA OrderIs ==
    ASSUME NEW is, IsFiniteSet(is), NEW ahead, IsOrder(is, ahead)
    PROVE  InPlaces(InOrder(is, ahead), is, ahead)
<1> DEFINE at(n) == CHOOSE i \in is : Cardinality(ahead[i]) = n - 1
           k == Cardinality(is)
           q == [n \in 1 .. k |-> at(n)]
<1>1. k \in Nat
  BY FS_CardinalityType
<1>2. InOrder(is, ahead) = q
  BY Zenon DEF InOrder
<1>3. \A n \in 1 .. k : at(n) \in is /\ Cardinality(ahead[at(n)]) = n - 1
  <2>1. \A n \in 1 .. k : \E i \in is : Cardinality(ahead[i]) = n - 1
    BY EveryPlace
  <2> HIDE DEF k
  <2> QED
    BY <2>1
<1> HIDE DEF at
<1>4. \A m, n \in 1 .. k : m < n => at(m) \in ahead[at(n)]
  <2> SUFFICES ASSUME NEW m \in 1 .. k, NEW n \in 1 .. k, m < n
               PROVE  at(m) \in ahead[at(n)]
    BY Zenon
  <2>1. /\ at(m) \in is /\ Cardinality(ahead[at(m)]) = m - 1
        /\ at(n) \in is /\ Cardinality(ahead[at(n)]) = n - 1
    BY <1>3
  <2>2. at(n) \in ahead[at(m)] => Cardinality(ahead[at(n)]) < Cardinality(ahead[at(m)])
    BY <2>1, SomeAhead
  <2> HIDE DEF k
  <2>3. m \in Int /\ n \in Int
    BY <1>1
  <2>4. at(m) # at(n) /\ at(n) \notin ahead[at(m)]
    BY <2>1, <2>2, <2>3
  <2> QED
    BY <2>1, <2>4 DEF IsOrder
<1>5. \A i \in is : \E n \in 1 .. k : at(n) = i
  <2> TAKE i \in is
  <2> DEFINE n == Cardinality(ahead[i]) + 1
  <2>1. n \in 1 .. k /\ n - 1 = Cardinality(ahead[i])
    BY <1>1, SomeAhead
  <2> HIDE DEF n, k
  <2>2. at(n) \in is /\ Cardinality(ahead[at(n)]) = Cardinality(ahead[i])
    BY <1>3, <2>1
  <2>3. at(n) = i
    BY <2>2, EveryPlace
  <2> QED
    BY <2>1, <2>3
<1> HIDE DEF k
<1>6. q \in Seq(is) /\ Len(q) = k /\ DOMAIN q = 1 .. k /\ \A n \in 1 .. k : q[n] = at(n)
  BY <1>1, <1>3
<1> HIDE DEF q
<1>7. \A i \in is : \E n \in DOMAIN q : q[n] = i
  BY <1>5, <1>6
<1>8. \A m, n \in DOMAIN q : m < n => q[m] \in ahead[q[n]]
  BY <1>4, <1>6
<1>9. \A n \in DOMAIN q : q[n] \in is /\ Cardinality(ahead[q[n]]) = n - 1
  BY <1>3, <1>6
<1>10. ASSUME NEW m \in DOMAIN q, NEW n \in DOMAIN q
       PROVE  /\ q[m] \in ahead[q[n]] => m < n
              /\ q[m] = q[n] => m = n
  <2>1. m \in Int /\ n \in Int
    BY <1>1, <1>6
  <2>2. q[m] \in ahead[q[n]] => Cardinality(ahead[q[m]]) < Cardinality(ahead[q[n]])
    BY <1>9, SomeAhead
  <2> QED
    BY <1>9, <2>1, <2>2
<1>11. InPlaces(q, is, ahead)
  BY <1>1, <1>6, <1>7, <1>8, <1>9, <1>10 DEF InPlaces, k
<1> QED
  BY <1>2, <1>11

\* A list by score has everything, once, and what is ahead by score or by age comes before.
Earlier(i, j, score, newest) ==
    score[i] > score[j] \/ (score[i] = score[j] /\ IF newest THEN i > j ELSE i < j)

SortedBy(list, is, score, newest) ==
    /\ list \in Seq(is) /\ Len(list) = Cardinality(is) /\ Cardinality(is) \in Nat
    /\ ToSet(list) = is /\ IsInjective(list)
    /\ \A m, n \in DOMAIN list : Earlier(list[m], list[n], score, newest) => m < n

LEMMA SortedIs ==
    ASSUME NEW is \in SUBSET Int, IsFiniteSet(is), NEW score, \A i \in is : score[i] \in Int,
           NEW newest \in BOOLEAN
    PROVE  SortedBy(Sorted(is, score, newest), is, score, newest)
<1> DEFINE ahead == Ahead(is, score, newest)
           list == Sorted(is, score, newest)
<1>1. \A i \in is : ahead[i] = {j \in is : Earlier(j, i, score, newest)}
  BY DEF Ahead, Earlier
<1> HIDE DEF ahead
<1>2. IsOrder(is, ahead)
  <2>1. \A i \in is : ahead[i] \in SUBSET is /\ i \notin ahead[i]
    BY <1>1 DEF Earlier
  <2>2. ASSUME NEW i \in is, NEW j \in is, i # j
        PROVE  i \in ahead[j] \/ j \in ahead[i]
    <3>1. i \in Int /\ j \in Int /\ score[i] \in Int /\ score[j] \in Int
      OBVIOUS
    <3>2. Earlier(i, j, score, newest) \/ Earlier(j, i, score, newest)
      BY <2>2, <3>1 DEF Earlier
    <3> QED
      BY <1>1, <3>2
  <2>3. ASSUME NEW i \in is, NEW j \in is, NEW k \in is, i \in ahead[j], j \in ahead[k]
        PROVE  i \in ahead[k]
    <3>1. /\ i \in Int /\ j \in Int /\ k \in Int
          /\ score[i] \in Int /\ score[j] \in Int /\ score[k] \in Int
      OBVIOUS
    <3>2. Earlier(i, j, score, newest) /\ Earlier(j, k, score, newest)
      BY <1>1, <2>3
    <3>3. Earlier(i, k, score, newest)
      BY <3>1, <3>2 DEF Earlier
    <3> QED
      BY <1>1, <3>3
  <2> QED
    BY <2>1, <2>2, <2>3 DEF IsOrder
<1>3. InPlaces(list, is, ahead)
  BY <1>2, OrderIs DEF Sorted, ahead
<1> HIDE DEF list
<1>4. list \in Seq(is) /\ Len(list) = Cardinality(is) /\ Cardinality(is) \in Nat
  BY <1>3 DEF InPlaces
<1>5. \A n \in DOMAIN list : list[n] \in is
  BY <1>4
<1>6. ToSet(list) = is
  <2>1. \A i \in is : \E n \in DOMAIN list : list[n] = i
    BY <1>3 DEF InPlaces
  <2> QED
    BY <1>5, <2>1 DEF ToSet
<1>7. IsInjective(list)
  BY <1>3 DEF InPlaces, IsInjective
<1>8. \A m, n \in DOMAIN list : Earlier(list[m], list[n], score, newest) => m < n
  <2>1. \A m, n \in DOMAIN list : list[m] \in ahead[list[n]] => m < n
    BY <1>3 DEF InPlaces
  <2> QED
    BY <1>1, <1>5, <2>1
<1> QED
  BY <1>4, <1>6, <1>7, <1>8 DEF SortedBy, list

LEMMA HasFirst ==
    ASSUME NEW S \in SUBSET Int, IsFiniteSet(S), S # {}
    PROVE  \E n \in S : \A m \in S : n <= m
<1> DEFINE score == [i \in S |-> 0]
           list == Sorted(S, score, FALSE)
<1>1. SortedBy(list, S, score, FALSE)
  <2>1. \A i \in S : score[i] \in Int
    OBVIOUS
  <2> HIDE DEF score
  <2> QED
    BY <2>1, SortedIs
<1> HIDE DEF list
<1>2. list \in Seq(S) /\ ToSet(list) = S
  BY <1>1 DEF SortedBy
<1>3. \A m \in S : \E n \in DOMAIN list : list[n] = m
  BY <1>2 DEF ToSet
<1>4. 1 \in DOMAIN list
  <2>1. DOMAIN list = 1 .. Len(list) /\ Len(list) \in Nat
    BY <1>2
  <2>2. PICK n : n \in DOMAIN list
    BY <1>3
  <2> QED
    BY <2>1, <2>2
<1>5. \A m \in S : ~(m < list[1])
  <2> SUFFICES ASSUME NEW n \in DOMAIN list, list[n] < list[1]
               PROVE  FALSE
    BY <1>3
  <2>1. list[n] \in S /\ list[1] \in S
    BY <1>2, <1>4
  <2>2. Earlier(list[n], list[1], score, FALSE)
    BY <2>1 DEF Earlier
  <2>3. n < 1
    BY <1>1, <1>4, <2>2 DEF SortedBy
  <2> QED
    BY <1>2, <2>3
<1>6. list[1] \in S
  BY <1>2, <1>4
<1>7. \A m \in S : m \in Int /\ ~(m < list[1]) /\ list[1] \in Int
  BY <1>5, <1>6
<1> DEFINE least == list[1]
<1>8. \A m \in S : least <= m
  <2> HIDE DEF score
  <2> QED
    BY <1>7
<1>9. least \in S
  BY <1>6
<1> HIDE DEF least, score
<1> QED
  BY <1>8, <1>9

\* A set of numbers that has nought, and the next after each, has all up to n.
LEMMA Reaching ==
    ASSUME NEW n \in Nat, NEW S, 0 \in S, \A m \in Nat : m < n /\ m \in S => m + 1 \in S
    PROVE  \A m \in 0 .. n : m \in S
<1> DEFINE Missing == {m \in 0 .. n : m \notin S}
<1> SUFFICES ASSUME Missing # {} PROVE FALSE
  OBVIOUS
<1>1. Missing \in SUBSET (0 .. n) /\ Missing \in SUBSET Int
  OBVIOUS
<1>2. IsFiniteSet(Missing)
  <2>1. IsFiniteSet(0 .. n)
    BY FS_Interval
  <2> HIDE DEF Missing
  <2> QED
    BY <1>1, <2>1, FS_Subset
<1>3. PICK least \in Missing : \A m \in Missing : least <= m
  BY <1>1, <1>2, HasFirst
<1>4. least # 0 /\ least - 1 \in Nat /\ least - 1 < n /\ least - 1 \notin Missing
  BY <1>3
<1>5. least - 1 \in S
  BY <1>4
<1> QED
  BY <1>3, <1>4, <1>5

-----------------------------------------------------------------------------
(* Search: patterns, their weights, and the score of a memory *)

MemoriesTyped == memories \in Seq(Shape) /\ Len(memories) <= MaxMemories

LEMMA IdsAre ==
    ASSUME MemoriesTyped
    PROVE  /\ Ids = 1 .. Len(memories) /\ Len(memories) \in Nat /\ Len(memories) <= 10
           /\ Ids \in SUBSET Int /\ IsFiniteSet(Ids) /\ Cardinality(Ids) = Len(memories)
           /\ \A i \in Ids : memories[i] \in Shape
<1>1. /\ Ids = 1 .. Len(memories) /\ Len(memories) \in Nat
      /\ \A i \in Ids : memories[i] \in Shape
  BY DEF MemoriesTyped, Ids
<1>2. Len(memories) <= 10
  BY <1>1, SearchAssumption DEF MemoriesTyped
<1>3. IsFiniteSet(Ids) /\ Cardinality(Ids) = Len(memories)
  <2> DEFINE n == Len(memories)
  <2>1. n \in Nat /\ 1 \in Int /\ n \in Int
    BY <1>1
  <2> HIDE DEF n
  <2>2. IsFiniteSet(1 .. n) /\ Cardinality(1 .. n) = n
    BY <2>1, FS_Interval
  <2> QED
    BY <1>1, <2>2 DEF n
<1> QED
  BY <1>1, <1>2, <1>3

LEMMA SomeIds ==
    ASSUME MemoriesTyped, NEW is \in SUBSET Ids
    PROVE  /\ is \in SUBSET Int /\ IsFiniteSet(is)
           /\ Cardinality(is) \in Nat /\ Cardinality(is) <= Len(memories)
<1>1. is \in SUBSET Int /\ IsFiniteSet(Ids) /\ Cardinality(Ids) = Len(memories)
  BY IdsAre
<1> QED
  BY <1>1, FS_Subset, FS_CardinalityType

Having(p) == {i \in Ids : Has(i, p)}

LEMMA CountIs ==
    ASSUME MemoriesTyped, NEW p
    PROVE  /\ Count(p) \in Nat /\ Count(p) <= Len(memories)
           /\ IsFiniteSet(Having(p)) /\ Count(p) = Cardinality(Having(p))
           /\ Count(p) = 0 <=> \A i \in Ids : ~Has(i, p)
<1>1. Having(p) \in SUBSET Ids /\ Count(p) = Cardinality(Having(p))
  BY DEF Having, Count
<1>2. IsFiniteSet(Having(p)) /\ Cardinality(Having(p)) \in Nat
      /\ Cardinality(Having(p)) <= Len(memories)
  BY <1>1, SomeIds
<1>3. Cardinality(Having(p)) = 0 <=> Having(p) = {}
  BY <1>2, FS_EmptySet
<1> QED
  BY <1>1, <1>2, <1>3 DEF Having

LEMMA WeightIs ==
    ASSUME MemoriesTyped, NEW p
    PROVE  /\ Weight(p) \in Nat
           /\ Weight(p) > 0 <=> \E i \in Ids : Has(i, p)
<1>1. Count(p) \in Nat /\ Count(p) <= Len(memories) /\ Len(memories) \in Nat
      /\ Len(memories) <= MaxMemories /\ MaxMemories \in Nat
  BY CountIs, IdsAre, SearchAssumption DEF MemoriesTyped
<1>2. CASE Count(p) = 0
  BY <1>2, CountIs DEF Weight
<1>3. CASE Count(p) # 0
  <2>1. Len(memories) \in 1 .. MaxMemories /\ Count(p) \in 1 .. Len(memories)
    BY <1>1, <1>3
  <2>2. Idf[Len(memories)][Count(p)] \in Nat \ {0}
    BY <2>1, SearchAssumption
  <2>3. Weight(p) = Idf[Len(memories)][Count(p)]
    BY <1>3 DEF Weight
  <2> QED
    BY <1>3, <2>2, <2>3, CountIs
<1> QED
  BY <1>2, <1>3

\* The rarer weighs more.
LEMMA RarerWeighsMore ==
    ASSUME MemoriesTyped, NEW p, NEW d, \A i \in Ids : Has(i, p) => Has(i, d),
           NEW i \in Ids, Has(i, p), NEW j \in Ids, Has(j, d), ~Has(j, p)
    PROVE  Weight(p) > Weight(d)
<1>1. Having(p) \in SUBSET (Having(d) \ {j}) /\ j \in Having(d)
  BY DEF Having
<1>2. /\ IsFiniteSet(Having(d)) /\ Count(d) = Cardinality(Having(d))
      /\ Count(p) = Cardinality(Having(p)) /\ Count(p) # 0
      /\ Count(p) \in Nat /\ Count(d) \in Nat /\ Count(d) <= Len(memories)
  BY CountIs
<1>3. IsFiniteSet(Having(d) \ {j}) /\ Cardinality(Having(d) \ {j}) = Count(d) - 1
  BY <1>1, <1>2, FS_RemoveElement
<1>4. Count(p) <= Count(d) - 1
  BY <1>1, <1>2, <1>3, FS_Subset
<1>5. Len(memories) \in Nat /\ Len(memories) <= MaxMemories /\ MaxMemories \in Nat
  BY IdsAre, SearchAssumption DEF MemoriesTyped
<1>6. Len(memories) \in 1 .. MaxMemories /\ Count(p) \in 1 .. Len(memories)
      /\ Count(d) \in 1 .. Len(memories) /\ Count(p) < Count(d) /\ Count(d) # 0
  BY <1>2, <1>4, <1>5
<1>7. Idf[Len(memories)][Count(p)] > Idf[Len(memories)][Count(d)]
  BY <1>6, SearchAssumption
<1> QED
  BY <1>2, <1>6, <1>7 DEF Weight

LEMMA FallbackIs ==
    ASSUME MemoriesTyped, NEW k \in Pattern
    PROVE  /\ Fallback(k) \in Pattern
           /\ \A i \in Ids : Has(i, k) => Has(i, Fallback(k))
<1> DEFINE known == {n \in DOMAIN PrefixesOf[k] : Count(PrefixesOf[k][n]) > 0}
<1>1. CASE known = {}
  BY <1>1 DEF Fallback
<1>2. CASE known # {}
  <2>1. PrefixesOf[k] \in Seq(Pattern)
    BY SearchAssumption
  <2>2. known \in SUBSET DOMAIN PrefixesOf[k] /\ known \in SUBSET Int
        /\ IsFiniteSet(DOMAIN PrefixesOf[k])
    <3>1. Len(PrefixesOf[k]) \in Nat /\ DOMAIN PrefixesOf[k] = 1 .. Len(PrefixesOf[k])
      BY <2>1
    <3> QED
      BY <3>1, FS_Interval
  <2>3. \E n \in known : \A m \in known : n <= m
    <3> HIDE DEF known
    <3> QED
      BY <1>2, <2>2, FS_Subset, HasFirst
  <2>4. Min(known) \in known
    <3> HIDE DEF known
    <3> QED
      BY <2>3 DEF Min
  <2>5. Fallback(k) = PrefixesOf[k][Min(known)]
    BY <1>2 DEF Fallback
  <2>6. Min(known) \in DOMAIN PrefixesOf[k]
    BY <2>4
  <2> HIDE DEF known
  <2>7. Fallback(k) \in Pattern
    BY <2>1, <2>5, <2>6
  <2>8. \A i \in Ids : memories[i] \in Shape
    BY IdsAre
  <2>9. \A i \in Ids : Has(i, k) => Has(i, Fallback(k))
    BY <2>5, <2>6, <2>8, SearchAssumption DEF Has
  <2> QED
    BY <2>7, <2>9
<1> QED
  BY <1>1, <1>2

LEMMA KeywordScoreIs ==
    ASSUME MemoriesTyped, NEW k \in Pattern, NEW i \in Ids
    PROVE  /\ KeywordScore(i, k) \in Nat
           /\ KeywordScore(i, k) > 0 <=> Has(i, k) \/ Has(i, Fallback(k))
<1>1. /\ Weight(k) \in Nat /\ Weight(Fallback(k)) \in Nat
      /\ Has(i, k) => Weight(k) > 0
      /\ Has(i, Fallback(k)) => Weight(Fallback(k)) > 0
  BY WeightIs
<1> QED
  BY <1>1 DEF KeywordScore

LEMMA KeywordScoresMore ==
    ASSUME MemoriesTyped, NEW k \in Pattern, NEW i \in Ids, NEW j \in Ids,
           Has(j, k) => Has(i, k), Has(j, Fallback(k)) => Has(i, Fallback(k))
    PROVE  /\ KeywordScore(i, k) >= KeywordScore(j, k)
           /\ (Has(i, k) /\ ~Has(j, k)) \/ (Has(i, Fallback(k)) /\ ~Has(j, Fallback(k)))
              => KeywordScore(i, k) > KeywordScore(j, k)
<1>1. /\ KeywordScore(i, k) \in Nat /\ KeywordScore(j, k) \in Nat
      /\ KeywordScore(i, k) > 0 <=> Has(i, k) \/ Has(i, Fallback(k))
      /\ KeywordScore(j, k) > 0 <=> Has(j, k) \/ Has(j, Fallback(k))
  BY KeywordScoreIs
<1>2. /\ Has(j, k) => Has(j, Fallback(k))
      /\ Has(i, k) => Has(i, Fallback(k))
  BY FallbackIs
<1>3. CASE Has(j, k)
  <2>1. KeywordScore(i, k) = KeywordScore(j, k)
    BY <1>3 DEF KeywordScore
  <2> QED
    BY <1>1, <1>2, <1>3, <2>1
<1>4. CASE ~Has(j, k) /\ Has(j, Fallback(k)) /\ Has(i, k)
  <2>1. Weight(k) > Weight(Fallback(k))
    BY <1>4, FallbackIs, RarerWeighsMore
  <2> QED
    BY <1>1, <1>4, <2>1 DEF KeywordScore
<1>5. CASE ~Has(j, k) /\ Has(j, Fallback(k)) /\ ~Has(i, k)
  <2>1. KeywordScore(i, k) = KeywordScore(j, k)
    BY <1>5 DEF KeywordScore
  <2> QED
    BY <1>1, <1>5, <2>1
<1>6. CASE ~Has(j, k) /\ ~Has(j, Fallback(k))
  BY <1>1, <1>6
<1> QED
  BY <1>3, <1>4, <1>5, <1>6

Times(n) == IF n = 1 THEN 2 ELSE 1

Summed(sum, n, i, query) == sum + Times(n) * KeywordScore(i, query[n])

\* The sums of the scores of the keywords up to each.
SumsTo(u, i, query) ==
    /\ u[0] = 0
    /\ \A n \in 1 .. Len(query) : u[n] = u[n - 1] + Times(n) * KeywordScore(i, query[n])
    /\ Score(i, query) = u[Len(query)]

LEMMA ScoreIs ==
    ASSUME NEW query \in Seq(Pattern), NEW i
    PROVE  \E u : SumsTo(u, i, query)
<1> DEFINE Following(f, n) ==
             IF n = 0 THEN 0 ELSE Summed(f[n - 1], n, i, query)
           Works(f, m) == f = [n \in 0 .. m |-> Following(f, n)]
           S == {m \in Nat : \E f : Works(f, m)}
<1>0. Len(query) \in Nat
  OBVIOUS
<1>1. 0 \in S
  <2>1. Works([n \in 0 .. 0 |-> 0], 0)
    OBVIOUS
  <2> QED
    BY <2>1
<1>2. ASSUME NEW m \in Nat, m \in S PROVE m + 1 \in S
  <2>1. PICK f : Works(f, m)
    BY <1>2
  <2> DEFINE g == [n \in 0 .. m + 1 |->
                    IF n = m + 1 THEN Summed(f[m], m + 1, i, query) ELSE f[n]]
  <2>2. \A n \in 0 .. m : g[n] = f[n] /\ f[n] = Following(f, n)
    BY <2>1
  <2>3. \A n \in 0 .. m : n # 0 => n - 1 \in 0 .. m
    OBVIOUS
  <2>4. ASSUME NEW n \in 0 .. m PROVE g[n] = Following(g, n)
    <3> HIDE DEF g, Following
    <3>1. g[n] = Following(f, n)
      BY <2>2
    <3>2. n # 0 => g[n - 1] = f[n - 1]
      BY <2>2, <2>3
    <3> QED
      BY <3>1, <3>2 DEF Following
  <2>5. g[m + 1] = Following(g, m + 1)
    <3>1. m + 1 \in 0 .. m + 1 /\ m + 1 # 0 /\ m + 1 - 1 = m /\ m \in 0 .. m
      OBVIOUS
    <3>2. g[m + 1] = Summed(f[m], m + 1, i, query)
      BY <3>1
    <3>3. g[m] = f[m]
      BY <2>2, <3>1
    <3> HIDE DEF g
    <3> QED
      BY <3>1, <3>2, <3>3
  <2> HIDE DEF Following, g
  <2>6. \A n \in 0 .. m + 1 : g[n] = Following(g, n)
    <3>1. \A n \in 0 .. m + 1 : n \in 0 .. m \/ n = m + 1
      OBVIOUS
    <3> QED
      BY <2>4, <2>5, <3>1
  <2> USE DEF g
  <2>7. Works(g, m + 1)
    BY <2>6
  <2>8. m + 1 \in Nat
    OBVIOUS
  <2> HIDE DEF Works
  <2> QED
    BY <2>7, <2>8
<1>3. Len(query) \in S
  <2>1. \A m \in Nat : m < Len(query) /\ m \in S => m + 1 \in S
    BY <1>2
  <2>2. Len(query) \in 0 .. Len(query)
    BY <1>0
  <2> HIDE DEF S
  <2> QED
    BY <1>0, <1>1, <2>1, <2>2, Reaching
<1>4. \E f : Works(f, Len(query))
  BY <1>3
<1> DEFINE upto == CHOOSE f : Works(f, Len(query))
<1>5. Works(upto, Len(query))
  BY <1>4, Zenon
<1>6. Score(i, query) = upto[Len(query)]
  BY Zenon DEF Score, Times, Summed
<1> HIDE DEF upto
<1>7. \A n \in 0 .. Len(query) : upto[n] = Following(upto, n)
  <2> HIDE DEF Following
  <2> QED
    BY <1>5
<1>8. SumsTo(upto, i, query)
  <2>1. upto[0] = 0
    BY <1>0, <1>7
  <2>2. \A n \in 1 .. Len(query) : n \in 0 .. Len(query) /\ n # 0
    BY <1>0
  <2>3. \A n \in 1 .. Len(query) : upto[n] = Following(upto, n) /\ n # 0
    <3> HIDE DEF Following
    <3> QED
      BY <1>7, <2>2
  <2>4. \A n \in 1 .. Len(query) : upto[n] = upto[n - 1] + Times(n) * KeywordScore(i, query[n])
    BY <2>3, Zenon DEF Summed
  <2> QED
    BY <1>6, <2>1, <2>4 DEF SumsTo
<1> QED
  BY <1>8

LEMMA TimesMore ==
    ASSUME NEW n, NEW a \in Nat, NEW b \in Nat
    PROVE  /\ Times(n) * a \in Nat
           /\ a > 0 <=> Times(n) * a > 0
           /\ a >= b => Times(n) * a >= Times(n) * b
           /\ a > b => Times(n) * a > Times(n) * b
BY DEF Times

LEMMA ScoreOfSome ==
    ASSUME MemoriesTyped, NEW query \in Seq(Pattern), NEW i \in Ids
    PROVE  /\ Score(i, query) \in Nat
           /\ Score(i, query) > 0 <=>
                \E n \in DOMAIN query : Has(i, query[n]) \/ Has(i, Fallback(query[n]))
<1> DEFINE K(n) == KeywordScore(i, query[n])
<1>1. PICK u : SumsTo(u, i, query)
  BY ScoreIs
<1>2. Len(query) \in Nat /\ DOMAIN query = 1 .. Len(query)
  OBVIOUS
<1>3. \A n \in 1 .. Len(query) : K(n) \in Nat
  BY KeywordScoreIs
<1>4. \A n \in 1 .. Len(query) : K(n) > 0 <=> Has(i, query[n]) \/ Has(i, Fallback(query[n]))
  BY KeywordScoreIs
<1>5. u[0] = 0 /\ \A n \in 1 .. Len(query) : u[n] = u[n - 1] + Times(n) * K(n)
  BY <1>1 DEF SumsTo
<1> HIDE DEF K
<1> DEFINE S == {n \in Nat : u[n] \in Nat /\ (u[n] > 0 <=> \E m \in 1 .. n : K(m) > 0)}
<1>6. 0 \in S
  BY <1>5
<1>7. ASSUME NEW n \in Nat, n < Len(query), n \in S PROVE n + 1 \in S
  <2>1. n + 1 \in 1 .. Len(query) /\ n + 1 - 1 = n
    BY <1>2, <1>7
  <2>2. K(n + 1) \in Nat /\ u[n] \in Nat /\ (u[n] > 0 <=> \E m \in 1 .. n : K(m) > 0)
    BY <1>3, <1>7, <2>1
  <2>3. /\ Times(n + 1) * K(n + 1) \in Nat
        /\ K(n + 1) > 0 <=> Times(n + 1) * K(n + 1) > 0
    BY <2>2, TimesMore
  <2>4. u[n + 1] = u[n] + Times(n + 1) * K(n + 1)
    BY <1>5, <2>1
  <2> DEFINE more == Times(n + 1) * K(n + 1)
  <2> HIDE DEF more
  <2>5. u[n + 1] = u[n] + more /\ more \in Nat /\ (K(n + 1) > 0 <=> more > 0)
    BY <2>3, <2>4 DEF more
  <2>6. (\E m \in 1 .. n + 1 : K(m) > 0) <=> (\E m \in 1 .. n : K(m) > 0) \/ K(n + 1) > 0
    <3>1. \A m : m \in 1 .. n + 1 <=> m \in 1 .. n \/ m = n + 1
      OBVIOUS
    <3> QED
      BY <3>1, Zenon
  <2> QED
    BY <2>2, <2>5, <2>6
<1>8. Len(query) \in S
  <2>1. Len(query) \in 0 .. Len(query)
    BY <1>2
  <2> HIDE DEF S
  <2> QED
    BY <1>2, <1>6, <1>7, <2>1, Reaching
<1>9. Score(i, query) = u[Len(query)]
  BY <1>1 DEF SumsTo
<1> QED
  BY <1>2, <1>4, <1>8, <1>9

LEMMA ScoresMore ==
    ASSUME MemoriesTyped, NEW query \in Seq(Pattern), NEW i \in Ids, NEW j \in Ids,
           \A n \in DOMAIN query : KeywordScore(i, query[n]) >= KeywordScore(j, query[n])
    PROVE  /\ Score(i, query) >= Score(j, query)
           /\ (\E n \in DOMAIN query : KeywordScore(i, query[n]) > KeywordScore(j, query[n]))
              => Score(i, query) > Score(j, query)
<1> DEFINE K(n) == KeywordScore(i, query[n])
           L(n) == KeywordScore(j, query[n])
<1>1. PICK u : SumsTo(u, i, query)
  BY ScoreIs
<1>2. PICK v : SumsTo(v, j, query)
  BY ScoreIs
<1>3. Len(query) \in Nat /\ DOMAIN query = 1 .. Len(query)
  OBVIOUS
<1>4. \A n \in 1 .. Len(query) : K(n) \in Nat /\ L(n) \in Nat
  BY KeywordScoreIs
<1>5. \A n \in 1 .. Len(query) : K(n) >= L(n)
  BY <1>3
<1>6. u[0] = 0 /\ \A n \in 1 .. Len(query) : u[n] = u[n - 1] + Times(n) * K(n)
  BY <1>1 DEF SumsTo
<1>7. v[0] = 0 /\ \A n \in 1 .. Len(query) : v[n] = v[n - 1] + Times(n) * L(n)
  BY <1>2 DEF SumsTo
<1> DEFINE more == \E n \in 1 .. Len(query) : K(n) > L(n)
<1>8. more <=> \E n \in DOMAIN query : KeywordScore(i, query[n]) > KeywordScore(j, query[n])
  BY <1>3
<1> HIDE DEF K, L
<1> DEFINE S == {n \in Nat : /\ u[n] \in Nat /\ v[n] \in Nat /\ u[n] >= v[n]
                             /\ (\E m \in 1 .. n : K(m) > L(m)) => u[n] > v[n]}
<1>9. 0 \in S
  BY <1>6, <1>7
<1>10. ASSUME NEW n \in Nat, n < Len(query), n \in S PROVE n + 1 \in S
  <2>1. n + 1 \in 1 .. Len(query) /\ n + 1 - 1 = n
    BY <1>3, <1>10
  <2>2. K(n + 1) \in Nat /\ L(n + 1) \in Nat /\ K(n + 1) >= L(n + 1)
    BY <1>4, <1>5, <2>1
  <2> DEFINE a == Times(n + 1) * K(n + 1)
             b == Times(n + 1) * L(n + 1)
  <2>3. a \in Nat /\ b \in Nat /\ a >= b /\ (K(n + 1) > L(n + 1) => a > b)
    BY <2>2, TimesMore
  <2>4. u[n + 1] = u[n] + a /\ v[n + 1] = v[n] + b
    BY <1>6, <1>7, <2>1
  <2> HIDE DEF a, b
  <2>5. (\E m \in 1 .. n + 1 : K(m) > L(m))
        => (\E m \in 1 .. n : K(m) > L(m)) \/ K(n + 1) > L(n + 1)
    <3>1. \A m : m \in 1 .. n + 1 <=> m \in 1 .. n \/ m = n + 1
      OBVIOUS
    <3> QED
      BY <3>1, Zenon
  <2>6. /\ u[n] \in Nat /\ v[n] \in Nat /\ u[n] >= v[n]
        /\ (\E m \in 1 .. n : K(m) > L(m)) => u[n] > v[n]
    BY <1>10
  <2>7. u[n + 1] \in Nat /\ v[n + 1] \in Nat /\ u[n + 1] >= v[n + 1]
    BY <2>3, <2>4, <2>6
  <2>8. (\E m \in 1 .. n : K(m) > L(m)) \/ K(n + 1) > L(n + 1) => u[n + 1] > v[n + 1]
    BY <2>3, <2>4, <2>6
  <2>9. (\E m \in 1 .. n + 1 : K(m) > L(m)) => u[n + 1] > v[n + 1]
    BY <2>5, <2>8
  <2>10. n + 1 \in Nat
    OBVIOUS
  <2> QED
    BY <2>7, <2>9, <2>10
<1>11. Len(query) \in S
  <2>1. Len(query) \in 0 .. Len(query)
    BY <1>3
  <2> HIDE DEF S
  <2> QED
    BY <1>3, <1>9, <1>10, <2>1, Reaching
<1>12. Score(i, query) = u[Len(query)] /\ Score(j, query) = v[Len(query)]
  BY <1>1, <1>2 DEF SumsTo
<1> HIDE DEF more
<1>13. u[Len(query)] >= v[Len(query)] /\ (more => u[Len(query)] > v[Len(query)])
  BY <1>11 DEF more
<1> QED
  BY <1>8, <1>12, <1>13

-----------------------------------------------------------------------------
(* Search: what each of the searches finds, and in which order *)

\* What a search finds are memories, each once, and the right ones in the right order.
FoundRight(by, q, f, found) ==
    found \in Seq(Ids) /\ IsInjective(found) /\ Finds(by, q, f, found) /\ Ranks(by, q, f, found)

LEMMA ContainsIs ==
    ASSUME NEW is, NEW list \in Seq(is), NEW i
    PROVE  Contains(list, i) <=> i \in ToSet(list)
<1>1. DOMAIN list = 1 .. Len(list)
  OBVIOUS
<1> QED
  BY <1>1 DEF Contains, ToSet

LEMMA RankedIs ==
    ASSUME MemoriesTyped, NEW query \in Seq(Pattern), NEW is \in SUBSET Ids
    PROVE  SortedBy(Ranked(is, query), is, [i \in is |-> Score(i, query)], TRUE)
<1> DEFINE score == [i \in is |-> Score(i, query)]
<1>1. is \in SUBSET Int /\ IsFiniteSet(is)
  BY SomeIds
<1>2. \A i \in is : score[i] \in Int
  BY ScoreOfSome
<1>3. Ranked(is, query) = Sorted(is, score, TRUE)
  BY DEF Ranked
<1> HIDE DEF score
<1>4. SortedBy(Sorted(is, score, TRUE), is, score, TRUE)
  BY <1>1, <1>2, SortedIs
<1> QED
  BY <1>3, <1>4 DEF score

\* What has a keyword, or but the prefix for it, and passes the filters that are looked at.
Likely(i, query, f) ==
    /\ \E n \in DOMAIN query : Has(i, query[n]) \/ Has(i, Fallback(query[n]))
    /\ f.phase \in {"", memories[i].phase}
    /\ memories[i].source \notin f.exclude
    /\ HasTags(i, f)

LEMMA FoundLikeIs ==
    ASSUME MemoriesTyped, NEW query \in Seq(Pattern), NEW f
    PROVE  /\ FoundLike(query, f) \in SUBSET Ids
           /\ \A i \in Ids : i \in FoundLike(query, f) <=> Likely(i, query, f)
<1>1. \A i \in Ids : Score(i, query) > 0 <=>
        \E n \in DOMAIN query : Has(i, query[n]) \/ Has(i, Fallback(query[n]))
  BY ScoreOfSome
<1>2. FoundLike(query, f) \in SUBSET Ids
  BY Zenon DEF FoundLike, filterSearch
<1>3. \A i \in Ids : i \in FoundLike(query, f) <=>
        /\ \E n \in DOMAIN query : Has(i, query[n]) \/ Has(i, Fallback(query[n]))
        /\ f.phase # "" => memories[i].phase = f.phase
        /\ memories[i].source \notin f.exclude
        /\ Score(i, query) > 0
        /\ HasTags(i, f)
  BY Zenon DEF FoundLike, filterSearch
<1>4. \A i \in Ids : (f.phase # "" => memories[i].phase = f.phase)
                     <=> f.phase \in {"", memories[i].phase}
  BY Zenon
<1> QED
  BY <1>1, <1>2, <1>3, <1>4, Zenon DEF Likely

LEMMA SearchLikeIs ==
    ASSUME MemoriesTyped, NEW query \in Seq(Pattern), NEW f
    PROVE  /\ SearchLike(query, f) \in Seq(Ids) /\ IsInjective(SearchLike(query, f))
           /\ ToSet(SearchLike(query, f)) = FoundLike(query, f)
           /\ Len(SearchLike(query, f)) <= Len(memories)
           /\ \A m, n \in DOMAIN SearchLike(query, f) :
                LET i == SearchLike(query, f)[m]
                    j == SearchLike(query, f)[n]
                IN  Score(i, query) > Score(j, query)
                    \/ (Score(i, query) = Score(j, query) /\ i > j) => m < n
<1> DEFINE is == FoundLike(query, f)
           list == SearchLike(query, f)
           score == [i \in is |-> Score(i, query)]
<1>1. is \in SUBSET Ids
  BY FoundLikeIs
<1>2. list = Ranked(is, query)
  BY DEF SearchLike
<1> HIDE DEF is, list
<1>3. SortedBy(list, is, score, TRUE)
  BY <1>1, <1>2, RankedIs
<1>4. list \in Seq(is) /\ IsInjective(list) /\ ToSet(list) = is /\ Len(list) = Cardinality(is)
  BY <1>3 DEF SortedBy
<1>5. Len(list) <= Len(memories) /\ list \in Seq(Ids)
  BY <1>1, <1>4, SomeIds
<1>6. \A m, n \in DOMAIN list : Earlier(list[m], list[n], score, TRUE) => m < n
  BY <1>3 DEF SortedBy
<1>7. \A m \in DOMAIN list : score[list[m]] = Score(list[m], query)
  BY <1>4
<1>8. \A m, n \in DOMAIN list :
        Score(list[m], query) > Score(list[n], query)
        \/ (Score(list[m], query) = Score(list[n], query) /\ list[m] > list[n]) => m < n
  <2> HIDE DEF score
  <2> QED
    BY <1>6, <1>7 DEF Earlier
<1> HIDE DEF score
<1> QED
  BY <1>4, <1>5, <1>8 DEF list, is

Passes(i, f) ==
    f.phase \in {"", memories[i].phase} /\ HasTags(i, f) /\ memories[i].source \notin f.exclude

\* A list of all that is likely, and of nothing that the filters leave out, is what any search
\* may give.
LEMMA LikelyIsRight ==
    ASSUME MemoriesTyped, NEW q \in Seq(Pattern), NEW f, NEW by,
           NEW found \in Seq(Ids), FoundLike(q, f) \subseteq ToSet(found),
           \A i \in ToSet(found) : Passes(i, f)
    PROVE  Finds(by, q, f, found)
<1>1. \A i : i \in FoundLike(q, f) => Contains(found, i)
  BY ContainsIs
<1>2. \A i \in Ids : Likely(i, q, f) => i \in FoundLike(q, f)
  BY FoundLikeIs
<1>3. ASSUME NEW i \in Ids,
             /\ \E n \in DOMAIN q :
                  Has(i, q[n]) \/ (by \in {"like", "expansion"} /\ Has(i, Fallback(q[n])))
             /\ f.phase \in {"", memories[i].phase}
             /\ HasTags(i, f) /\ memories[i].source \notin f.exclude
      PROVE  Contains(found, i)
  BY <1>1, <1>2, <1>3, Zenon DEF Likely
<1> QED
  BY <1>3, Zenon DEF Finds, Passes

LEMMA LikelyPasses ==
    ASSUME MemoriesTyped, NEW q \in Seq(Pattern), NEW f
    PROVE  \A i \in FoundLike(q, f) : i \in Ids /\ Passes(i, f)
BY FoundLikeIs, Zenon DEF Likely, Passes

AskedFor(q) == ToSet(q) \cup {Fallback(q[n]) : n \in DOMAIN q}

LEMMA LikeRight ==
    ASSUME MemoriesTyped, NEW q \in Seq(Pattern), NEW f
    PROVE  FoundRight("like", q, f, SearchLike(q, f))
<1> DEFINE found == SearchLike(q, f)
           Told(i) == memories[i].has \cap AskedFor(q)
<1>1. /\ found \in Seq(Ids) /\ IsInjective(found) /\ ToSet(found) = FoundLike(q, f)
      /\ \A m, n \in DOMAIN found :
           Score(found[m], q) > Score(found[n], q)
           \/ (Score(found[m], q) = Score(found[n], q) /\ found[m] > found[n]) => m < n
  BY SearchLikeIs
<1>2. Finds("like", q, f, found)
  BY <1>1, LikelyIsRight, LikelyPasses
<1>3. ASSUME NEW i \in Ids, NEW j \in Ids, Told(j) \subseteq Told(i), i > j \/ Told(i) # Told(j)
      PROVE  Score(i, q) > Score(j, q) \/ (Score(i, q) = Score(j, q) /\ i > j)
  <2>1. \A n \in DOMAIN q : q[n] \in AskedFor(q) /\ Fallback(q[n]) \in AskedFor(q) /\ q[n] \in Pattern
    BY DEF AskedFor, ToSet
  <2>2. \A n \in DOMAIN q : /\ Has(j, q[n]) => Has(i, q[n])
                            /\ Has(j, Fallback(q[n])) => Has(i, Fallback(q[n]))
    BY <1>3, <2>1 DEF Has
  <2>3. \A n \in DOMAIN q : KeywordScore(i, q[n]) >= KeywordScore(j, q[n])
    BY <2>1, <2>2, KeywordScoresMore
  <2>4. Score(i, q) \in Nat /\ Score(j, q) \in Nat /\ Score(i, q) >= Score(j, q)
    BY <2>3, ScoresMore, ScoreOfSome
  <2>5. CASE Told(i) # Told(j)
    <3>1. PICK p \in AskedFor(q) : Has(i, p) /\ ~Has(j, p)
      BY <1>3, <2>5 DEF Has
    <3>2. PICK n \in DOMAIN q : p = q[n] \/ p = Fallback(q[n])
      BY DEF AskedFor, ToSet
    <3>3. KeywordScore(i, q[n]) > KeywordScore(j, q[n])
      BY <2>1, <2>2, <3>1, <3>2, KeywordScoresMore
    <3>4. Score(i, q) > Score(j, q)
      BY <2>3, <3>3, ScoresMore
    <3> QED
      BY <3>4
  <2>6. CASE i > j
    BY <2>4, <2>6
  <2> QED
    BY <1>3, <2>5, <2>6
<1>4. \A m \in DOMAIN found : found[m] \in Ids
  BY <1>1
<1> DEFINE Leads(i, j) == Told(j) \subseteq Told(i) /\ (i > j \/ Told(i) # Told(j))
<1>5. \A m, n \in DOMAIN found : Leads(found[m], found[n]) => m < n
  BY <1>1, <1>3, <1>4
<1>6. Ranks("like", q, f, found)
  <2> HIDE DEF found
  <2> QED
    BY <1>5, Zenon DEF Ranks, AskedFor
<1> QED
  BY <1>1, <1>2, <1>6 DEF FoundRight

LEMMA AnyOrderIs ==
    ASSUME MemoriesTyped, NEW is \in SUBSET Ids, NEW score, \A i \in is : score[i] \in Int,
           NEW list \in AnyOrder(is, score)
    PROVE  /\ list \in Seq(Ids) /\ IsInjective(list) /\ ToSet(list) = is
           /\ Len(list) <= Len(memories)
           /\ \A m, n \in DOMAIN list : list[m] \in is /\ score[list[m]] \in Int
           /\ \A m, n \in DOMAIN list : score[list[m]] > score[list[n]] => m < n
<1>1. is \in SUBSET Int /\ IsFiniteSet(is) /\ Cardinality(is) <= Len(memories)
  BY SomeIds
<1>2. PICK newest \in BOOLEAN : list = Sorted(is, score, newest)
  BY DEF AnyOrder
<1>3. SortedBy(list, is, score, newest)
  BY <1>1, <1>2, SortedIs
<1>4. list \in Seq(is) /\ IsInjective(list) /\ ToSet(list) = is /\ Len(list) = Cardinality(is)
  BY <1>3 DEF SortedBy
<1>5. \A m, n \in DOMAIN list : score[list[m]] > score[list[n]] => m < n
  BY <1>3 DEF SortedBy, Earlier
<1>6. \A m \in DOMAIN list : list[m] \in is
  BY <1>4
<1>7. list \in Seq(Ids)
  <2>1. Len(list) \in Nat /\ DOMAIN list = 1 .. Len(list) /\ list = [n \in 1 .. Len(list) |-> list[n]]
    BY <1>4
  <2>2. \A n \in 1 .. Len(list) : list[n] \in Ids
    BY <1>6, <2>1
  <2> QED
    BY <2>1, <2>2
<1>8. Len(list) <= Len(memories)
  BY <1>1, <1>4
<1> QED
  BY <1>4, <1>5, <1>6, <1>7, <1>8

LEMMA NewestFirstIs ==
    ASSUME MemoriesTyped, NEW is \in SUBSET Ids
    PROVE  /\ NewestFirst(is) \in Seq(Ids) /\ IsInjective(NewestFirst(is))
           /\ ToSet(NewestFirst(is)) = is
<1> DEFINE score == [i \in is |-> 0]
<1>1. \A i \in is : score[i] \in Int
  OBVIOUS
<1>2. NewestFirst(is) \in AnyOrder(is, score)
  BY DEF NewestFirst, AnyOrder
<1> HIDE DEF score
<1> QED
  BY <1>1, <1>2, AnyOrderIs

LEMMA OldestFirstIs ==
    ASSUME MemoriesTyped, NEW is \in SUBSET Ids
    PROVE  /\ OldestFirst(is) \in Seq(Ids) /\ IsInjective(OldestFirst(is))
           /\ ToSet(OldestFirst(is)) = is
<1> DEFINE score == [i \in is |-> 0]
<1>1. \A i \in is : score[i] \in Int
  OBVIOUS
<1>2. OldestFirst(is) \in AnyOrder(is, score)
  BY DEF OldestFirst, AnyOrder
<1> HIDE DEF score
<1> QED
  BY <1>1, <1>2, AnyOrderIs

\* No text has a quotation mark.
LEMMA MatchSyntaxFindsNothing ==
    ASSUME MemoriesTyped, NEW q \in Seq(Pattern), NEW f
    PROVE  /\ SearchLike(InMatchSyntax(q), f) \in Seq(Ids)
           /\ SearchLike(InMatchSyntax(q), f) = <<>>
<1> DEFINE r == InMatchSyntax(q)
<1>1. r \in Seq(Pattern) /\ \A n \in DOMAIN r : r[n] = Quoted
  <2>1. Quoted \in Pattern
    BY SearchAssumption
  <2>2. DOMAIN q = 1 .. Len(q) /\ Len(q) \in Nat
    OBVIOUS
  <2> QED
    BY <2>1, <2>2 DEF InMatchSyntax
<1>2. Fallback(Quoted) = Quoted
  <2>1. PrefixesOf[Quoted] = <<>>
    BY SearchAssumption
  <2> DEFINE known == {n \in DOMAIN PrefixesOf[Quoted] : Count(PrefixesOf[Quoted][n]) > 0}
  <2>2. known = {}
    BY <2>1
  <2> QED
    BY <2>2 DEF Fallback
<1>3. \A i \in Ids : ~Has(i, Quoted)
  BY IdsAre, SearchAssumption DEF Has
<1> HIDE DEF r
<1>4. FoundLike(r, f) = {}
  <2>1. \A i \in Ids : ~Likely(i, r, f)
    BY <1>1, <1>2, <1>3, Zenon DEF Likely
  <2> QED
    BY <1>1, <2>1, FoundLikeIs
<1>5. SearchLike(r, f) \in Seq(Ids) /\ ToSet(SearchLike(r, f)) = {}
  BY <1>1, <1>4, SearchLikeIs
<1>6. SearchLike(r, f) = <<>>
  <2> DEFINE list == SearchLike(r, f)
  <2>1. list \in Seq(Ids) /\ \A n \in DOMAIN list : FALSE
    BY <1>5 DEF ToSet
  <2> HIDE DEF list
  <2>2. DOMAIN list = 1 .. Len(list) /\ Len(list) \in Nat
    BY <2>1
  <2>3. Len(list) = 0
    <3>1. Len(list) # 0 => 1 \in DOMAIN list
      BY <2>2
    <3> QED
      BY <2>1, <3>1
  <2>4. list = <<>>
    BY <2>1, <2>3
  <2> QED
    BY <2>4 DEF list
<1> QED
  BY <1>5, <1>6 DEF r

Kept(q, f) == filterSearch(Matches(q, f), f)

LEMMA IndexIs ==
    ASSUME MemoriesTyped, NEW q \in Seq(Pattern), NEW f, NEW ranked \in BOOLEAN,
           NEW found \in searchFTS(q, f, ranked)
    PROVE  /\ found \in Seq(Ids) /\ IsInjective(found) /\ ToSet(found) = Kept(q, f)
           /\ Len(found) <= Len(memories)
<1> DEFINE hits == Matches(q, f)
           kept == filterSearch(hits, f)
           score == [i \in kept |-> 0]
<1>1. kept \in SUBSET Ids
  BY Zenon DEF filterSearch, Matches
<1>2. \A i \in kept : score[i] \in Int
  OBVIOUS
<1>3. CASE hits = {}
  <2>1. found = <<>>
    BY <1>3, MatchSyntaxFindsNothing DEF searchFTS
  <2>2. kept = {}
    BY <1>3 DEF filterSearch
  <2>3. Len(<<>>) <= Len(memories) /\ ToSet(<<>>) = {} /\ IsInjective(<<>>) /\ <<>> \in Seq(Ids)
    BY IdsAre DEF ToSet, IsInjective
  <2> QED
    BY <2>1, <2>2, <2>3 DEF Kept
<1>4. CASE hits # {}
  <2>1. found \in AnyOrder(kept, score)
    <3>1. CASE ranked
      BY <1>4, <3>1 DEF searchFTS
    <3>2. CASE ~ranked
      BY <1>4, <3>2 DEF searchFTS, NewestFirst, AnyOrder
    <3> QED
      BY <3>1, <3>2
  <2> HIDE DEF score, kept
  <2>2. found \in Seq(Ids) /\ IsInjective(found) /\ ToSet(found) = kept
        /\ Len(found) <= Len(memories)
    BY <1>1, <1>2, <2>1, AnyOrderIs
  <2> QED
    BY <2>2 DEF kept, Kept
<1> QED
  BY <1>3, <1>4

\* By the index: all that match, and nothing that the filters leave out.
LEMMA KeptIs ==
    ASSUME NEW q, NEW f
    PROVE  \A i : i \in Kept(q, f) <=>
             /\ i \in Ids /\ \E n \in DOMAIN q : Has(i, q[n])
             /\ f.phase \in {"", memories[i].phase} /\ f.project \in {"", memories[i].project}
             /\ HasTags(i, f)
BY Zenon DEF Kept, filterSearch, Matches

LEMMA KeptIsRight ==
    ASSUME MemoriesTyped, NEW q \in Seq(Pattern), NEW f, NEW by \in {"idf", "bm25", "hybrid", "smart"},
           NEW found \in Seq(Ids), Kept(q, f) \subseteq ToSet(found),
           \A i \in ToSet(found) : f.phase \in {"", memories[i].phase} /\ HasTags(i, f)
    PROVE  Finds(by, q, f, found)
<1>1. \A i : Contains(found, i) <=> i \in ToSet(found)
  BY ContainsIs, Zenon
<1>2. by \notin {"like", "expansion"}
  BY Zenon
<1>3. ASSUME NEW i \in Ids,
             /\ \E n \in DOMAIN q : Has(i, q[n])
             /\ f.phase \in {"", memories[i].phase} /\ f.project \in {"", memories[i].project}
             /\ HasTags(i, f)
      PROVE  Contains(found, i)
  <2>1. i \in Kept(q, f)
    BY <1>3, KeptIs, Zenon
  <2> QED
    BY <1>1, <2>1, Zenon
<1> QED
  BY <1>2, <1>3, Zenon DEF Finds

LEMMA RankScoreIs ==
    ASSUME NEW rank \in Int, rank >= 1, rank <= 10
    PROVE  RankScore(rank) \in Nat /\ RankScore(rank) > 210000 /\ RankScore(rank) < 250000
<1>1. \/ rank = 1 \/ rank = 2 \/ rank = 3 \/ rank = 4 \/ rank = 5
      \/ rank = 6 \/ rank = 7 \/ rank = 8 \/ rank = 9 \/ rank = 10
  OBVIOUS
<1> QED
  BY <1>1 DEF RankScore

LEMMA RankInIs ==
    ASSUME NEW list \in Seq(Ids), Len(list) <= 10, NEW i
    PROVE  /\ RankIn(list, i) \in Nat /\ RankIn(list, i) < 250000
           /\ i \in ToSet(list) => RankIn(list, i) > 210000
           /\ i \notin ToSet(list) => RankIn(list, i) = 0
<1>1. CASE i \notin ToSet(list)
  BY <1>1 DEF RankIn
<1>2. CASE i \in ToSet(list)
  <2>0. PICK place : place = CHOOSE n \in DOMAIN list : list[n] = i
    OBVIOUS
  <2>1. \E n \in DOMAIN list : list[n] = i
    BY <1>2 DEF ToSet
  <2>2. place \in DOMAIN list
    BY <2>0, <2>1, Zenon
  <2>3. RankIn(list, i) = RankScore(place)
    BY <1>2, <2>0, Zenon DEF RankIn
  <2>4. place \in Int /\ place >= 1 /\ place <= 10
    BY <2>2
  <2>5. RankScore(place) \in Nat /\ RankScore(place) > 210000 /\ RankScore(place) < 250000
    BY <2>4, RankScoreIs
  <2> QED
    BY <1>2, <2>3, <2>5
<1> QED
  BY <1>1, <1>2

LEMMA HybridRight ==
    ASSUME MemoriesTyped, NEW q \in Seq(Pattern), NEW f, NEW found \in searchHybrid(q, f)
    PROVE  FoundRight("hybrid", q, f, found)
<1>1. PICK a \in searchFTS(q, f, TRUE) : found \in Fusions(a, SearchLike(q, f))
  BY DEF searchHybrid
<1> DEFINE b == SearchLike(q, f)
           all == ToSet(a) \cup ToSet(b)
           score == [i \in all |-> FusedScore(a, b, i)]
<1>2. a \in Seq(Ids) /\ ToSet(a) = Kept(q, f) /\ Len(a) <= 10
  <2>1. Len(memories) \in Nat /\ Len(memories) <= 10
    BY IdsAre
  <2>2. a \in Seq(Ids) /\ ToSet(a) = Kept(q, f) /\ Len(a) <= Len(memories)
    BY IndexIs
  <2> QED
    BY <2>1, <2>2
<1>3. b \in Seq(Ids) /\ ToSet(b) = FoundLike(q, f) /\ Len(b) <= 10
  <2>1. Len(memories) \in Nat /\ Len(memories) <= 10
    BY IdsAre
  <2>2. b \in Seq(Ids) /\ ToSet(b) = FoundLike(q, f) /\ Len(b) <= Len(memories)
    BY SearchLikeIs
  <2> QED
    BY <2>1, <2>2
<1>4. found \in AnyOrder(all, score)
  BY <1>1 DEF Fusions
<1>5. \A i \in Kept(q, f) : i \in Ids /\ f.phase \in {"", memories[i].phase} /\ HasTags(i, f)
                            /\ i \in Matches(q, f)
  BY Zenon DEF Kept, Matches, filterSearch
<1>6. \A i \in FoundLike(q, f) : i \in Ids /\ f.phase \in {"", memories[i].phase} /\ HasTags(i, f)
  BY FoundLikeIs, Zenon DEF Likely
<1> HIDE DEF b
<1>7. all \in SUBSET Ids
  BY <1>2, <1>3, <1>5, <1>6, Zenon
<1>8. \A i \in all : /\ score[i] = RankIn(a, i) + RankIn(b, i)
                     /\ RankIn(a, i) \in Nat /\ RankIn(b, i) \in Nat /\ score[i] \in Int
  BY <1>2, <1>3, RankInIs DEF FusedScore
<1> HIDE DEF score, all
<1>9. /\ found \in Seq(Ids) /\ IsInjective(found) /\ ToSet(found) = all
      /\ \A m, n \in DOMAIN found : found[m] \in all
      /\ \A m, n \in DOMAIN found : score[found[m]] > score[found[n]] => m < n
  BY <1>4, <1>7, <1>8, AnyOrderIs
<1>10. Finds("hybrid", q, f, found)
  BY <1>2, <1>3, <1>5, <1>6, <1>9, KeptIsRight, Zenon DEF all
<1> DEFINE both == Matches(q, f) \cap ToSet(b)
<1>11. ASSUME NEW i \in all, NEW j \in all, i \in both, j \notin both
       PROVE  score[i] > score[j]
  <2>1. i \in ToSet(a) /\ i \in ToSet(b)
    BY <1>2, <1>3, <1>6, <1>11, Zenon DEF Kept, filterSearch
  <2>2. j \notin ToSet(a) \/ j \notin ToSet(b)
    BY <1>2, <1>5, <1>11, Zenon
  <2>3. RankIn(a, i) \in Nat /\ RankIn(b, i) \in Nat /\ RankIn(a, i) > 210000 /\ RankIn(b, i) > 210000
    BY <1>2, <1>3, <2>1, RankInIs
  <2>4. RankIn(a, j) \in Nat /\ RankIn(b, j) \in Nat /\ RankIn(a, j) < 250000 /\ RankIn(b, j) < 250000
        /\ (RankIn(a, j) = 0 \/ RankIn(b, j) = 0)
    BY <1>2, <1>3, <2>2, RankInIs
  <2> QED
    BY <1>8, <2>3, <2>4
<1>12. \A m, n \in DOMAIN found : found[m] \in both /\ found[n] \notin both => m < n
  BY <1>9, <1>11
<1>13. Ranks("hybrid", q, f, found)
  BY <1>12, Zenon DEF Ranks, b
<1> QED
  BY <1>9, <1>10, <1>13 DEF FoundRight

LEMMA IndexRight ==
    ASSUME MemoriesTyped, NEW q \in Seq(Pattern), NEW f, NEW by \in {"idf", "bm25"},
           NEW ranked \in BOOLEAN, NEW found \in searchFTS(q, f, ranked)
    PROVE  FoundRight(by, q, f, found)
<1>1. found \in Seq(Ids) /\ IsInjective(found) /\ ToSet(found) = Kept(q, f)
  BY IndexIs
<1>2. \A i \in Kept(q, f) : f.phase \in {"", memories[i].phase} /\ HasTags(i, f)
  BY KeptIs, Zenon
<1>3. Finds(by, q, f, found)
  BY <1>1, <1>2, KeptIsRight, Zenon
<1>4. by # "like" /\ by # "smart" /\ by # "hybrid" /\ by # "expansion"
  OBVIOUS
<1>5. Ranks(by, q, f, found)
  BY <1>4 DEF Ranks
<1> QED
  BY <1>1, <1>3, <1>5 DEF FoundRight

LEMMA SearchRight ==
    ASSUME MemoriesTyped, NEW q \in Seq(Pattern), NEW f, NEW s \in {"idf", "bm25", "hybrid"},
           NEW found \in SearchResults(q, f, s)
    PROVE  FoundRight(s, q, f, found)
<1>1. CASE ~(ToSet(q) \subseteq Long)
  <2>1. found = SearchLike(q, f)
    BY <1>1 DEF SearchResults
  <2>2. found \in Seq(Ids) /\ IsInjective(found) /\ Finds(s, q, f, found)
    BY <2>1, SearchLikeIs, LikelyIsRight, LikelyPasses
  <2>3. s # "like" /\ s # "smart" /\ s # "expansion"
    OBVIOUS
  <2>4. Ranks(s, q, f, found)
    BY <1>1, <2>3, Zenon DEF Ranks
  <2> QED
    BY <2>2, <2>4 DEF FoundRight
<1>2. CASE ToSet(q) \subseteq Long /\ s = "hybrid"
  BY <1>2, HybridRight DEF SearchResults
<1>3. CASE ToSet(q) \subseteq Long /\ s # "hybrid"
  <2>1. found \in searchFTS(q, f, s = "bm25") /\ s \in {"idf", "bm25"} /\ (s = "bm25") \in BOOLEAN
    BY <1>3 DEF SearchResults
  <2> QED
    BY <2>1, IndexRight
<1> QED
  BY <1>1, <1>2, <1>3

LEMMA TermsAre ==
    ASSUME MemoriesTyped, NEW list \in Seq(Ids)
    PROVE  frequentTerms(list) \in Seq(Pattern)
<1> DEFINE Freq(n) == Cardinality({i \in ToSet(list) : Has(i, Term[n])})
           frequent == {n \in DOMAIN Term : Freq(n) >= Max({3, Len(list) \div 2})}
           score == [n \in frequent |-> Freq(n)]
           order == Sorted(frequent, score, FALSE)
<1>1. Term \in Seq(Pattern) /\ DOMAIN Term = 1 .. Len(Term) /\ Len(Term) \in Nat
  BY SearchAssumption
<1>2. frequent \in SUBSET DOMAIN Term
  OBVIOUS
<1>3. frequent \in SUBSET Int /\ IsFiniteSet(frequent)
  <2>1. IsFiniteSet(DOMAIN Term)
    BY <1>1, FS_Interval
  <2> HIDE DEF frequent
  <2> QED
    BY <1>1, <1>2, <2>1, FS_Subset
<1>4. \A n : Freq(n) \in Int
  <2> TAKE n
  <2>1. {i \in ToSet(list) : Has(i, Term[n])} \in SUBSET Ids
    BY DEF ToSet
  <2> QED
    BY <2>1, SomeIds
<1>5. frequentTerms(list) = [n \in DOMAIN order |-> Term[order[n]]]
  BY Zenon DEF frequentTerms
<1> HIDE DEF Freq, frequent
<1>6. SortedBy(order, frequent, score, FALSE)
  <2>1. \A n \in frequent : score[n] \in Int
    BY <1>4
  <2> HIDE DEF score
  <2> QED
    BY <1>3, <2>1, SortedIs
<1> HIDE DEF order
<1>7. order \in Seq(DOMAIN Term)
  BY <1>2, <1>6 DEF SortedBy
<1>8. DOMAIN order = 1 .. Len(order) /\ Len(order) \in Nat
      /\ \A n \in DOMAIN order : Term[order[n]] \in Pattern
  BY <1>1, <1>7
<1> QED
  BY <1>5, <1>8

LEMMA Joined ==
    ASSUME NEW S, NEW a \in Seq(S), NEW b \in Seq(S), IsInjective(a), IsInjective(b),
           ToSet(a) \cap ToSet(b) = {}
    PROVE  a \o b \in Seq(S) /\ IsInjective(a \o b) /\ ToSet(a \o b) = ToSet(a) \cup ToSet(b)
<1> DEFINE c == a \o b
<1>1. /\ c \in Seq(S) /\ DOMAIN c = 1 .. Len(a) + Len(b) /\ Len(a) \in Nat /\ Len(b) \in Nat
      /\ DOMAIN a = 1 .. Len(a) /\ DOMAIN b = 1 .. Len(b)
      /\ \A n \in 1 .. Len(a) + Len(b) : c[n] = IF n <= Len(a) THEN a[n] ELSE b[n - Len(a)]
  OBVIOUS
<1> HIDE DEF c
<1>2. /\ \A n \in DOMAIN a : n \in DOMAIN c /\ c[n] = a[n]
      /\ \A n \in DOMAIN b : n + Len(a) \in DOMAIN c /\ c[n + Len(a)] = b[n]
      /\ \A n \in DOMAIN c : n \in DOMAIN a \/ n - Len(a) \in DOMAIN b
      /\ \A n \in DOMAIN c : n \notin DOMAIN a => c[n] = b[n - Len(a)]
  BY <1>1
<1>3. ToSet(c) = ToSet(a) \cup ToSet(b)
  <2>1. \A n \in DOMAIN c : c[n] \in ToSet(a) \/ c[n] \in ToSet(b)
    BY <1>2 DEF ToSet
  <2>2. \A n \in DOMAIN a : a[n] \in ToSet(c)
    BY <1>2 DEF ToSet
  <2>3. \A n \in DOMAIN b : b[n] \in ToSet(c)
    BY <1>2 DEF ToSet
  <2> QED
    BY <2>1, <2>2, <2>3 DEF ToSet
<1>4. ASSUME NEW m \in DOMAIN c, NEW n \in DOMAIN c, c[m] = c[n]
      PROVE  m = n
  <2>1. CASE m \in DOMAIN a /\ n \in DOMAIN a
    BY <1>2, <1>4, <2>1 DEF IsInjective
  <2>2. CASE m \notin DOMAIN a /\ n \notin DOMAIN a
    <3>1. m - Len(a) \in DOMAIN b /\ n - Len(a) \in DOMAIN b /\ b[m - Len(a)] = b[n - Len(a)]
      BY <1>2, <1>4, <2>2
    <3>2. m - Len(a) = n - Len(a)
      BY <3>1 DEF IsInjective
    <3> QED
      BY <1>1, <3>2
  <2>3. CASE m \in DOMAIN a /\ n \notin DOMAIN a
    <3>1. n - Len(a) \in DOMAIN b /\ a[m] = b[n - Len(a)]
      BY <1>2, <1>4, <2>3
    <3> QED
      BY <2>3, <3>1 DEF ToSet
  <2>4. CASE m \notin DOMAIN a /\ n \in DOMAIN a
    <3>1. m - Len(a) \in DOMAIN b /\ a[n] = b[m - Len(a)]
      BY <1>2, <1>4, <2>4
    <3> QED
      BY <2>4, <3>1 DEF ToSet
  <2> QED
    BY <2>1, <2>2, <2>3, <2>4
<1>5. IsInjective(c)
  BY <1>4 DEF IsInjective
<1> QED
  BY <1>1, <1>3, <1>5 DEF c

LEMMA CurrentFirstIs ==
    ASSUME NEW list \in Seq(Ids), IsInjective(list)
    PROVE  /\ CurrentFirst(list) \in Seq(Ids) /\ IsInjective(CurrentFirst(list))
           /\ ToSet(CurrentFirst(list)) = ToSet(list)
           /\ \A m, n \in DOMAIN CurrentFirst(list) :
                ~Superseded(CurrentFirst(list)[m]) /\ Superseded(CurrentFirst(list)[n]) => m < n
<1> DEFINE current == [n \in DOMAIN list |-> IF Superseded(list[n]) THEN 0 ELSE 1]
           order == Sorted(DOMAIN list, current, FALSE)
           found == [n \in DOMAIN list |-> list[order[n]]]
<1>1. DOMAIN list = 1 .. Len(list) /\ Len(list) \in Nat
  OBVIOUS
<1>2. DOMAIN list \in SUBSET Int /\ IsFiniteSet(DOMAIN list) /\ Cardinality(DOMAIN list) = Len(list)
  <2> DEFINE n == Len(list)
  <2>1. n \in Nat /\ 1 \in Int /\ n \in Int
    BY <1>1
  <2> HIDE DEF n
  <2>2. IsFiniteSet(1 .. n) /\ Cardinality(1 .. n) = n
    BY <2>1, FS_Interval
  <2> QED
    BY <1>1, <2>2 DEF n
<1>3. CurrentFirst(list) = found
  BY Zenon DEF CurrentFirst
<1>4. \A n \in DOMAIN list : current[n] \in Int
                             /\ (current[n] = IF Superseded(list[n]) THEN 0 ELSE 1)
  OBVIOUS
<1> HIDE DEF current
<1>5. SortedBy(order, DOMAIN list, current, FALSE)
  BY <1>2, <1>4, SortedIs
<1> HIDE DEF order
<1>6. /\ order \in Seq(DOMAIN list) /\ DOMAIN order = DOMAIN list
      /\ ToSet(order) = DOMAIN list /\ IsInjective(order)
      /\ \A m, n \in DOMAIN order : current[order[m]] > current[order[n]] => m < n
  <2>1. order \in Seq(DOMAIN list) /\ Len(order) = Len(list)
        /\ ToSet(order) = DOMAIN list /\ IsInjective(order)
    BY <1>2, <1>5 DEF SortedBy
  <2>2. \A m, n \in DOMAIN order : current[order[m]] > current[order[n]] => m < n
    BY <1>5 DEF SortedBy, Earlier
  <2> QED
    BY <1>1, <2>1, <2>2
<1>7. \A n \in DOMAIN list : order[n] \in DOMAIN list /\ list[order[n]] \in Ids
  BY <1>6
<1>8. DOMAIN found = DOMAIN list /\ \A n \in DOMAIN list : found[n] = list[order[n]]
  OBVIOUS
<1>9. found \in Seq(Ids)
  BY <1>1, <1>7
<1> HIDE DEF found
<1>10. IsInjective(found)
  <2> SUFFICES ASSUME NEW m \in DOMAIN list, NEW n \in DOMAIN list, found[m] = found[n]
               PROVE  m = n
    BY <1>8 DEF IsInjective
  <2>1. order[m] = order[n]
    BY <1>7, <1>8 DEF IsInjective
  <2> QED
    BY <1>6, <2>1 DEF IsInjective
<1>11. ToSet(found) = ToSet(list)
  <2>1. \A n \in DOMAIN list : found[n] \in ToSet(list)
    BY <1>7, <1>8 DEF ToSet
  <2>2. \A n \in DOMAIN list : \E m \in DOMAIN list : order[m] = n
    BY <1>6 DEF ToSet
  <2>3. \A n \in DOMAIN list : list[n] \in ToSet(found)
    BY <1>8, <2>2 DEF ToSet
  <2> QED
    BY <1>8, <2>1, <2>3 DEF ToSet
<1>12. \A m, n \in DOMAIN found : ~Superseded(found[m]) /\ Superseded(found[n]) => m < n
  <2> SUFFICES ASSUME NEW m \in DOMAIN list, NEW n \in DOMAIN list,
                      ~Superseded(found[m]), Superseded(found[n])
               PROVE  m < n
    BY <1>8
  <2>1. current[order[m]] = 1 /\ current[order[n]] = 0
    BY <1>4, <1>7, <1>8
  <2> QED
    BY <1>6, <2>1
<1> QED
  BY <1>3, <1>9, <1>10, <1>11, <1>12

LEMMA ExpansionRight ==
    ASSUME MemoriesTyped, NEW q \in Seq(Pattern), NEW f
    PROVE  FoundRight("expansion", q, f, SearchWithExpansion(q, f))
<1> DEFINE likely == SearchLike(q, f)
           terms == frequentTerms(likely)
           found == SearchWithExpansion(q, f)
<1>1. likely \in Seq(Ids) /\ IsInjective(likely) /\ ToSet(likely) = FoundLike(q, f)
  BY SearchLikeIs
<1>2. FoundLike(q, f) \in SUBSET Ids /\ \A i \in FoundLike(q, f) : Passes(i, f)
  BY LikelyPasses
<1>3. CASE terms = <<>>
  <2>1. found = NewestFirst(ToSet(likely))
    BY <1>3, Zenon DEF SearchWithExpansion
  <2> HIDE DEF found, likely
  <2>2. found \in Seq(Ids) /\ IsInjective(found) /\ ToSet(found) = FoundLike(q, f)
    BY <1>1, <1>2, <2>1, NewestFirstIs
  <2>3. Finds("expansion", q, f, found)
    BY <1>2, <2>2, LikelyIsRight
  <2>4. Ranks("expansion", q, f, found)
    BY <1>3 DEF Ranks, likely
  <2> QED
    BY <2>2, <2>3, <2>4 DEF FoundRight, found
<1>4. CASE terms # <<>>
  <2> DEFINE more == FoundLike(terms, f) \ ToSet(likely)
             rest == Ranked(more, terms)
             all == likely \o rest
  <2>1. found = CurrentFirst(all)
    BY <1>4, Zenon DEF SearchWithExpansion
  <2> HIDE DEF likely
  <2>2. terms \in Seq(Pattern)
    BY <1>1, TermsAre
  <2> HIDE DEF terms
  <2>3. more \in SUBSET Ids /\ \A i \in more : Passes(i, f)
    BY <2>2, LikelyPasses
  <2>4. rest \in Seq(Ids) /\ IsInjective(rest) /\ ToSet(rest) = more
    <3> DEFINE score == [i \in more |-> Score(i, terms)]
    <3> HIDE DEF more
    <3>1. SortedBy(rest, more, score, TRUE)
      BY <2>2, <2>3, RankedIs
    <3> HIDE DEF rest
    <3> QED
      BY <2>3, <3>1 DEF SortedBy
  <2> HIDE DEF rest
  <2>5. all \in Seq(Ids) /\ IsInjective(all) /\ ToSet(all) = FoundLike(q, f) \cup more
    <3>1. ToSet(likely) \cap ToSet(rest) = {}
      BY <2>4
    <3> HIDE DEF more
    <3> QED
      BY <1>1, <2>4, <3>1, Joined
  <2> HIDE DEF all, more, found
  <2>6. /\ found \in Seq(Ids) /\ IsInjective(found) /\ ToSet(found) = FoundLike(q, f) \cup more
        /\ \A m, n \in DOMAIN found : ~Superseded(found[m]) /\ Superseded(found[n]) => m < n
    BY <2>1, <2>5, CurrentFirstIs
  <2>7. Finds("expansion", q, f, found)
    BY <1>2, <2>3, <2>6, LikelyIsRight
  <2>8. Ranks("expansion", q, f, found)
    BY <2>6, Zenon DEF Ranks
  <2> QED
    BY <2>6, <2>7, <2>8 DEF FoundRight, found
<1> QED
  BY <1>3, <1>4

LEMMA FiniteList ==
    ASSUME NEW S, NEW list \in Seq(S)
    PROVE  IsFiniteSet(ToSet(list))
<1>1. DOMAIN list = 1 .. Len(list) /\ Len(list) \in Nat
  OBVIOUS
<1>2. IsFiniteSet(DOMAIN list)
  BY <1>1, FS_Interval
<1>3. list \in Surjection(DOMAIN list, ToSet(list))
  <2>1. list \in [DOMAIN list -> ToSet(list)]
    BY <1>1 DEF ToSet
  <2>2. \A e \in ToSet(list) : \E n \in DOMAIN list : list[n] = e
    BY DEF ToSet
  <2> QED
    BY <2>1, <2>2 DEF Surjection
<1> QED
  BY <1>2, <1>3, FS_Surjection

\* The later a memory, the more its score counts.
LEMMA RecencyIs ==
    ASSUME MemoriesTyped, NEW i \in Ids
    PROVE  Recency(i) \in Nat /\ Recency(i) > 0 /\ \A j \in Ids : i > j => Recency(i) > Recency(j)
<1>1. \A d \in Int : 1 <= d /\ d <= 10 =>
        \/ (d = 1 /\ 2520 \div d = 2520) \/ (d = 2 /\ 2520 \div d = 1260)
        \/ (d = 3 /\ 2520 \div d = 840) \/ (d = 4 /\ 2520 \div d = 630)
        \/ (d = 5 /\ 2520 \div d = 504) \/ (d = 6 /\ 2520 \div d = 420)
        \/ (d = 7 /\ 2520 \div d = 360) \/ (d = 8 /\ 2520 \div d = 315)
        \/ (d = 9 /\ 2520 \div d = 280) \/ (d = 10 /\ 2520 \div d = 252)
  <2> TAKE d \in Int
  <2> HAVE 1 <= d /\ d <= 10
  <2>1. \/ d = 1 \/ d = 2 \/ d = 3 \/ d = 4 \/ d = 5 \/ d = 6 \/ d = 7 \/ d = 8 \/ d = 9 \/ d = 10
    OBVIOUS
  <2> QED
    BY <2>1
<1> DEFINE piece(d) == 2520 \div d
<1>2. \A d \in Int : 1 <= d /\ d <= 10 => piece(d) \in Nat
  BY <1>1
<1>3. \A d, e \in Int : 1 <= d /\ d < e /\ e <= 10 => piece(d) > piece(e)
  BY <1>1
<1> HIDE DEF piece
<1>4. \A j \in Ids : /\ 1 + Len(memories) - j \in Int /\ 1 <= 1 + Len(memories) - j
                     /\ 1 + Len(memories) - j <= 10 /\ j \in Int
  BY IdsAre
<1>5. \A j \in Ids : Recency(j) = 2520 + piece(1 + Len(memories) - j)
  BY DEF Recency, piece
<1>6. \A j \in Ids : i > j => 1 + Len(memories) - i < 1 + Len(memories) - j
  BY <1>4, IdsAre
<1>7. Len(memories) \in Nat
  BY IdsAre
<1>8. ASSUME NEW j \in Ids, i > j PROVE Recency(i) > Recency(j)
  <2> DEFINE d == 1 + Len(memories) - i
             e == 1 + Len(memories) - j
  <2>1. d \in Int /\ e \in Int /\ 1 <= d /\ d < e /\ e <= 10
    BY <1>4, <1>6, <1>8
  <2>2. Recency(i) = 2520 + piece(d) /\ Recency(j) = 2520 + piece(e)
    BY <1>5
  <2> HIDE DEF d, e
  <2>3. piece(d) \in Nat /\ piece(e) \in Nat /\ piece(d) > piece(e)
    BY <1>2, <1>3, <2>1
  <2> QED
    BY <2>2, <2>3
<1>9. Recency(i) \in Nat /\ Recency(i) > 0
  <2> DEFINE d == 1 + Len(memories) - i
  <2>1. d \in Int /\ 1 <= d /\ d <= 10
    BY <1>4
  <2>2. Recency(i) = 2520 + piece(d)
    BY <1>5
  <2> HIDE DEF d
  <2> QED
    BY <1>2, <2>1, <2>2
<1> QED
  BY <1>8, <1>9

LEMMA ProductsMore ==
    ASSUME NEW a \in Nat, NEW b \in Nat, a > b, NEW c \in Nat, NEW d \in Nat, c >= d, d > 0
    PROVE  a * c > b * d
<1>1. a * c >= a * d
  OBVIOUS
<1>2. a * d > b * d
  OBVIOUS
<1> QED
  BY <1>1, <1>2

\* What the tokens and the reads are worth, for two memories of which one has all the other has.
LEMMA Counted ==
    ASSUME MemoriesTyped, NEW q \in Seq(Pattern), NEW i \in Ids, NEW n
    PROVE  /\ IsFiniteSet(Repeated(i, q, n)) /\ Cardinality(Repeated(i, q, n)) \in Nat
           /\ IsFiniteSet(Repeated(i, q, n) \cap memories[i].tags)
           /\ Cardinality(Repeated(i, q, n) \cap memories[i].tags) \in Nat
           /\ Repeated(i, q, n) # {} => Cardinality(Repeated(i, q, n)) # 0
<1> DEFINE told == Repeated(i, q, n)
           marked == told \cap memories[i].tags
<1>1. IsFiniteSet(ToSet(q))
  BY FiniteList
<1>2. told \in SUBSET ToSet(q)
  BY Zenon DEF Repeated
<1> HIDE DEF told
<1>3. marked \in SUBSET told
  OBVIOUS
<1>4. IsFiniteSet(told)
  BY <1>1, <1>2, FS_Subset
<1>5. IsFiniteSet(marked)
  BY <1>3, <1>4, FS_Subset
<1>6. Cardinality(told) \in Nat /\ (told # {} => Cardinality(told) # 0)
  BY <1>4, FS_CardinalityType, FS_EmptySet
<1>7. Cardinality(marked) \in Nat
  BY <1>5, FS_CardinalityType
<1> QED
  BY <1>4, <1>5, <1>6, <1>7 DEF told

LEMMA ReadershipIs ==
    ASSUME MemoriesTyped, NEW i \in Ids
    PROVE  /\ memories[i].reads \in Nat
           /\ Readership(i) = 10 + (IF memories[i].reads < 10 THEN memories[i].reads ELSE 10)
<1> DEFINE r == memories[i].reads
           low == Min({r, 10})
<1>1. r \in Nat
  BY IdsAre, SearchAssumption DEF MemoriesTyped
<1> HIDE DEF r
<1>2. \E m \in {r, 10} : \A n \in {r, 10} : m <= n
  BY <1>1
<1>3. low \in {r, 10} /\ \A n \in {r, 10} : low <= n
  BY <1>2, Zenon DEF Min
<1> HIDE DEF low
<1>4. low = IF r < 10 THEN r ELSE 10
  BY <1>1, <1>3
<1> QED
  BY <1>1, <1>4 DEF Readership, low, r

LEMMA WorthIs ==
    ASSUME MemoriesTyped, NEW q \in Seq(Pattern), NEW i \in Ids
    PROVE  Worth(i, q) \in Nat /\ (Repeated(i, q, 1) # {} => Worth(i, q) > 0)
<1> DEFINE c1 == Cardinality(Repeated(i, q, 1))
           c2 == Cardinality(Repeated(i, q, 2))
           c3 == Cardinality(Repeated(i, q, 3))
           c5 == Cardinality(Repeated(i, q, 5))
           m == Cardinality(Repeated(i, q, 1) \cap memories[i].tags)
<1>1. /\ c1 \in Nat /\ c2 \in Nat /\ c3 \in Nat /\ c5 \in Nat /\ m \in Nat
      /\ Repeated(i, q, 1) # {} => c1 # 0
  BY Counted
<1>2. Worth(i, q) = 2 * c1 + c2 + c3 + 2 * c5 + 2 * m
  BY Zenon DEF Worth
<1> HIDE DEF c1, c2, c3, c5, m
<1> QED
  BY <1>1, <1>2

\* What a memory has of what was asked for, and how often, as Ranks compares it.
AsTold(i, j, q) ==
    LET Told(k) == memories[k].has \cap AskedFor(q)
        Tagged(k) == memories[k].tags \cap AskedFor(q)
    IN  /\ Told(j) \subseteq Told(i) /\ Tagged(j) \subseteq Tagged(i)
        /\ \A t \in Told(j) : memories[i].often[t] >= memories[j].often[t]
        /\ memories[i].reads >= memories[j].reads

LEMMA MoreWorth ==
    ASSUME MemoriesTyped, NEW q \in Seq(Pattern), NEW i \in Ids, NEW j \in Ids, AsTold(i, j, q)
    PROVE  Worth(i, q) >= Worth(j, q) /\ Readership(i) >= Readership(j)
<1>1. ToSet(q) \subseteq AskedFor(q)
  BY Zenon DEF AskedFor
<1>2. \A k \in Ids : \A t \in memories[k].has : memories[k].often[t] \in Nat
  BY IdsAre, SearchAssumption DEF MemoriesTyped
<1>3. ASSUME NEW n \in Nat PROVE Repeated(j, q, n) \subseteq Repeated(i, q, n)
  <2> SUFFICES ASSUME NEW t \in Repeated(j, q, n) PROVE t \in Repeated(i, q, n)
    BY Zenon
  <2>1. t \in ToSet(q) /\ t \in memories[j].has /\ memories[j].often[t] >= n
    BY Zenon DEF Repeated, Has
  <2>2. t \in memories[i].has /\ memories[i].often[t] >= memories[j].often[t]
    BY <1>1, <2>1, Zenon DEF AsTold
  <2>3. memories[i].often[t] \in Nat /\ memories[j].often[t] \in Nat
    BY <1>2, <2>1, <2>2, Zenon
  <2>4. memories[i].often[t] >= n
    BY <2>1, <2>2, <2>3
  <2> QED
    BY <2>1, <2>2, <2>4, Zenon DEF Repeated, Has
<1>4. Repeated(j, q, 1) \cap memories[j].tags \subseteq Repeated(i, q, 1) \cap memories[i].tags
  <2>1. Repeated(j, q, 1) \subseteq Repeated(i, q, 1)
    BY <1>3
  <2>2. Repeated(j, q, 1) \subseteq AskedFor(q)
    BY <1>1, Zenon DEF Repeated
  <2>3. memories[j].tags \cap AskedFor(q) \subseteq memories[i].tags \cap AskedFor(q)
    BY Zenon DEF AsTold
  <2> QED
    BY <2>1, <2>2, <2>3, Zenon
<1> DEFINE c(k, n) == Cardinality(Repeated(k, q, n))
           m(k) == Cardinality(Repeated(k, q, 1) \cap memories[k].tags)
<1>5. ASSUME NEW n \in Nat PROVE c(j, n) \in Nat /\ c(i, n) \in Nat /\ c(j, n) <= c(i, n)
  <2>1. /\ IsFiniteSet(Repeated(i, q, n)) /\ c(i, n) \in Nat /\ c(j, n) \in Nat
    BY Counted
  <2>2. Repeated(j, q, n) \in SUBSET Repeated(i, q, n)
    BY <1>3
  <2>3. c(j, n) <= c(i, n)
    BY <2>1, <2>2, FS_Subset
  <2> QED
    BY <2>1, <2>3
<1>6. m(j) \in Nat /\ m(i) \in Nat /\ m(j) <= m(i)
  <2>1. /\ IsFiniteSet(Repeated(i, q, 1) \cap memories[i].tags) /\ m(i) \in Nat /\ m(j) \in Nat
    BY Counted
  <2>2. m(j) <= m(i)
    BY <1>4, <2>1, FS_Subset
  <2> QED
    BY <2>1, <2>2
<1>7. \A k \in Ids : Worth(k, q) = 2 * c(k, 1) + c(k, 2) + c(k, 3) + 2 * c(k, 5) + 2 * m(k)
  BY Zenon DEF Worth
<1>8. Worth(i, q) >= Worth(j, q)
  <2> DEFINE a1 == c(j, 1) a2 == c(j, 2) a3 == c(j, 3) a5 == c(j, 5) am == m(j)
             b1 == c(i, 1) b2 == c(i, 2) b3 == c(i, 3) b5 == c(i, 5) bm == m(i)
  <2>1. 1 \in Nat /\ 2 \in Nat /\ 3 \in Nat /\ 5 \in Nat
    OBVIOUS
  <2> HIDE DEF c, m
  <2>2. /\ a1 \in Nat /\ b1 \in Nat /\ a1 <= b1
        /\ a2 \in Nat /\ b2 \in Nat /\ a2 <= b2
        /\ a3 \in Nat /\ b3 \in Nat /\ a3 <= b3
        /\ a5 \in Nat /\ b5 \in Nat /\ a5 <= b5
        /\ am \in Nat /\ bm \in Nat /\ am <= bm
    BY <1>5, <1>6, <2>1, Zenon
  <2>3. /\ Worth(j, q) = 2 * a1 + a2 + a3 + 2 * a5 + 2 * am
        /\ Worth(i, q) = 2 * b1 + b2 + b3 + 2 * b5 + 2 * bm
    BY <1>7, Zenon
  <2> HIDE DEF a1, a2, a3, a5, am, b1, b2, b3, b5, bm
  <2> QED
    BY <2>2, <2>3
<1>9. Readership(i) >= Readership(j)
  <2>1. memories[i].reads >= memories[j].reads
    BY Zenon DEF AsTold
  <2> QED
    BY <2>1, ReadershipIs
<1> QED
  BY <1>8, <1>9

LEMMA ThreeFactors ==
    ASSUME NEW a \in Nat, NEW b \in Nat, a > b, NEW c \in Nat, NEW d \in Nat, c >= d, d > 0,
           NEW e \in Nat, NEW f \in Nat, e >= f, f > 0
    PROVE  a * c * e > b * d * f
<1>1. a * c > b * d /\ a * c \in Nat /\ b * d \in Nat
  BY ProductsMore
<1> DEFINE x == a * c
           y == b * d
<1> HIDE DEF x, y
<1>2. x * e > y * f
  BY <1>1, ProductsMore DEF x, y
<1> QED
  BY <1>2 DEF x, y

LEMMA SmartScoreIs ==
    ASSUME MemoriesTyped, NEW q \in Seq(Pattern), NEW i \in Ids
    PROVE  /\ SmartScore(i, q) \in Nat /\ (Worth(i, q) > 0 <=> SmartScore(i, q) > 0)
           /\ SmartScore(i, q) = Recency(i) * Readership(i) * Worth(i, q)
           /\ Readership(i) \in Nat /\ Readership(i) > 0
<1> DEFINE a == Recency(i)
           b == Readership(i)
           c == Worth(i, q)
<1>1. a \in Nat /\ a > 0
  BY RecencyIs
<1>2. b \in Nat /\ b > 0
  BY ReadershipIs
<1>3. c \in Nat
  BY WorthIs
<1>4. SmartScore(i, q) = a * b * c
  BY Zenon DEF SmartScore
<1> HIDE DEF a, b, c
<1>5. a * b \in Nat /\ a * b > 0
  BY <1>1, <1>2
<1> DEFINE x == a * b
<1> HIDE DEF x
<1>6. x * c \in Nat /\ (c > 0 <=> x * c > 0)
  BY <1>3, <1>5 DEF x
<1> QED
  BY <1>2, <1>4, <1>6 DEF a, b, c, x

LEMMA SmartRight ==
    ASSUME MemoriesTyped, NEW q \in Seq(Pattern), NEW f, NEW found \in SmartSearch(q, f)
    PROVE  FoundRight("smart", q, f, found)
<1> DEFINE listed == {i \in Ids : f.phase \in {"", memories[i].phase} /\ HasTags(i, f)}
           all == {i \in listed : SmartScore(i, q) > 0}
           score == [i \in all |-> SmartScore(i, q)]
<1>6. all \in SUBSET Ids
  BY Zenon
<1>7. found \in AnyOrder(all, score)
  BY Zenon DEF SmartSearch
<1>8. \A i \in all : score[i] = SmartScore(i, q) /\ score[i] \in Int
  <2>1. \A i \in all : SmartScore(i, q) \in Int
    <3> HIDE DEF all
    <3> QED
      BY <1>6, SmartScoreIs
  <2> HIDE DEF all
  <2> QED
    BY <2>1
<1> HIDE DEF score, all
<1>9. /\ found \in Seq(Ids) /\ IsInjective(found) /\ ToSet(found) = all
      /\ \A m, n \in DOMAIN found : found[m] \in all
      /\ \A m, n \in DOMAIN found : score[found[m]] > score[found[n]] => m < n
  BY <1>6, <1>7, <1>8, AnyOrderIs
<1>10. Finds("smart", q, f, found)
  <2>1. \A i \in Kept(q, f) : i \in all
    <3> TAKE i \in Kept(q, f)
    <3>1. i \in listed /\ \E n \in DOMAIN q : Has(i, q[n])
      BY KeptIs, Zenon
    <3>2. i \in Ids /\ \E t \in ToSet(q) : Has(i, t)
      BY <3>1, Zenon DEF ToSet
    <3>3. Repeated(i, q, 1) # {}
      <4>1. \A t \in memories[i].has : memories[i].often[t] >= 1
        BY <3>2, IdsAre, SearchAssumption DEF MemoriesTyped
      <4> QED
        BY <3>2, <4>1, Zenon DEF Repeated, Has
    <3>4. SmartScore(i, q) > 0
      BY <3>2, <3>3, WorthIs, SmartScoreIs, Zenon
    <3> QED
      BY <3>1, <3>4, Zenon DEF all
  <2>2. \A i \in all : f.phase \in {"", memories[i].phase} /\ HasTags(i, f)
    BY Zenon DEF all
  <2> QED
    BY <1>9, <2>1, <2>2, KeptIsRight, Zenon
<1>11. ASSUME NEW i \in all, NEW j \in all, AsTold(i, j, q), i > j
       PROVE  score[i] > score[j]
  <2>1. i \in Ids /\ j \in Ids
    BY <1>6
  <2>2. Worth(i, q) >= Worth(j, q) /\ Readership(i) >= Readership(j)
    BY <1>11, <2>1, MoreWorth
  <2>3. Worth(i, q) \in Nat /\ Worth(j, q) \in Nat /\ Worth(j, q) > 0
    <3>1. SmartScore(j, q) > 0
      BY Zenon DEF all
    <3> QED
      BY <2>1, <3>1, WorthIs, SmartScoreIs
  <2>4. Recency(i) \in Nat /\ Recency(j) \in Nat /\ Recency(i) > Recency(j)
    BY <1>11, <2>1, RecencyIs
  <2>5. /\ Readership(i) \in Nat /\ Readership(j) \in Nat /\ Readership(j) > 0
    BY <2>1, SmartScoreIs
  <2>6. Recency(i) * Readership(i) * Worth(i, q) > Recency(j) * Readership(j) * Worth(j, q)
    BY <2>2, <2>3, <2>4, <2>5, ThreeFactors
  <2> QED
    BY <1>8, <2>1, <2>6, SmartScoreIs
<1> DEFINE Leads(i, j) == AsTold(i, j, q) /\ i > j
<1>12. \A m, n \in DOMAIN found : Leads(found[m], found[n]) => m < n
  BY <1>9, <1>11
<1>13. Ranks("smart", q, f, found)
  BY <1>12, Zenon DEF Ranks, AskedFor, AsTold
<1> QED
  BY <1>9, <1>10, <1>13 DEF FoundRight

\* A list is as right as before while the memories stay.
LEMMA RightStays ==
    ASSUME UNCHANGED memories
    PROVE  \A by, q, f, found : FoundRight(by, q, f, found)' <=> FoundRight(by, q, f, found)
<1>1. Ids' = Ids /\ (\A i, p : Has(i, p)' <=> Has(i, p)) /\ \A i, f : HasTags(i, f)' <=> HasTags(i, f)
  BY Zenon DEF Ids, Has, HasTags
<1>2. \A p : Count(p)' = Count(p)
  BY Zenon DEF Count, Ids, Has
<1>3. \A p : Weight(p)' = Weight(p)
  BY <1>2, Zenon DEF Weight
<1>4. \A p : Fallback(p)' = Fallback(p)
  BY <1>2, Zenon DEF Fallback
<1>5. \A i, p : KeywordScore(i, p)' = KeywordScore(i, p)
  BY <1>3, <1>4, Zenon DEF KeywordScore, Has
<1>6. \A i, q : Score(i, q)' = Score(i, q)
  BY <1>5, Zenon DEF Score
<1>7. \A q, f : FoundLike(q, f)' = FoundLike(q, f)
  BY <1>4, <1>6, Zenon DEF FoundLike, Ids, Has, filterSearch, HasTags
<1>8. \A q, f : SearchLike(q, f)' = SearchLike(q, f)
  BY <1>6, <1>7, Zenon DEF SearchLike, Ranked
<1>9. \A list : frequentTerms(list)' = frequentTerms(list)
  BY Zenon DEF frequentTerms, Has
<1>10. \A q, f : Matches(q, f)' = Matches(q, f)
  BY Zenon DEF Matches, Ids, Has
<1>11. ASSUME NEW by, NEW q, NEW f, NEW found
       PROVE  Finds(by, q, f, found)' <=> Finds(by, q, f, found)
  BY <1>1, <1>4, Zenon DEF Finds
<1>12. ASSUME NEW by, NEW q, NEW f, NEW found
       PROVE  Ranks(by, q, f, found)' <=> Ranks(by, q, f, found)
  <2> DEFINE asked == AskedFor(q)
             both == Matches(q, f) \cap ToSet(SearchLike(q, f))
             expanded == frequentTerms(SearchLike(q, f)) # <<>>
             told(i) == memories[i].has \cap asked
             marked(i) == memories[i].tags \cap asked
             asOften(i, j) ==
               /\ \A t \in told(j) : memories[i].often[t] >= memories[j].often[t]
               /\ memories[i].reads >= memories[j].reads
             leads(i, j) ==
               CASE by = "like" -> told(j) \subseteq told(i) /\ (i > j \/ told(i) # told(j))
                 [] by = "smart" ->
                      /\ told(j) \subseteq told(i) /\ marked(j) \subseteq marked(i) /\ asOften(i, j)
                      /\ i > j
                 [] by = "hybrid" -> ToSet(q) \subseteq Long /\ i \in both /\ j \notin both
                 [] by = "expansion" -> ~Superseded(i) /\ Superseded(j) /\ expanded
                 [] OTHER -> FALSE
  <2>1. Ranks(by, q, f, found) <=> \A m, n \in DOMAIN found : leads(found[m], found[n]) => m < n
    BY Zenon DEF Ranks, AskedFor
  <2>2. Ranks(by, q, f, found)'
        <=> \A m, n \in DOMAIN found : leads(found[m], found[n])' => m < n
    BY Zenon DEF Ranks, AskedFor
  <2>3. asked' = asked
    BY <1>4, Zenon DEF AskedFor
  <2>4. both' = both
    BY <1>8, <1>10, Zenon
  <2>5. expanded' <=> expanded
    BY <1>8, <1>9, Zenon
  <2>6. \A i : (Superseded(i)' <=> Superseded(i))
    BY Zenon DEF Superseded
  <2> HIDE DEF asked, both, expanded
  <2>7. \A i : told(i)' = told(i) /\ marked(i)' = marked(i)
    BY <2>3, Zenon
  <2> HIDE DEF told, marked
  <2>9. \A i, j : asOften(i, j)' <=> asOften(i, j)
    BY <2>7, Zenon
  <2> HIDE DEF asOften
  <2>8. \A i, j : leads(i, j)' <=> leads(i, j)
    BY <2>4, <2>5, <2>6, <2>7, <2>9
  <2> HIDE DEF leads
  <2> QED
    BY <2>1, <2>2, <2>8, Zenon
<1> QED
  BY <1>1, <1>11, <1>12, Zenon DEF FoundRight

SearchInv ==
    /\ MemoriesTyped
    /\ search # NoSearch => FoundRight(search.by, search.query, search.filters, search.found)

LEMMA InsertKeepsMemories ==
    ASSUME MemoriesTyped, NEW m \in Shape, Insert(m)
    PROVE  /\ MemoriesTyped' /\ Len(memories') = Len(memories) + 1
           /\ Ids \subseteq Ids' /\ \A i \in Ids : memories'[i] = memories[i]
<1>1. memories \in Seq(Shape) /\ Len(memories) < MaxMemories /\ memories' = Append(memories, m)
      /\ Len(memories) \in Nat /\ MaxMemories \in Nat
  BY SearchAssumption DEF MemoriesTyped, Insert
<1>2. memories' \in Seq(Shape) /\ Len(memories') = Len(memories) + 1
      /\ DOMAIN memories' = 1 .. Len(memories) + 1 /\ DOMAIN memories = 1 .. Len(memories)
      /\ \A i \in 1 .. Len(memories) : memories'[i] = memories[i]
  BY <1>1
<1> QED
  BY <1>1, <1>2 DEF MemoriesTyped, Ids

LEMMA SearchKeeps ==
    ASSUME SearchInv, SearchNext
    PROVE  SearchInv'
<1>1. ASSUME NEW m \in Shape, Insert(m)
      PROVE  SearchInv'
  BY <1>1, InsertKeepsMemories DEF SearchInv, Insert
<1>2. ASSUME NEW by, NEW q, NEW f, NEW found, FoundRight(by, q, f, found), Find(by, q, f, found)
      PROVE  SearchInv'
  <2>1. UNCHANGED memories /\ search' = [by |-> by, query |-> q, filters |-> f, found |-> found]
    BY <1>2 DEF Find
  <2>2. FoundRight(by, q, f, found)'
    BY <1>2, <2>1, RightStays
  <2>3. FoundRight(search.by, search.query, search.filters, search.found)'
    BY <2>1, <2>2, Zenon
  <2> QED
    BY <2>1, <2>3 DEF SearchInv, MemoriesTyped
<1>3. \A q \in Query : q \in Seq(Pattern)
  BY SearchAssumption
<1>4. \A s \in Strategy : s \in {"idf", "bm25", "hybrid"}
  BY SearchAssumption
<1>5. MemoriesTyped
  BY DEF SearchInv
<1>6. CASE \E q \in Query, f \in Filters : Find("like", q, f, SearchLike(q, f))
  BY <1>2, <1>3, <1>5, <1>6, LikeRight
<1>7. CASE \E q \in Query, f \in Filters : \E s \in Strategy :
             \E found \in SearchResults(q, f, s) : Find(s, q, f, found)
  BY <1>2, <1>3, <1>4, <1>5, <1>7, SearchRight
<1>8. CASE \E q \in Query, f \in Filters : Find("expansion", q, f, SearchWithExpansion(q, f))
  BY <1>2, <1>3, <1>5, <1>8, ExpansionRight
<1>9. CASE \E q \in Query, f \in Filters :
             \E found \in SmartSearch(q, f) : Find("smart", q, f, found)
  BY <1>2, <1>3, <1>5, <1>9, SmartRight
<1> QED
  BY <1>1, <1>6, <1>7, <1>8, <1>9, Zenon DEF SearchNext

\* A step of a question or of the agent but reads, or a memory arrives.
LEMMA ReadingStep ==
    ASSUME AskNext \/ AgentNext
    PROVE  UNCHANGED searchVars \/ \E m \in Shape : Insert(m)
<1>1. CASE AskNext
  BY <1>1, Zenon DEF AskNext, AskStep, Begin, ResolveContext, DetectIntent, FetchList, FetchAggregate,
     ExtractKeywords, FetchPhase, Rank, Generate, Arrive, Reads
<1>2. CASE AgentNext
  BY <1>2, Zenon DEF AgentNext, BeginAgent, Plan, fallbackSearch, SearchNextQuery, Simplify, Observe, Cancel,
     Compose, AgentArrive
<1> QED
  BY <1>1, <1>2

-----------------------------------------------------------------------------
(* Ask: the pipeline *)

AskSteps == {"resolve", "intent", "time", "aggregate", "relation", "keywords", "fetch", "generate",
             "answered"}
Unsearched == {"resolve", "intent", "time", "aggregate", "relation", "keywords"}

AskRecord ==
    [step : AskSteps, entry : {"dashboard", "mcp"}, question : Question, query : Seq(Pattern),
     found : UNION {[D -> Seq(Nat)] : D \in SUBSET Phases}, results : Seq(Nat),
     told : {"", "nothing", "numbers", "answer", "memories", "error"}, spent : Nat,
     known : SUBSET Nat]

Real(i) == memories[i].source \notin Aggregates
AskedOf(a, i) == Real(i) /\ \E n \in DOMAIN a.query : Has(i, a.query[n])

\* What was found in a phase is all that was known and asked for, and no aggregate.
FoundFor(a, p) ==
    /\ \A i \in ToSet(a.found[p]) : i \in Ids /\ Real(i)
    /\ \A i \in a.known : memories[i].phase = p /\ AskedOf(a, i) => i \in ToSet(a.found[p])

\* The phases that are searched so far.
Stages(entry) ==
    LET o == Order(entry) IN {{}, {o[1]}, {o[1], o[2]}, Phases}

Budget(step) == IF step \in Unsearched THEN 0 ELSE IF step = "answered" THEN 26 ELSE 8

AskIs(a) ==
    /\ a \in AskRecord
    /\ a.known \subseteq Ids
    /\ a.step = "resolve" => a.entry = "dashboard"
    /\ a.entry = "mcp" => a.spent <= Budget(a.step)
    /\ a.step \in Unsearched => a.query = <<>> /\ DOMAIN a.found = {}
    /\ a.step \in Unsearched \cup {"fetch"} => a.results = <<>>
    /\ a.step = "fetch" => DOMAIN a.found \in Stages(a.entry) /\ \A p \in DOMAIN a.found : FoundFor(a, p)
    /\ a.query # <<>> /\ a.step \in {"generate", "answered"} =>
         \A i \in ToSet(a.results) : i \in Ids /\ Real(i)
    /\ a.query # <<>> /\ a.step = "answered" /\ a.told = "nothing" =>
         \A i \in a.known : ~AskedOf(a, i)

AskInv == MemoriesTyped /\ (ask = NoAsk \/ AskIs(ask))

LEMMA OrderOfPhases ==
    ASSUME NEW entry \in {"dashboard", "mcp"}
    PROVE  /\ Len(Order(entry)) = 3
           /\ \A D \in Stages(entry) :
                /\ D \in SUBSET Phases /\ Cardinality(D) \in Nat /\ Cardinality(D) <= 3
                /\ Cardinality(D) < 3 =>
                     LET p == Order(entry)[Cardinality(D) + 1]
                     IN  p \in Phases /\ D \cup {p} \in Stages(entry)
                /\ Cardinality(D) = 3 => D = Phases
<1> DEFINE o == Order(entry)
<1>1. /\ Len(o) = 3 /\ o[1] \in Phases /\ o[2] \in Phases /\ o[3] \in Phases
      /\ o[1] # o[2] /\ o[1] # o[3] /\ o[2] # o[3]
      /\ Phases = {o[1], o[2]} \cup {o[3]}
  BY DEF Order, Phases
<1> HIDE DEF o
<1>2. IsFiniteSet({}) /\ Cardinality({}) = 0
  BY FS_EmptySet
<1>3. IsFiniteSet({o[1]}) /\ Cardinality({o[1]}) = 1
  BY FS_Singleton
<1>4. {o[1], o[2]} = {o[1]} \cup {o[2]} /\ {o[1]} = {} \cup {o[1]}
  OBVIOUS
<1>5. IsFiniteSet({o[1], o[2]}) /\ Cardinality({o[1], o[2]}) = 2
  <2>1. o[2] \notin {o[1]}
    BY <1>1
  <2>2. IsFiniteSet({o[1]} \cup {o[2]}) /\ Cardinality({o[1]} \cup {o[2]}) = 1 + 1
    BY <1>3, <2>1, FS_AddElement
  <2> QED
    BY <1>4, <2>2
<1>6. IsFiniteSet(Phases) /\ Cardinality(Phases) = 3
  <2>1. o[3] \notin {o[1], o[2]}
    BY <1>1
  <2>2. IsFiniteSet({o[1], o[2]} \cup {o[3]}) /\ Cardinality({o[1], o[2]} \cup {o[3]}) = 2 + 1
    BY <1>5, <2>1, FS_AddElement
  <2> QED
    BY <1>1, <2>2
<1>7. Stages(entry) = {{}, {o[1]}, {o[1], o[2]}, Phases}
  BY Zenon DEF Stages, o
<1> DEFINE Goes(D) ==
      /\ D \in SUBSET Phases /\ Cardinality(D) \in Nat /\ Cardinality(D) <= 3
      /\ Cardinality(D) < 3 => o[Cardinality(D) + 1] \in Phases
                               /\ D \cup {o[Cardinality(D) + 1]} \in Stages(entry)
      /\ Cardinality(D) = 3 => D = Phases
<1>8. Goes({})
  <2>1. o[Cardinality({}) + 1] = o[1]
    BY <1>2
  <2> QED
    BY <1>1, <1>2, <1>4, <1>7, <2>1
<1>9. Goes({o[1]})
  <2>1. o[Cardinality({o[1]}) + 1] = o[2]
    BY <1>3
  <2> QED
    BY <1>1, <1>3, <1>4, <1>7, <2>1
<1>10. Goes({o[1], o[2]})
  <2>1. o[Cardinality({o[1], o[2]}) + 1] = o[3]
    BY <1>5
  <2> QED
    BY <1>1, <1>5, <1>7, <2>1
<1>11. Goes(Phases)
  BY <1>6
<1>12. \A D \in Stages(entry) : Goes(D)
  <2> HIDE DEF Goes
  <2> QED
    BY <1>7, <1>8, <1>9, <1>10, <1>11
<1> QED
  BY <1>1, <1>12 DEF o

\* While memories arrive, what was known stays as it is.
LEMMA ArrivalKeepsAsk ==
    ASSUME AskInv, NEW m \in Shape, Insert(m), UNCHANGED ask
    PROVE  AskInv'
<1>1. MemoriesTyped' /\ Ids \subseteq Ids' /\ \A i \in Ids : memories'[i] = memories[i]
  BY InsertKeepsMemories DEF AskInv
<1>2. \A i \in Ids : i \in Ids' /\ (Real(i)' <=> Real(i)) /\ \A p : Has(i, p)' <=> Has(i, p)
  BY <1>1 DEF Real, Has
<1>3. \A a : \A i \in Ids : AskedOf(a, i)' <=> AskedOf(a, i)
  BY <1>2, Zenon DEF AskedOf
<1>4. ASSUME AskIs(ask)
      PROVE  AskIs(ask)'
  <2>1. ASSUME NEW p, FoundFor(ask, p)
        PROVE  FoundFor(ask, p)'
    <3>1. \A i \in ToSet(ask.found[p]) : i \in Ids' /\ Real(i)'
      BY <1>2, <2>1 DEF FoundFor
    <3>2. \A i \in ask.known : i \in Ids
      BY <1>4 DEF AskIs
    <3>3. \A i \in ask.known : memories'[i].phase = p /\ AskedOf(ask, i)' => i \in ToSet(ask.found[p])
      BY <1>1, <1>3, <2>1, <3>2 DEF FoundFor
    <3>4. ask' = ask
      OBVIOUS
    <3> QED
      BY <3>1, <3>3, <3>4, Zenon DEF FoundFor, AskedOf
  <2>2. ask' \in AskRecord /\ ask'.known \subseteq Ids'
    BY <1>1, <1>4 DEF AskIs
  <2>3. \A i \in ask.known : i \in Ids
    BY <1>4 DEF AskIs
  <2>4. ask.query # <<>> /\ ask.step \in {"generate", "answered"} =>
          \A i \in ToSet(ask.results) : i \in Ids' /\ Real(i)'
    BY <1>2, <1>4 DEF AskIs
  <2>5. ask.query # <<>> /\ ask.step = "answered" /\ ask.told = "nothing" =>
          \A i \in ask.known : ~AskedOf(ask, i)'
    BY <1>3, <1>4, <2>3 DEF AskIs
  <2>6. ask.step = "fetch" =>
          DOMAIN ask.found \in Stages(ask.entry) /\ \A p \in DOMAIN ask.found : FoundFor(ask, p)'
    BY <1>4, <2>1 DEF AskIs
  <2>7. /\ ask.step = "resolve" => ask.entry = "dashboard"
        /\ ask.entry = "mcp" => ask.spent <= Budget(ask.step)
        /\ ask.step \in Unsearched => ask.query = <<>> /\ DOMAIN ask.found = {}
        /\ ask.step \in Unsearched \cup {"fetch"} => ask.results = <<>>
    BY <1>4 DEF AskIs
  <2>8. ask' = ask
    OBVIOUS
  <2> QED
    BY <2>2, <2>4, <2>5, <2>6, <2>7, <2>8, Zenon DEF AskIs, AskedOf, FoundFor, Real
<1> QED
  BY <1>1, <1>4 DEF AskInv, NoAsk

LEMMA ListOfMore ==
    ASSUME NEW S, NEW T, S \subseteq T, NEW list \in Seq(S)
    PROVE  list \in Seq(T)
<1>1. list \in [1 .. Len(list) -> T] /\ Len(list) \in Nat
  OBVIOUS
<1> QED
  BY <1>1

LEMMA AskStays ==
    ASSUME UNCHANGED memories, NEW a, AskIs(a), ask' = a
    PROVE  AskIs(ask)'
<1>1. Ids' = Ids /\ (\A i : Real(i)' <=> Real(i)) /\ \A i, p : Has(i, p)' <=> Has(i, p)
  BY Zenon DEF Ids, Real, Has
<1>2. \A i : AskedOf(a, i)' <=> AskedOf(a, i)
  BY <1>1, Zenon DEF AskedOf
<1>3. \A p : FoundFor(a, p)' <=> FoundFor(a, p)
  BY <1>1, <1>2, Zenon DEF FoundFor
<1>4. AskIs(a)'
  BY <1>1, <1>2, <1>3, Zenon DEF AskIs
<1> QED
  BY <1>4, Zenon DEF AskIs, AskedOf, FoundFor

\* Nothing is asked for before the keywords are there.
LEMMA BeginIs ==
    ASSUME NEW entry \in {"dashboard", "mcp"}, NEW q \in Question, MemoriesTyped
    PROVE  AskIs([step |-> IF entry = "dashboard" THEN "resolve" ELSE "intent", entry |-> entry,
                  question |-> q, query |-> <<>>, found |-> [p \in {} |-> <<>>],
                  results |-> <<>>, told |-> "", spent |-> 0, known |-> Ids])
<1> DEFINE s == IF entry = "dashboard" THEN "resolve" ELSE "intent"
           none == [p \in {} |-> <<>>]
           a == [step |-> s, entry |-> entry, question |-> q, query |-> <<>>, found |-> none,
                 results |-> <<>>, told |-> "", spent |-> 0, known |-> Ids]
<1>1. s \in AskSteps /\ s \in Unsearched /\ (s = "resolve" => entry = "dashboard")
      /\ s \notin {"fetch", "generate", "answered"}
  BY DEF AskSteps, Unsearched
<1>2. none \in UNION {[D -> Seq(Nat)] : D \in SUBSET Phases} /\ DOMAIN none = {}
  <2>1. none \in [{} -> Seq(Nat)] /\ {} \in SUBSET Phases
    OBVIOUS
  <2> QED
    BY <2>1
<1>3. Ids \in SUBSET Nat
  BY IdsAre
<1>4. <<>> \in Seq(Nat) /\ <<>> \in Seq(Pattern) /\ 0 \in Nat
  OBVIOUS
<1> HIDE DEF s, none
<1>5. a \in AskRecord
  BY <1>1, <1>2, <1>3, <1>4 DEF AskRecord
<1>6. /\ a.step = s /\ a.entry = entry /\ a.query = <<>> /\ a.found = none /\ a.spent = 0
      /\ a.known = Ids /\ a.results = <<>>
  OBVIOUS
<1> HIDE DEF a
<1>7. Budget(s) = 0
  BY <1>1 DEF Budget
<1>8. AskIs(a)
  BY <1>1, <1>2, <1>5, <1>6, <1>7 DEF AskIs
<1> QED
  BY <1>8, Zenon DEF a, s, none

\* A step before the keywords.
LEMMA UnsearchedIs ==
    ASSUME AskIs(ask), ask.step \in Unsearched, NEW a \in AskRecord, a.query = ask.query,
           a.found = ask.found, a.known = ask.known, a.entry = ask.entry,
           a.step \notin {"resolve", "fetch"}, a.spent = ask.spent \/ ask.entry = "dashboard",
           a.step = "generate" \/ a.results = ask.results
    PROVE  AskIs(a)
<1>1. ask.query = <<>> /\ DOMAIN ask.found = {} /\ ask.known \subseteq Ids /\ ask.results = <<>>
      /\ (ask.entry = "mcp" => ask.spent <= 0)
  BY DEF AskIs, Budget
<1>2. Budget(a.step) \in Nat /\ a.spent \in Nat
  BY Zenon DEF Budget, AskRecord
<1>3. a.entry = "mcp" => a.spent <= Budget(a.step)
  <2>1. ask.entry = "mcp" => a.spent <= 0
    BY <1>1
  <2>2. a.spent <= 0 => a.spent <= Budget(a.step)
    BY <1>2
  <2> QED
    BY <2>1, <2>2
<1> QED
  BY <1>1, <1>3 DEF AskIs, Unsearched

LEMMA BeforeKeywordsKeeps ==
    ASSUME AskInv, ResolveContext \/ DetectIntent \/ FetchList \/ FetchAggregate
    PROVE  AskInv'
<1>1. MemoriesTyped
  BY DEF AskInv
<1>2. AskIs(ask) /\ ask.step \in Unsearched /\ ask \in AskRecord
  <2>1. ask.step \in {"resolve", "intent", "time", "relation", "aggregate"}
    BY Zenon DEF ResolveContext, DetectIntent, FetchList, FetchAggregate, At
  <2>2. NoAsk.step = "idle"
    BY DEF NoAsk
  <2>3. ask # NoAsk /\ ask.step \in Unsearched
    BY <2>1, <2>2 DEF Unsearched
  <2> QED
    BY <2>3 DEF AskInv, AskIs
<1>3. UNCHANGED memories
  BY Zenon DEF ResolveContext, DetectIntent, FetchList, FetchAggregate, Reads, searchVars
<1>4. ASSUME NEW a \in AskRecord, ask' = a, a.query = ask.query,
             a.found = ask.found, a.known = ask.known, a.entry = ask.entry,
             a.step \notin {"resolve", "fetch"}, a.spent = ask.spent \/ ask.entry = "dashboard",
             a.step = "generate" \/ a.results = ask.results
      PROVE  AskInv'
  <2>1. AskIs(a)
    BY <1>2, <1>4, UnsearchedIs
  <2>2. AskIs(ask)'
    BY <1>3, <1>4, <2>1, AskStays
  <2> QED
    BY <1>1, <1>3, <2>2 DEF AskInv, MemoriesTyped
<1>5. CASE ResolveContext
  <2>1. ask.entry = "dashboard"
    BY <1>2, <1>5, Zenon DEF ResolveContext, At, AskIs
  <2>2. "intent" \in AskSteps /\ "intent" \notin {"resolve", "fetch"}
    BY DEF AskSteps
  <2>3. CASE ask' = Go("intent")
    <3>1. Go("intent") \in AskRecord
      BY <1>2, <2>2, Zenon DEF Go, AskRecord
    <3>2. /\ Go("intent").query = ask.query /\ Go("intent").found = ask.found
          /\ Go("intent").known = ask.known /\ Go("intent").entry = ask.entry
          /\ Go("intent").step = "intent" /\ Go("intent").results = ask.results
      BY <1>2, Zenon DEF Go, AskRecord
    <3> QED
      BY <1>4, <2>1, <2>2, <2>3, <3>1, <3>2
  <2>4. CASE \E q \in Question, t \in {0, 15} :
               ask' = [Go("intent") EXCEPT !.question = q, !.spent = @ + t]
    <3>1. PICK q \in Question, t \in {0, 15} :
               ask' = [Go("intent") EXCEPT !.question = q, !.spent = @ + t]
      BY <2>4, Zenon
    <3> DEFINE a == [Go("intent") EXCEPT !.question = q, !.spent = @ + t]
    <3>2. ask.spent + t \in Nat
      <4>1. t \in Nat
        OBVIOUS
      <4>2. ask.spent \in Nat
        BY <1>2, Zenon DEF AskRecord
      <4> QED
        BY <4>1, <4>2
    <3>3. a \in AskRecord
      BY <1>2, <2>2, <3>2, Zenon DEF Go, AskRecord
    <3>4. /\ a.query = ask.query /\ a.found = ask.found /\ a.known = ask.known /\ a.entry = ask.entry
          /\ a.step = "intent" /\ a.results = ask.results
      BY <1>2, Zenon DEF Go, AskRecord
    <3> QED
      BY <1>4, <2>1, <2>2, <3>1, <3>3, <3>4
  <2> QED
    BY <1>5, <2>3, <2>4, Zenon DEF ResolveContext
<1>6. CASE DetectIntent
  <2> DEFINE a == Go(Intent)
  <2>1. ask' = a
    BY <1>6 DEF DetectIntent
  <2>2. Intent \in AskSteps /\ Intent \notin {"resolve", "fetch"}
    BY DEF Intent, AskSteps
  <2>3. /\ a \in AskRecord /\ a.query = ask.query /\ a.found = ask.found /\ a.known = ask.known
        /\ a.entry = ask.entry /\ a.step = Intent /\ a.spent = ask.spent
        /\ a.results = ask.results
    BY <1>2, <2>2, Zenon DEF Go, AskRecord
  <2> QED
    BY <1>4, <2>1, <2>2, <2>3
<1>7. ASSUME NEW told \in {"nothing", "numbers"}, ask' = Answer(told)
      PROVE  AskInv'
  <2> DEFINE a == Answer(told)
  <2>1. "answered" \in AskSteps /\ told \in {"", "nothing", "numbers", "answer", "memories", "error"}
    BY Zenon DEF AskSteps
  <2>2. /\ a \in AskRecord /\ a.query = ask.query /\ a.found = ask.found /\ a.known = ask.known
        /\ a.entry = ask.entry /\ a.step = "answered" /\ a.spent = ask.spent
        /\ a.results = ask.results
    BY <1>2, <2>1, Zenon DEF Answer, AskRecord
  <2> QED
    BY <1>4, <1>7, <2>2
<1>8. ASSUME NEW results \in Seq(Nat), ask' = [Go("generate") EXCEPT !.results = results]
      PROVE  AskInv'
  <2> DEFINE a == [Go("generate") EXCEPT !.results = results]
  <2>1. "generate" \in AskSteps
    BY DEF AskSteps
  <2>2. /\ a \in AskRecord /\ a.query = ask.query /\ a.found = ask.found /\ a.known = ask.known
        /\ a.entry = ask.entry /\ a.step = "generate" /\ a.spent = ask.spent
    BY <1>2, <2>1, Zenon DEF Go, AskRecord
  <2> QED
    BY <1>4, <1>8, <2>2
<1>9. Ids \in SUBSET Nat /\ \A list \in Seq(Ids) : list \in Seq(Nat)
  <2>1. Ids \subseteq Nat
    BY <1>1, IdsAre
  <2> QED
    BY <2>1, ListOfMore
<1>10. CASE FetchList
  <2>1. PICK is \in SUBSET Ids :
          ask' = IF is = {} THEN Answer("nothing")
                 ELSE [Go("generate") EXCEPT !.results = OldestFirst(is)]
    BY <1>10 DEF FetchList
  <2>2. OldestFirst(is) \in Seq(Nat)
    BY <1>1, <1>9, OldestFirstIs
  <2> QED
    BY <1>7, <1>8, <2>1, <2>2
<1>11. CASE FetchAggregate
  <2> DEFINE In(p) == [phase |-> p, project |-> "", tags |-> {}, exclude |-> {}]
  <2>1. ask.question.keywords \in Seq(Pattern)
    BY <1>2, AskAssumption, Zenon DEF AskRecord
  <2>2. \A s \in Strategy : s \in {"idf", "bm25", "hybrid"}
    BY SearchAssumption
  <2>3. CASE ask' = Answer("numbers")
    BY <1>7, <2>3
  <2>4. CASE \E s \in Strategy :
               \E organized \in SearchResults(ask.question.keywords, In("organized"), s) :
                 LET results == organized \o SearchLike(ask.question.keywords, In("inbox"))
                 IN  ask' = IF results = <<>> THEN Answer("nothing")
                            ELSE [Go("generate") EXCEPT !.results = results]
    <3>1. PICK s \in Strategy :
                 \E organized \in SearchResults(ask.question.keywords, In("organized"), s) :
                 LET results == organized \o SearchLike(ask.question.keywords, In("inbox"))
                 IN  ask' = IF results = <<>> THEN Answer("nothing")
                            ELSE [Go("generate") EXCEPT !.results = results]
      BY <2>4, Zenon
    <3>6. PICK organized \in SearchResults(ask.question.keywords, In("organized"), s) :
                 LET results == organized \o SearchLike(ask.question.keywords, In("inbox"))
                 IN  ask' = IF results = <<>> THEN Answer("nothing")
                            ELSE [Go("generate") EXCEPT !.results = results]
      BY <3>1, Zenon
    <3> DEFINE results == organized \o SearchLike(ask.question.keywords, In("inbox"))
    <3>2. organized \in Seq(Ids)
      BY <1>1, <2>1, <2>2, SearchRight, Zenon DEF FoundRight
    <3>3. SearchLike(ask.question.keywords, In("inbox")) \in Seq(Ids)
      BY <1>1, <2>1, SearchLikeIs, Zenon
    <3>4. results \in Seq(Nat)
      <4>1. organized \in Seq(Nat) /\ SearchLike(ask.question.keywords, In("inbox")) \in Seq(Nat)
        BY <1>9, <3>2, <3>3, Zenon
      <4> HIDE DEF In
      <4> QED
        BY <4>1
    <3>5. ask' = IF results = <<>> THEN Answer("nothing")
                 ELSE [Go("generate") EXCEPT !.results = results]
      BY <3>6, Zenon
    <3> HIDE DEF results
    <3> QED
      BY <1>7, <1>8, <3>4, <3>5, Zenon
  <2> QED
    BY <1>11, <2>3, <2>4, Zenon DEF FetchAggregate
<1> QED
  BY <1>5, <1>6, <1>10, <1>11

OfPhase(p) == [phase |-> p, project |-> "", tags |-> {}, exclude |-> Excluded]

\* The search in a phase finds all of it that is real and has a keyword.
LEMMA PhaseIsSearched ==
    ASSUME MemoriesTyped, NEW q \in Seq(Pattern), NEW p \in Phases
    PROVE  /\ SearchWithExpansion(q, OfPhase(p)) \in Seq(Nat)
           /\ \A i \in ToSet(SearchWithExpansion(q, OfPhase(p))) : i \in Ids /\ Real(i)
           /\ \A i \in Ids : memories[i].phase = p /\ Real(i) /\ (\E n \in DOMAIN q : Has(i, q[n]))
                => i \in ToSet(SearchWithExpansion(q, OfPhase(p)))
<1> DEFINE f == OfPhase(p)
           found == SearchWithExpansion(q, f)
<1>1. found \in Seq(Ids) /\ Finds("expansion", q, f, found)
  BY ExpansionRight DEF FoundRight
<1>2. Ids \subseteq Nat
  BY IdsAre
<1>3. found \in Seq(Nat) /\ ToSet(found) \subseteq Ids
  <2>1. found \in Seq(Nat)
    BY <1>1, <1>2, ListOfMore
  <2>2. \A n \in DOMAIN found : found[n] \in Ids
    BY <1>1
  <2> QED
    BY <2>1, <2>2 DEF ToSet
<1>4. f.phase = p /\ f.project = "" /\ f.tags = {} /\ f.exclude = Aggregates
  BY DEF OfPhase, Excluded
<1>5. \A i : HasTags(i, f)
  BY <1>4, Zenon DEF HasTags
<1> HIDE DEF f, found
<1>6. \A i \in ToSet(found) : Real(i)
  BY <1>1, <1>4, Zenon DEF Finds, Real
<1>7. ASSUME NEW i \in Ids, memories[i].phase = p, Real(i), \E n \in DOMAIN q : Has(i, q[n])
      PROVE  i \in ToSet(found)
  <2>1. Contains(found, i)
    BY <1>1, <1>4, <1>5, <1>7, Zenon DEF Finds, Real
  <2> QED
    BY <1>1, <2>1, ContainsIs
<1> QED
  BY <1>3, <1>6, <1>7 DEF f, found

LEMMA ExtractKeywordsKeeps ==
    ASSUME AskInv, ExtractKeywords
    PROVE  AskInv'
<1>1. MemoriesTyped /\ ask.step = "keywords" /\ UNCHANGED memories
  BY DEF AskInv, ExtractKeywords, At, Reads, searchVars
<1>2. AskIs(ask) /\ ask \in AskRecord
  BY <1>1 DEF AskInv, AskIs, NoAsk
<1>3. PICK k \in {ask.question.keywords, ask.question.split} :
        ask' = [Go("fetch") EXCEPT !.query = k, !.spent = @ + KeywordsTimeout(ask.entry)]
  BY DEF ExtractKeywords
<1>4. k \in Seq(Pattern)
  <2>1. ask.question \in Question
    BY <1>2, Zenon DEF AskRecord
  <2> QED
    BY <2>1, AskAssumption
<1> DEFINE s == ask.spent + KeywordsTimeout(ask.entry)
           a == [Go("fetch") EXCEPT !.query = k, !.spent = s]
<1>5. s \in Nat /\ (ask.entry = "mcp" => s <= 8)
  <2>1. ask.spent \in Nat
    BY <1>2, Zenon DEF AskRecord
  <2>2. ask.entry = "mcp" => ask.spent <= 0
    BY <1>1, <1>2 DEF AskIs, Budget, Unsearched
  <2>3. KeywordsTimeout(ask.entry) \in Nat /\ (ask.entry = "mcp" => KeywordsTimeout(ask.entry) = 8)
    BY DEF KeywordsTimeout
  <2> HIDE DEF AskIs
  <2> QED
    BY <2>1, <2>2, <2>3
<1>6. ask' = a
  BY <1>2, <1>3, Zenon DEF Go, AskRecord
<1> HIDE DEF s
<1>7. "fetch" \in AskSteps /\ "fetch" \notin Unsearched /\ Budget("fetch") = 8
  BY DEF AskSteps, Unsearched, Budget
<1>8. a \in AskRecord
  BY <1>2, <1>4, <1>5, <1>7, Zenon DEF Go, AskRecord
<1>9. /\ a.step = "fetch" /\ a.entry = ask.entry /\ a.query = k /\ a.spent = s
      /\ a.found = ask.found /\ a.known = ask.known /\ a.results = ask.results
  BY <1>2, Zenon DEF Go, AskRecord
<1>10. DOMAIN ask.found = {} /\ ask.known \subseteq Ids /\ ask.results = <<>>
  BY <1>1, <1>2 DEF AskIs, Unsearched
<1>11. DOMAIN ask.found \in Stages(ask.entry)
  BY <1>10 DEF Stages
<1> HIDE DEF a
<1>12. AskIs(a)
  BY <1>5, <1>7, <1>8, <1>9, <1>10, <1>11 DEF AskIs
<1>13. AskIs(ask)'
  BY <1>1, <1>6, <1>12, AskStays
<1> QED
  BY <1>1, <1>13 DEF AskInv, MemoriesTyped

LEMMA FetchPhaseKeeps ==
    ASSUME AskInv, FetchPhase
    PROVE  AskInv'
<1>1. MemoriesTyped /\ ask.step = "fetch" /\ UNCHANGED memories
  BY Zenon DEF AskInv, FetchPhase, At, Reads, searchVars
<1>2. AskIs(ask) /\ ask \in AskRecord
  BY <1>1 DEF AskInv, AskIs, NoAsk
<1>3. ask.entry \in {"dashboard", "mcp"} /\ ask.query \in Seq(Pattern)
  BY <1>2, Zenon DEF AskRecord
<1> DEFINE D == DOMAIN ask.found
           p == Order(ask.entry)[Cardinality(D) + 1]
           list == SearchWithExpansion(ask.query, OfPhase(p))
           found == [x \in DOMAIN ask.found \cup {p} |-> IF x = p THEN list ELSE ask.found[x]]
           a == [ask EXCEPT !.found = found]
<1>4. D \in Stages(ask.entry) /\ \A x \in D : FoundFor(ask, x)
  BY <1>1, <1>2 DEF AskIs
<1>5. Cardinality(D) < Len(Order(ask.entry)) /\ ask' = a
  <2>1. Cardinality(D) < Len(Order(ask.entry))
    BY Zenon DEF FetchPhase
  <2>2. ask' = a
    BY Zenon DEF FetchPhase, OfPhase
  <2> QED
    BY <2>1, <2>2
<1>6. Cardinality(D) < 3 /\ p \in Phases /\ D \cup {p} \in Stages(ask.entry) /\ D \in SUBSET Phases
  <2> HIDE DEF D
  <2>1. /\ Len(Order(ask.entry)) = 3 /\ D \in SUBSET Phases
        /\ Cardinality(D) < 3 => p \in Phases /\ D \cup {p} \in Stages(ask.entry)
    BY <1>3, <1>4, OrderOfPhases, Zenon
  <2> HIDE DEF p
  <2> QED
    BY <1>5, <2>1
<1> HIDE DEF p
<1>7. /\ list \in Seq(Nat)
      /\ \A i \in ToSet(list) : i \in Ids /\ Real(i)
      /\ \A i \in Ids : memories[i].phase = p /\ Real(i) /\ (\E n \in DOMAIN ask.query : Has(i, ask.query[n]))
           => i \in ToSet(list)
  BY <1>1, <1>3, <1>6, PhaseIsSearched
<1> HIDE DEF list
<1>8. /\ DOMAIN found = D \cup {p}
      /\ found[p] = list
      /\ \A x \in D : x # p => found[x] = ask.found[x]
  OBVIOUS
<1>9. found \in UNION {[E -> Seq(Nat)] : E \in SUBSET Phases}
  <2>1. PICK E \in SUBSET Phases : ask.found \in [E -> Seq(Nat)]
    <3>1. ask.found \in UNION {[E -> Seq(Nat)] : E \in SUBSET Phases}
      BY <1>2, Zenon DEF AskRecord
    <3> QED
      BY <3>1
  <2>2. found \in [D \cup {p} -> Seq(Nat)]
    BY <1>7, <1>8, <2>1
  <2> HIDE DEF found
  <2> QED
    BY <1>6, <2>2
<1> HIDE DEF found, D
<1>10. a \in AskRecord
  BY <1>2, <1>9, Zenon DEF AskRecord
<1>11. /\ a.step = "fetch" /\ a.entry = ask.entry /\ a.query = ask.query /\ a.spent = ask.spent
       /\ a.found = found /\ a.known = ask.known /\ a.results = ask.results
  BY <1>1, <1>2, Zenon DEF AskRecord
<1> HIDE DEF a
<1>12. ASSUME NEW x \in D \cup {p}
       PROVE  FoundFor(a, x)
  <2>1. \A i : AskedOf(a, i) <=> AskedOf(ask, i)
    BY <1>11 DEF AskedOf
  <2>2. CASE x \in D /\ x # p
    BY <1>4, <1>8, <1>11, <2>1, <2>2 DEF FoundFor
  <2>3. CASE x = p
    <3>1. a.found[x] = list /\ \A i \in a.known : i \in Ids
      BY <1>2, <1>8, <1>11, <2>3 DEF AskIs
    <3>2. \A i \in a.known : memories[i].phase = p /\ AskedOf(a, i) => i \in ToSet(list)
      BY <1>7, <1>11, <3>1 DEF AskedOf
    <3> QED
      BY <1>7, <2>3, <3>1, <3>2 DEF FoundFor
  <2> QED
    BY <1>12, <2>2, <2>3
<1>13. ask.known \subseteq Ids /\ (ask.entry = "mcp" => ask.spent <= Budget("fetch"))
       /\ "fetch" \notin Unsearched /\ ask.results = <<>>
  BY <1>1, <1>2 DEF AskIs, Unsearched
<1>14. AskIs(a)
  BY <1>6, <1>8, <1>10, <1>11, <1>12, <1>13 DEF AskIs
<1>15. AskIs(ask)'
  BY <1>1, <1>5, <1>14, AskStays
<1> QED
  BY <1>1, <1>15 DEF AskInv, MemoriesTyped

LEMMA LesserOfTwo ==
    ASSUME NEW a \in Int, NEW b \in Int
    PROVE  Min({a, b}) = IF a <= b THEN a ELSE b
<1> DEFINE m == IF a <= b THEN a ELSE b
<1>1. m \in {a, b} /\ \A y \in {a, b} : m <= y
  OBVIOUS
<1>2. \A x \in {a, b} : (\A y \in {a, b} : x <= y) => x = m
  OBVIOUS
<1> HIDE DEF m
<1>3. (CHOOSE x \in {a, b} : \A y \in {a, b} : x <= y) = m
  BY <1>1, <1>2
<1>4. Min({a, b}) = m
  BY <1>3, Zenon DEF Min
<1> QED
  BY <1>4 DEF m

\* The first n elements of a list.
FirstOf(list, n) == SubSeq(list, 1, Min({n, Len(list)}))

LEMMA FirstOfIs ==
    ASSUME NEW S, NEW list \in Seq(S), NEW n \in Nat
    PROVE  /\ FirstOf(list, n) \in Seq(S) /\ Len(FirstOf(list, n)) = IF n <= Len(list) THEN n ELSE Len(list)
           /\ \A m \in DOMAIN FirstOf(list, n) : m \in DOMAIN list /\ FirstOf(list, n)[m] = list[m]
           /\ ToSet(FirstOf(list, n)) \subseteq ToSet(list)
           /\ n > 0 /\ FirstOf(list, n) = <<>> => list = <<>>
           /\ IsInjective(list) => IsInjective(FirstOf(list, n))
<1> DEFINE k == IF n <= Len(list) THEN n ELSE Len(list)
           start == FirstOf(list, n)
<1>1. k \in Nat /\ k <= Len(list) /\ k <= n /\ Len(list) \in Nat
  OBVIOUS
<1>2. start = SubSeq(list, 1, k)
  <2>1. Min({n, Len(list)}) = k
    BY <1>1, LesserOfTwo
  <2> HIDE DEF k
  <2> QED
    BY <2>1 DEF FirstOf
<1> HIDE DEF k, start
<1>3. start \in Seq(S) /\ Len(start) = k /\ \A m \in 1 .. k : start[m] = list[m]
  BY <1>1, <1>2
<1>4. DOMAIN start = 1 .. k /\ DOMAIN list = 1 .. Len(list)
  BY <1>3
<1>5. \A m \in DOMAIN start : m \in DOMAIN list /\ start[m] = list[m]
  BY <1>1, <1>3, <1>4
<1>6. ToSet(start) \subseteq ToSet(list)
  BY <1>5 DEF ToSet
<1>7. n > 0 /\ start = <<>> => list = <<>>
  BY <1>1, <1>3 DEF k
<1>8. IsInjective(list) => IsInjective(start)
  BY <1>5 DEF IsInjective
<1> QED
  BY <1>3, <1>5, <1>6, <1>7, <1>8 DEF start, k

LEMMA InJoined ==
    ASSUME NEW S, NEW a \in Seq(S), NEW b \in Seq(S)
    PROVE  /\ a \o b \in Seq(S) /\ (a \o b = <<>> => a = <<>> /\ b = <<>>)
           /\ \A x \in ToSet(a \o b) : x \in ToSet(a) \/ x \in ToSet(b)
<1> DEFINE c == a \o b
<1>1. c \in Seq(S) /\ Len(c) = Len(a) + Len(b) /\ Len(a) \in Nat /\ Len(b) \in Nat
  OBVIOUS
<1>2. \A n \in 1 .. Len(c) : c[n] = IF n <= Len(a) THEN a[n] ELSE b[n - Len(a)]
  OBVIOUS
<1>3. DOMAIN a = 1 .. Len(a) /\ DOMAIN b = 1 .. Len(b) /\ DOMAIN c = 1 .. Len(c)
  OBVIOUS
<1>4. c = <<>> => a = <<>> /\ b = <<>>
  BY <1>1
<1> HIDE DEF c
<1>5. ASSUME NEW n \in DOMAIN c
      PROVE  c[n] \in ToSet(a) \/ c[n] \in ToSet(b)
  <2>1. n \in Int /\ 1 <= n /\ n <= Len(a) + Len(b)
    BY <1>1, <1>3
  <2>2. CASE n <= Len(a)
    <3>1. n \in DOMAIN a /\ c[n] = a[n]
      BY <1>1, <1>2, <1>3, <2>1, <2>2
    <3> QED
      BY <3>1 DEF ToSet
  <2>3. CASE n > Len(a)
    <3>1. n - Len(a) \in DOMAIN b /\ c[n] = b[n - Len(a)]
      BY <1>1, <1>2, <1>3, <2>1, <2>3
    <3> QED
      BY <3>1 DEF ToSet
  <2> QED
    BY <1>1, <2>1, <2>2, <2>3
<1>6. \A x \in ToSet(c) : x \in ToSet(a) \/ x \in ToSet(b)
  BY <1>5 DEF ToSet
<1> QED
  BY <1>1, <1>4, <1>6 DEF c

LEMMA RankKeeps ==
    ASSUME AskInv, Rank
    PROVE  AskInv'
<1>1. MemoriesTyped /\ ask.step = "fetch" /\ UNCHANGED memories
  BY Zenon DEF AskInv, Rank, At, Reads, searchVars
<1>2. AskIs(ask) /\ ask \in AskRecord
  BY <1>1 DEF AskInv, AskIs, NoAsk
<1>3. ask.entry \in {"dashboard", "mcp"}
  BY <1>2, Zenon DEF AskRecord
<1> DEFINE D == DOMAIN ask.found
           share == Share[ask.entry][Len(ask.found["inbox"]) < Few]
           Part(p) == IF p \in DOMAIN ask.found
                      THEN SubSeq(ask.found[p], 1, Min({share[p], Len(ask.found[p])}))
                      ELSE <<>>
           results == Part("organized") \o Part("processed") \o Part("inbox")
<1>4. D \in Stages(ask.entry) /\ \A p \in D : FoundFor(ask, p)
  BY <1>1, <1>2 DEF AskIs
<1>5. D = Phases
  <2>1. Cardinality(D) = Len(Order(ask.entry))
    BY Zenon DEF Rank
  <2> HIDE DEF D
  <2>2. Len(Order(ask.entry)) = 3 /\ (Cardinality(D) = 3 => D = Phases)
    BY <1>3, <1>4, OrderOfPhases, Zenon
  <2> QED
    BY <2>1, <2>2
<1>6. ask' = IF results = <<>> THEN Answer("nothing") ELSE [Go("generate") EXCEPT !.results = results]
  BY Zenon DEF Rank
<1>7. share \in [Phases -> Nat \ {0}]
  <2>1. (Len(ask.found["inbox"]) < Few) \in BOOLEAN
    OBVIOUS
  <2> QED
    BY <1>3, <2>1, AskAssumption
<1>8. ask.found \in [Phases -> Seq(Nat)]
  <2>1. ask.found \in UNION {[E -> Seq(Nat)] : E \in SUBSET Phases}
    BY <1>2, Zenon DEF AskRecord
  <2>2. PICK E \in SUBSET Phases : ask.found \in [E -> Seq(Nat)]
    BY <2>1
  <2> QED
    BY <1>5, <2>2
<1> HIDE DEF share
<1>9. ASSUME NEW p \in Phases
      PROVE  /\ Part(p) \in Seq(Nat) /\ ToSet(Part(p)) \subseteq ToSet(ask.found[p])
             /\ Part(p) = <<>> => ask.found[p] = <<>>
  <2>1. ask.found[p] \in Seq(Nat) /\ share[p] \in Nat /\ share[p] > 0
    BY <1>7, <1>8
  <2>2. Part(p) = FirstOf(ask.found[p], share[p])
    BY <1>5, Zenon DEF FirstOf
  <2> HIDE DEF Part
  <2> QED
    BY <2>1, <2>2, FirstOfIs
<1> HIDE DEF Part, D
<1>10. "organized" \in Phases /\ "processed" \in Phases /\ "inbox" \in Phases
       /\ Phases = {"organized", "processed", "inbox"}
  BY DEF Phases
<1>11. /\ results \in Seq(Nat)
       /\ results = <<>> => \A p \in Phases : Part(p) = <<>>
       /\ \A i \in ToSet(results) : \E p \in Phases : i \in ToSet(Part(p))
  <2> DEFINE two == Part("organized") \o Part("processed")
  <2>1. Part("organized") \in Seq(Nat) /\ Part("processed") \in Seq(Nat) /\ Part("inbox") \in Seq(Nat)
    BY <1>9, <1>10
  <2>2. /\ two \in Seq(Nat) /\ (two = <<>> => Part("organized") = <<>> /\ Part("processed") = <<>>)
        /\ \A x \in ToSet(two) : x \in ToSet(Part("organized")) \/ x \in ToSet(Part("processed"))
    BY <2>1, InJoined
  <2>3. results = two \o Part("inbox")
    OBVIOUS
  <2> HIDE DEF two, results
  <2>4. /\ results \in Seq(Nat) /\ (results = <<>> => two = <<>> /\ Part("inbox") = <<>>)
        /\ \A x \in ToSet(results) : x \in ToSet(two) \/ x \in ToSet(Part("inbox"))
    BY <2>1, <2>2, <2>3, InJoined
  <2> QED
    BY <1>10, <2>2, <2>4, Zenon
<1> HIDE DEF results
<1>12. \A i \in ToSet(results) : i \in Ids /\ Real(i)
  BY <1>4, <1>5, <1>9, <1>11 DEF FoundFor
<1>13. ASSUME results = <<>>, NEW i \in ask.known, AskedOf(ask, i)
       PROVE  FALSE
  <2>1. i \in Ids
    BY <1>2, <1>13 DEF AskIs
  <2> DEFINE p == memories[i].phase
  <2>2. p \in Phases
    BY <1>1, <2>1, SearchAssumption, IdsAre
  <2>3. i \in ToSet(ask.found[p])
    BY <1>4, <1>5, <1>13, <2>2 DEF FoundFor
  <2>4. ask.found[p] = <<>>
    BY <1>9, <1>11, <1>13, <2>2
  <2> HIDE DEF p
  <2> QED
    BY <2>3, <2>4 DEF ToSet
<1>14. ask.known \subseteq Ids /\ (ask.entry = "mcp" => ask.spent <= 8) /\ ask.spent \in Nat
  <2>1. ask.spent \in Nat
    BY <1>2, Zenon DEF AskRecord
  <2>2. Budget(ask.step) = 8
    BY <1>1 DEF Budget, Unsearched
  <2> QED
    BY <1>2, <2>1, <2>2 DEF AskIs
<1>15. /\ {"answered", "generate"} \subseteq AskSteps
       /\ "nothing" \in {"", "nothing", "numbers", "answer", "memories", "error"}
       /\ "answered" \notin Unsearched /\ "generate" \notin Unsearched
       /\ Budget("answered") = 26 /\ Budget("generate") = 8
  BY DEF AskSteps, Unsearched, Budget
<1>16. CASE results = <<>>
  <2> DEFINE a == Answer("nothing")
  <2>1. a \in AskRecord
    BY <1>2, <1>15, Zenon DEF Answer, AskRecord
  <2>2. /\ a.step = "answered" /\ a.entry = ask.entry /\ a.query = ask.query /\ a.spent = ask.spent
        /\ a.known = ask.known /\ a.results = ask.results
    BY <1>2, Zenon DEF Answer, AskRecord
  <2>3. ask' = a
    BY <1>6, <1>16
  <2>4. \A i \in a.known : ~AskedOf(a, i)
    BY <1>13, <1>16, <2>2 DEF AskedOf
  <2>5. \A i \in ToSet(a.results) : FALSE
    <3>1. ask.results = <<>>
      BY <1>1, <1>2 DEF AskIs
    <3> QED
      BY <2>2, <3>1 DEF ToSet
  <2> HIDE DEF a
  <2>6. AskIs(a)
    BY <1>14, <1>15, <2>1, <2>2, <2>4, <2>5 DEF AskIs
  <2>7. AskIs(ask)'
    BY <1>1, <2>3, <2>6, AskStays
  <2> QED
    BY <1>1, <2>7 DEF AskInv, MemoriesTyped
<1>17. CASE results # <<>>
  <2> DEFINE a == [Go("generate") EXCEPT !.results = results]
  <2>1. a \in AskRecord
    BY <1>2, <1>11, <1>15, Zenon DEF Go, AskRecord
  <2>2. /\ a.step = "generate" /\ a.entry = ask.entry /\ a.query = ask.query /\ a.spent = ask.spent
        /\ a.known = ask.known /\ a.results = results
    BY <1>2, Zenon DEF Go, AskRecord
  <2>3. ask' = a
    BY <1>6, <1>17
  <2> HIDE DEF a
  <2>4. AskIs(a)
    BY <1>12, <1>14, <1>15, <2>1, <2>2 DEF AskIs
  <2>5. AskIs(ask)'
    BY <1>1, <2>3, <2>4, AskStays
  <2> QED
    BY <1>1, <2>5 DEF AskInv, MemoriesTyped
<1> QED
  BY <1>16, <1>17

LEMMA GenerateKeeps ==
    ASSUME AskInv, Generate
    PROVE  AskInv'
<1>1. MemoriesTyped /\ ask.step = "generate" /\ UNCHANGED memories
  BY DEF AskInv, Generate, At, Reads, searchVars
<1>2. AskIs(ask) /\ ask \in AskRecord
  BY <1>1 DEF AskInv, AskIs, NoAsk
<1>3. PICK told \in {"answer", IF ask.entry = "mcp" THEN "memories" ELSE "error"} :
        ask' = [Answer(told) EXCEPT !.spent = @ + GenerateTimeout(ask.entry)]
  BY DEF Generate
<1>4. told \in {"", "nothing", "numbers", "answer", "memories", "error"} /\ told # "nothing"
  BY Zenon
<1> DEFINE s == ask.spent + GenerateTimeout(ask.entry)
           a == [Answer(told) EXCEPT !.spent = s]
<1>5. s \in Nat /\ (ask.entry = "mcp" => s <= 26)
  <2>1. ask.spent \in Nat
    BY <1>2, Zenon DEF AskRecord
  <2>2. ask.entry = "mcp" => ask.spent <= 8
    BY <1>1, <1>2 DEF AskIs, Budget, Unsearched
  <2>3. GenerateTimeout(ask.entry) \in Nat /\ (ask.entry = "mcp" => GenerateTimeout(ask.entry) = 18)
    BY DEF GenerateTimeout
  <2> QED
    BY <2>1, <2>2, <2>3
<1>6. ask' = a
  BY <1>2, <1>3, Zenon DEF Answer, AskRecord
<1> HIDE DEF s
<1>7. "answered" \in AskSteps /\ "answered" \notin Unsearched /\ Budget("answered") = 26
  BY DEF AskSteps, Unsearched, Budget
<1>8. a \in AskRecord
  BY <1>2, <1>4, <1>5, <1>7, Zenon DEF Answer, AskRecord
<1>9. /\ a.step = "answered" /\ a.entry = ask.entry /\ a.query = ask.query /\ a.spent = s
      /\ a.results = ask.results /\ a.known = ask.known /\ a.told = told
  BY <1>2, Zenon DEF Answer, AskRecord
<1>10. /\ ask.known \subseteq Ids
       /\ ask.query # <<>> => \A i \in ToSet(ask.results) : i \in Ids /\ Real(i)
  BY <1>1, <1>2 DEF AskIs
<1> HIDE DEF a
<1>11. AskIs(a)
  BY <1>4, <1>5, <1>7, <1>8, <1>9, <1>10, Zenon DEF AskIs
<1>12. AskIs(ask)'
  BY <1>1, <1>6, <1>11, AskStays
<1> QED
  BY <1>1, <1>12 DEF AskInv, MemoriesTyped

LEMMA AskUnchanged ==
    ASSUME AskInv, UNCHANGED memories, UNCHANGED ask
    PROVE  AskInv'
<1>1. CASE ask = NoAsk
  BY <1>1 DEF AskInv, MemoriesTyped, NoAsk
<1>2. CASE AskIs(ask)
  BY <1>2, AskStays DEF AskInv, MemoriesTyped
<1> QED
  BY <1>1, <1>2 DEF AskInv

LEMMA AskKeeps ==
    ASSUME AskInv, AskNext
    PROVE  AskInv'
<1>1. ASSUME NEW entry \in {"dashboard", "mcp"}, NEW q \in Question, Begin(entry, q)
      PROVE  AskInv'
  <2> DEFINE a == [step |-> IF entry = "dashboard" THEN "resolve" ELSE "intent", entry |-> entry,
                   question |-> q, query |-> <<>>, found |-> [p \in {} |-> <<>>],
                   results |-> <<>>, told |-> "", spent |-> 0, known |-> Ids]
  <2>1. ask' = a /\ UNCHANGED memories
    BY <1>1, Zenon DEF Begin, Reads, searchVars
  <2>2. AskIs(a)
    BY BeginIs, Zenon DEF AskInv
  <2> HIDE DEF a
  <2>3. AskIs(ask)'
    BY <2>1, <2>2, AskStays
  <2> QED
    BY <2>1, <2>3 DEF AskInv, MemoriesTyped
<1>2. CASE AskStep
  BY <1>2, BeforeKeywordsKeeps, ExtractKeywordsKeeps, FetchPhaseKeeps, RankKeeps, GenerateKeeps
     DEF AskStep
<1>3. ASSUME NEW m \in Shape, Arrive(m)
      PROVE  AskInv'
  BY <1>3, ArrivalKeepsAsk DEF Arrive
<1> QED
  BY <1>1, <1>2, <1>3 DEF AskNext

LEMMA AskStarts == Init => AskInv
<1> SUFFICES ASSUME Init
             PROVE  AskInv
  OBVIOUS
<1>1. memories = <<>> /\ ask = NoAsk
  BY DEF Init, AskInit, SearchInit
<1>2. MaxMemories \in Nat
  BY SearchAssumption
<1> QED
  BY <1>1, <1>2 DEF AskInv, MemoriesTyped

\* A search of another kind, and the agent, are at work only while nothing is asked.
LEMMA PipelineKeeps == AskInv /\ [Next]_vars => AskInv'
<1> SUFFICES ASSUME AskInv, [Next]_vars
             PROVE  AskInv'
  OBVIOUS
<1>1. CASE AskNext
  BY <1>1, AskKeeps
<1>2. CASE UNCHANGED memories /\ UNCHANGED ask
  BY <1>2, AskUnchanged
<1>3. ASSUME NEW m \in Shape, Insert(m), UNCHANGED ask
      PROVE  AskInv'
  BY <1>3, ArrivalKeepsAsk
<1>4. SearchNext => UNCHANGED memories \/ \E m \in Shape : Insert(m)
  BY DEF SearchNext, Find
<1>5. AgentNext => UNCHANGED memories \/ \E m \in Shape : Insert(m)
  BY ReadingStep DEF searchVars
<1> QED
  BY <1>1, <1>2, <1>3, <1>4, <1>5
     DEF Next, vars, OfMemories, OfAgent, OfTimes, OfModel, OfTools, OfPages, OfBoard, OfRebuild,
         OfDatabase, askVars, searchVars

LEMMA PipelineTells == AskInv => PipelineGrounded
<1> SUFFICES ASSUME AskInv
             PROVE  PipelineGrounded
  OBVIOUS
<1>1. CASE ask = NoAsk
  BY <1>1 DEF PipelineGrounded, NoAsk, At, Asked
<1>2. CASE AskIs(ask)
  <2>1. ASSUME Asked, At("answered"), ask.told = "nothing", NEW i \in ask.known,
               NEW n \in DOMAIN ask.query, memories[i].source \notin Aggregates
        PROVE  ~Has(i, ask.query[n])
    BY <1>2, <2>1 DEF AskIs, Asked, At, AskedOf, Real
  <2>2. ASSUME Asked, At("answered"), NEW i \in ToSet(ask.results)
        PROVE  memories[i].source \notin Aggregates
    BY <1>2, <2>2 DEF AskIs, Asked, At, Real
  <2>3. ASSUME ask.entry = "mcp"
        PROVE  ask.spent <= 30
    <3>1. ask.spent \in Nat
      BY <1>2, Zenon DEF AskIs, AskRecord
    <3>2. Budget(ask.step) \in Nat /\ Budget(ask.step) <= 26
      BY DEF Budget
    <3>3. ask.spent <= Budget(ask.step)
      BY <1>2, <2>3 DEF AskIs
    <3> QED
      BY <3>1, <3>2, <3>3
  <2> QED
    BY <2>1, <2>2, <2>3 DEF PipelineGrounded
<1> QED
  BY <1>1, <1>2 DEF AskInv

-----------------------------------------------------------------------------
(* AskAgent *)

LEMMA OnlyIs ==
    ASSUME NEW S, NEW list \in Seq(S), NEW places \in SUBSET DOMAIN list
    PROVE  /\ Only(list, places) \in Seq(S)
           /\ ToSet(Only(list, places)) = {list[n] : n \in places}
           /\ IsInjective(list) => IsInjective(Only(list, places))
<1> DEFINE score == [i \in places |-> 0]
           order == Sorted(places, score, FALSE)
           those == [n \in DOMAIN order |-> list[order[n]]]
<1>1. DOMAIN list = 1 .. Len(list) /\ Len(list) \in Nat
  OBVIOUS
<1>2. IsFiniteSet(DOMAIN list)
  <2> DEFINE n == Len(list)
  <2>1. n \in Nat /\ 1 \in Int /\ n \in Int
    BY <1>1
  <2> HIDE DEF n
  <2>2. IsFiniteSet(1 .. n)
    BY <2>1, FS_Interval
  <2> QED
    BY <1>1, <2>2 DEF n
<1>3. places \in SUBSET Int /\ IsFiniteSet(places)
  BY <1>1, <1>2, FS_Subset
<1>4. \A i \in places : score[i] \in Int
  OBVIOUS
<1>5. Only(list, places) = those
  BY Zenon DEF Only, OldestFirst
<1> HIDE DEF score
<1>6. SortedBy(order, places, score, FALSE)
  BY <1>3, <1>4, SortedIs
<1> HIDE DEF order
<1>7. order \in Seq(places) /\ ToSet(order) = places /\ IsInjective(order)
  BY <1>6 DEF SortedBy
<1>8. DOMAIN order = 1 .. Len(order) /\ Len(order) \in Nat /\ \A n \in DOMAIN order : order[n] \in places
  BY <1>7
<1>9. \A n \in DOMAIN order : those[n] \in S /\ those[n] = list[order[n]]
  BY <1>8
<1>10. those \in Seq(S) /\ DOMAIN those = DOMAIN order
  BY <1>8, <1>9
<1> HIDE DEF those
<1>11. ToSet(those) = {list[n] : n \in places}
  BY <1>7, <1>8, <1>9, <1>10 DEF ToSet
<1>12. IsInjective(list) => IsInjective(those)
  <2> SUFFICES ASSUME IsInjective(list), NEW m \in DOMAIN those, NEW n \in DOMAIN those,
                      those[m] = those[n]
               PROVE  m = n
    BY DEF IsInjective
  <2>1. list[order[m]] = list[order[n]] /\ order[m] \in DOMAIN list /\ order[n] \in DOMAIN list
    BY <1>8, <1>9, <1>10
  <2>2. order[m] = order[n]
    BY <2>1 DEF IsInjective
  <2> QED
    BY <1>7, <1>10, <2>2 DEF IsInjective
<1> QED
  BY <1>5, <1>10, <1>11, <1>12

\* What is new is added to what was collected, once.
LEMMA CollectedIs ==
    ASSUME NEW S, agent.collected \in Seq(S), IsInjective(agent.collected),
           NEW found \in Seq(S), IsInjective(found)
    PROVE  Collected(found) \in Seq(S) /\ IsInjective(Collected(found))
<1> DEFINE c == agent.collected
           new == {n \in DOMAIN found : found[n] \notin ToSet(c)}
           more == Only(found, new)
<1>1. more \in Seq(S) /\ ToSet(more) = {found[n] : n \in new} /\ IsInjective(more)
  BY OnlyIs
<1>2. Collected(found) = c \o more
  BY Zenon DEF Collected
<1> HIDE DEF more
<1>3. ToSet(c) \cap ToSet(more) = {}
  BY <1>1
<1> HIDE DEF c
<1>4. c \o more \in Seq(S) /\ IsInjective(c \o more)
  BY <1>1, <1>3, Joined DEF c
<1> QED
  BY <1>2, <1>4

InPhaseOf(is, p) == {i \in ToSet(is) : memories[i].phase = p}

LEMMA InPhaseIs ==
    ASSUME NEW S, NEW is \in Seq(S), NEW p
    PROVE  InPhase(is, p) \in Seq(S) /\ ToSet(InPhase(is, p)) = InPhaseOf(is, p)
<1> DEFINE places == {n \in DOMAIN is : memories[is[n]].phase = p}
<1>1. Only(is, places) \in Seq(S) /\ ToSet(Only(is, places)) = {is[n] : n \in places}
  BY OnlyIs
<1>2. {is[n] : n \in places} = InPhaseOf(is, p)
  BY DEF InPhaseOf, ToSet
<1> QED
  BY <1>1, <1>2 DEF InPhase

LEMMA UptoIs ==
    ASSUME NEW S, NEW is \in Seq(S), NEW n \in Nat
    PROVE  /\ Upto(is, n) \in Seq(S) /\ ToSet(Upto(is, n)) \subseteq ToSet(is)
           /\ n > 0 /\ Upto(is, n) = <<>> => is = <<>>
           /\ IsInjective(is) => IsInjective(Upto(is, n))
<1>1. Upto(is, n) = FirstOf(is, n)
  BY Zenon DEF Upto, FirstOf
<1> QED
  BY <1>1, FirstOfIs

LEMMA NumberOfImage ==
    ASSUME NEW S, IsFiniteSet(S), NEW f, \A i, j \in S : f[i] = f[j] => i = j
    PROVE  IsFiniteSet({f[i] : i \in S}) /\ Cardinality({f[i] : i \in S}) = Cardinality(S)
<1> DEFINE T == {f[i] : i \in S}
           g == [i \in S |-> f[i]]
<1>1. g \in Surjection(S, T)
  BY DEF Surjection
<1>2. g \in Injection(S, T)
  BY DEF Injection, IsInjective
<1> QED
  BY <1>1, <1>2, FS_Surjection

-----------------------------------------------------------------------------
\* The memories of a set by their days: the Nth of its day.
NthOf(is, i) == Cardinality({j \in is : DayOf[j] = DayOf[i] /\ j < i})
AheadByDay(is) ==
    [i \in is |-> {j \in is : \/ NthOf(is, j) < NthOf(is, i)
                              \/ NthOf(is, j) = NthOf(is, i) /\ DayOf[j] < DayOf[i]}]
FirstOfDays(is) == {i \in is : NthOf(is, i) = 0}
DaysOf(is) == {DayOf[i] : i \in is}

LEMMA NthIs ==
    ASSUME NEW is \in SUBSET Int, IsFiniteSet(is)
    PROVE  /\ \A i \in is : NthOf(is, i) \in Nat
           /\ \A i, j \in is : DayOf[i] = DayOf[j] /\ i < j => NthOf(is, i) < NthOf(is, j)
           /\ \A i \in is : NthOf(is, i) = 0 <=> \A j \in is : DayOf[j] = DayOf[i] => i <= j
<1> DEFINE S(i) == {j \in is : DayOf[j] = DayOf[i] /\ j < i}
<1>1. ASSUME NEW i \in is
      PROVE  IsFiniteSet(S(i)) /\ Cardinality(S(i)) \in Nat /\ (Cardinality(S(i)) = 0 <=> S(i) = {})
  <2>1. S(i) \subseteq is
    OBVIOUS
  <2> HIDE DEF S
  <2> QED
    BY <2>1, FS_Subset, FS_CardinalityType, FS_EmptySet
<1>2. \A i \in is : NthOf(is, i) = Cardinality(S(i))
  BY Zenon DEF NthOf
<1>3. ASSUME NEW i \in is, NEW j \in is, DayOf[i] = DayOf[j], i < j
      PROVE  Cardinality(S(i)) < Cardinality(S(j))
  <2>1. i \notin S(i) /\ i \in S(j)
    BY <1>3
  <2>3. S(i) \subseteq S(j)
    <3> SUFFICES ASSUME NEW x \in is, DayOf[x] = DayOf[i], x < i
                 PROVE  DayOf[x] = DayOf[j] /\ x < j
      OBVIOUS
    <3>1. x \in Int /\ i \in Int /\ j \in Int
      OBVIOUS
    <3> QED
      BY <1>3, <3>1
  <2> HIDE DEF S
  <2>2. S(i) \subseteq S(j) /\ S(i) # S(j) /\ IsFiniteSet(S(j))
    BY <1>1, <2>1, <2>3
  <2> QED
    BY <1>1, <2>2, FS_Subset
<1>4. ASSUME NEW i \in is
      PROVE  S(i) = {} <=> \A j \in is : DayOf[j] = DayOf[i] => i <= j
  <2>1. \A j \in is : j < i <=> ~(i <= j)
    <3> SUFFICES ASSUME NEW j \in is
                 PROVE  j < i <=> ~(i <= j)
      OBVIOUS
    <3>1. i \in Int /\ j \in Int
      OBVIOUS
    <3> QED
      BY <3>1
  <2>2. S(i) = {} <=> \A j \in is : ~(DayOf[j] = DayOf[i] /\ j < i)
    OBVIOUS
  <2> HIDE DEF S
  <2> QED
    BY <2>1, <2>2
<1> HIDE DEF S
<1> QED
  BY <1>1, <1>2, <1>3, <1>4

LEMMA DaysInOrder ==
    ASSUME NEW is \in SUBSET Int, IsFiniteSet(is), \A i \in is : DayOf[i] \in Int
    PROVE  IsOrder(is, AheadByDay(is))
<1> DEFINE nth(i) == NthOf(is, i)
           ahead == AheadByDay(is)
<1>1. \A i \in is : nth(i) \in Nat
  BY NthIs
<1>2. \A i, j \in is : i # j => nth(i) # nth(j) \/ DayOf[i] # DayOf[j]
  <2> SUFFICES ASSUME NEW i \in is, NEW j \in is, i # j, DayOf[i] = DayOf[j]
               PROVE  nth(i) # nth(j)
    OBVIOUS
  <2>1. i < j \/ j < i
    OBVIOUS
  <2>2. (i < j => nth(i) < nth(j)) /\ (j < i => nth(j) < nth(i))
    BY NthIs
  <2> HIDE DEF nth
  <2> QED
    BY <1>1, <2>1, <2>2
<1>3. \A i, j \in is : j \in ahead[i] <=> nth(j) < nth(i) \/ (nth(j) = nth(i) /\ DayOf[j] < DayOf[i])
  BY DEF AheadByDay
<1>4. \A i \in is : ahead[i] \in SUBSET is
  BY DEF AheadByDay
<1> HIDE DEF nth, ahead
<1>5. \A i \in is : i \notin ahead[i]
  BY <1>1, <1>3
<1>6. \A i, j \in is : i # j => i \in ahead[j] \/ j \in ahead[i]
  BY <1>1, <1>2, <1>3
<1>7. ASSUME NEW i \in is, NEW j \in is, NEW k \in is, i \in ahead[j], j \in ahead[k]
      PROVE  i \in ahead[k]
  <2>1. nth(i) \in Nat /\ nth(j) \in Nat /\ nth(k) \in Nat
    BY <1>1
  <2>2. DayOf[i] \in Int /\ DayOf[j] \in Int /\ DayOf[k] \in Int
    OBVIOUS
  <2>3. /\ nth(i) < nth(j) \/ (nth(i) = nth(j) /\ DayOf[i] < DayOf[j])
        /\ nth(j) < nth(k) \/ (nth(j) = nth(k) /\ DayOf[j] < DayOf[k])
    BY <1>3, <1>7
  <2>4. nth(i) < nth(k) \/ (nth(i) = nth(k) /\ DayOf[i] < DayOf[k])
    BY <2>1, <2>2, <2>3
  <2> QED
    BY <1>3, <2>4
<1>8. IsOrder(is, ahead)
  BY <1>4, <1>5, <1>6, <1>7 DEF IsOrder
<1> QED
  BY <1>8 DEF ahead

\* Each day has one memory that is its first.
LEMMA FirstsAre ==
    ASSUME NEW is \in SUBSET Int, IsFiniteSet(is), \A i \in is : DayOf[i] \in Int
    PROVE  /\ FirstOfDays(is) \in SUBSET is /\ IsFiniteSet(FirstOfDays(is))
           /\ \A i, j \in FirstOfDays(is) : DayOf[i] = DayOf[j] => i = j
           /\ DaysOf(FirstOfDays(is)) = DaysOf(is)
           /\ IsFiniteSet(DaysOf(is)) /\ Cardinality(DaysOf(is)) = Cardinality(FirstOfDays(is))
<1> DEFINE F == FirstOfDays(is)
<1>1. F \in SUBSET is /\ IsFiniteSet(F)
  BY FS_Subset DEF FirstOfDays
<1>2. \A i \in is : i \in F <=> \A j \in is : DayOf[j] = DayOf[i] => i <= j
  BY NthIs DEF FirstOfDays
<1> HIDE DEF F
<1>3. \A i, j \in F : DayOf[i] = DayOf[j] => i = j
  BY <1>1, <1>2
<1>4. ASSUME NEW i \in is
      PROVE  \E j \in F : DayOf[j] = DayOf[i]
  <2> DEFINE S == {j \in is : DayOf[j] = DayOf[i]}
  <2>1. S \in SUBSET Int /\ S # {} /\ S \subseteq is
    OBVIOUS
  <2>2. IsFiniteSet(S)
    BY <2>1, FS_Subset
  <2>3. \E j \in S : \A m \in S : j <= m
    BY <2>1, <2>2, HasFirst
  <2>4. PICK j \in S : \A m \in S : j <= m
    BY <2>3
  <2>5. j \in F
    BY <1>2, <2>4
  <2> QED
    BY <2>4, <2>5
<1>5. DaysOf(F) = DaysOf(is)
  BY <1>1, <1>4 DEF DaysOf
<1>6. IsFiniteSet(DaysOf(F)) /\ Cardinality(DaysOf(F)) = Cardinality(F)
  BY <1>1, <1>3, NumberOfImage DEF DaysOf
<1> QED
  BY <1>1, <1>3, <1>5, <1>6 DEF F

LEMMA HasPlace ==
    ASSUME NEW is, IsFiniteSet(is), NEW ahead, IsOrder(is, ahead), NEW n \in 1 .. Cardinality(is)
    PROVE  \E i \in is : Cardinality(ahead[i]) = n - 1
BY EveryPlace

\* As many days as there is room for are among the first n memories, in rounds over the days.
LEMMA SpreadIs ==
    ASSUME NEW is \in SUBSET Int, IsFiniteSet(is), \A i \in is : DayOf[i] \in Int, NEW n \in Nat
    PROVE  /\ spreadByDateAgent(is, n) \in SUBSET is
           /\ Cardinality(DaysOf(spreadByDateAgent(is, n))) = Min({n, Cardinality(DaysOf(is))})
           /\ n > 0 /\ is # {} => spreadByDateAgent(is, n) # {}
<1> DEFINE ahead == AheadByDay(is)
           rank(i) == Cardinality(ahead[i])
           F == FirstOfDays(is)
           k == Cardinality(F)
           T == {i \in is : rank(i) < n}
<1>1. spreadByDateAgent(is, n) = T
  BY Zenon DEF spreadByDateAgent, AheadByDay, NthOf
<1>2. IsOrder(is, ahead)
  BY DaysInOrder
<1>3. /\ F \in SUBSET is /\ IsFiniteSet(F)
      /\ \A i, j \in F : DayOf[i] = DayOf[j] => i = j
      /\ DaysOf(F) = DaysOf(is) /\ Cardinality(DaysOf(is)) = k
  BY FirstsAre
<1>4. k \in Nat /\ k <= Cardinality(is) /\ Cardinality(is) \in Nat
  BY <1>3, FS_Subset, FS_CardinalityType
<1>5. \A i \in is : NthOf(is, i) \in Nat
  BY NthIs
<1>6. \A i, j \in is : j \in ahead[i] <=>
        NthOf(is, j) < NthOf(is, i) \/ (NthOf(is, j) = NthOf(is, i) /\ DayOf[j] < DayOf[i])
  BY DEF AheadByDay
<1>7. \A i \in is : i \in F <=> NthOf(is, i) = 0
  BY DEF FirstOfDays
<1> HIDE DEF ahead, F
<1>8. ASSUME NEW i \in is
      PROVE  /\ IsFiniteSet(ahead[i]) /\ rank(i) \in Nat
             /\ \A j \in is : j \in ahead[i] => rank(j) < rank(i)
  BY <1>2, SomeAhead
<1>9. \A i \in is : ahead[i] \subseteq is /\ i \notin ahead[i]
  BY <1>2 DEF IsOrder
<1>10. ASSUME NEW i \in F
       PROVE  rank(i) < k
  <2>1. ahead[i] \subseteq F \ {i}
    <3> SUFFICES ASSUME NEW j \in ahead[i]
                 PROVE  j \in F /\ j # i
      OBVIOUS
    <3>1. i \in is /\ j \in is /\ j # i /\ NthOf(is, i) = 0
      BY <1>3, <1>7, <1>9
    <3>2. NthOf(is, j) \in Nat /\ (NthOf(is, j) < 0 \/ NthOf(is, j) = 0)
      BY <1>5, <1>6, <3>1
    <3>3. NthOf(is, j) = 0
      BY <3>2
    <3> QED
      BY <1>7, <3>1, <3>3
  <2>2. IsFiniteSet(F \ {i}) /\ Cardinality(F \ {i}) = k - 1
    BY <1>3, FS_RemoveElement
  <2>3. rank(i) <= k - 1
    BY <2>1, <2>2, FS_Subset
  <2> QED
    BY <1>3, <1>4, <1>8, <2>3
<1>11. ASSUME NEW i \in is, i \notin F
       PROVE  rank(i) >= k
  <2>1. F \subseteq ahead[i]
    BY <1>3, <1>5, <1>6, <1>7, <1>11
  <2>2. IsFiniteSet(ahead[i])
    BY <1>8
  <2>3. k <= rank(i)
    BY <2>1, <2>2, FS_Subset
  <2> QED
    BY <1>4, <1>8, <2>3
<1>17. ASSUME NEW m \in 1 .. Cardinality(is)
       PROVE  \E i \in is : Cardinality(ahead[i]) = m - 1
  BY <1>2, HasPlace
<1>12. Min({n, k}) = IF n <= k THEN n ELSE k
  BY <1>4, LesserOfTwo
<1> HIDE DEF k
<1>13. ASSUME n >= k
       PROVE  Cardinality(DaysOf(T)) = k
  <2>1. F \subseteq T
    <3> SUFFICES ASSUME NEW i \in F
                 PROVE  rank(i) < n
      BY <1>3
    <3>1. rank(i) < k /\ rank(i) \in Nat
      BY <1>3, <1>8, <1>10
    <3> HIDE DEF rank
    <3> QED
      BY <1>4, <1>13, <3>1
  <2>2. DaysOf(T) = DaysOf(is)
    BY <1>3, <2>1 DEF DaysOf
  <2> QED
    BY <1>3, <2>2
<1>14. ASSUME n < k
       PROVE  Cardinality(DaysOf(T)) = n
  <2>1. PICK i \in is : rank(i) = n
    <3>1. n + 1 \in 1 .. Cardinality(is)
      BY <1>4, <1>14
    <3>3. PICK i \in is : Cardinality(ahead[i]) = (n + 1) - 1
      BY <1>17, <3>1
    <3> QED
      BY <3>3
  <2>2. T = ahead[i]
    <3>1. ASSUME NEW j \in is, rank(j) < n
          PROVE  j \in ahead[i]
      <4>1. j # i
        BY <2>1, <3>1
      <4>2. CASE i \in ahead[j]
        <5>1. rank(i) < rank(j) /\ rank(i) \in Nat /\ rank(j) \in Nat
          BY <1>8, <4>2
        <5> HIDE DEF rank
        <5> QED
          BY <2>1, <3>1, <5>1
      <4> QED
        BY <1>2, <4>1, <4>2 DEF IsOrder
    <3>2. ASSUME NEW j \in ahead[i]
          PROVE  j \in is /\ rank(j) < n
      <4>1. j \in is
        BY <1>9
      <4>2. rank(j) < rank(i)
        BY <1>8, <4>1
      <4> QED
        BY <2>1, <4>1, <4>2
    <3> QED
      BY <3>1, <3>2
  <2>3. IsFiniteSet(T) /\ Cardinality(T) = n
    BY <1>8, <2>1, <2>2
  <2>4. T \subseteq F
    <3> SUFFICES ASSUME NEW j \in is, rank(j) < n
                 PROVE  j \in F
      OBVIOUS
    <3>1. rank(j) \in Nat /\ (j \notin F => rank(j) >= k)
      BY <1>8, <1>11
    <3> HIDE DEF rank
    <3> QED
      BY <1>4, <1>14, <3>1
  <2> HIDE DEF T
  <2>5. \A i1, i2 \in T : DayOf[i1] = DayOf[i2] => i1 = i2
    BY <1>3, <2>4
  <2>6. Cardinality({DayOf[x] : x \in T}) = Cardinality(T)
    BY <2>3, <2>5, NumberOfImage
  <2> QED
    BY <2>3, <2>6 DEF DaysOf
<1>15. ASSUME n > 0, is # {}
       PROVE  T # {}
  <2>1. Cardinality(is) > 0
    BY <1>4, <1>15, FS_EmptySet
  <2>2. 1 \in 1 .. Cardinality(is)
    BY <1>4, <2>1
  <2>4. PICK i \in is : Cardinality(ahead[i]) = 1 - 1
    BY <1>17, <2>2
  <2>5. rank(i) < n
    BY <1>15, <2>4
  <2> QED
    BY <2>5
<1>16. Cardinality(DaysOf(T)) = Min({n, Cardinality(DaysOf(is))})
  <2> HIDE DEF T
  <2> QED
    BY <1>3, <1>4, <1>12, <1>13, <1>14
<1> QED
  BY <1>1, <1>15, <1>16

\* The selection is from what was collected, has each of its phases, and shows as many days of
\* the inbox as there is room for.
Balanced(prompt, collected) ==
    LET found == ToSet(collected) IN
      /\ {memories[i].phase : i \in prompt} = {memories[i].phase : i \in found}
      /\ Cardinality(Spread(prompt)) = Min({Most["inbox"], Cardinality(Spread(found))})

LEMMA SelectedIs ==
    ASSUME MemoriesTyped, NEW c \in Seq(Ids)
    PROVE  Selected(c) \in SUBSET Ids /\ Balanced(Selected(c), c)
<1> DEFINE found == ToSet(c)
           In(p) == InPhaseOf(c, p)
           Some(p) == ToSet(Upto(InPhase(c, p), Most[p]))
           I == In("inbox")
           spread == spreadByDateAgent(I, Most["inbox"])
           s == Selected(c)
<1>1. found \subseteq Ids
  <2>1. \A n \in DOMAIN c : c[n] \in Ids
    OBVIOUS
  <2> QED
    BY <2>1 DEF ToSet
<1>2. \A p \in Phases : Most[p] \in Nat /\ Most[p] > 0
  BY AgentAssumption
<1>3. \A p : In(p) = {i \in found : memories[i].phase = p}
  BY DEF InPhaseOf
<1>4. \A p : InPhase(c, p) \in Seq(Ids) /\ ToSet(InPhase(c, p)) = In(p)
  BY InPhaseIs
<1> HIDE DEF found, In
<1>5. ASSUME NEW p \in Phases
      PROVE  Some(p) \subseteq In(p) /\ (In(p) # {} => Some(p) # {})
  <2> DEFINE list == InPhase(c, p)
             few == Upto(list, Most[p])
  <2>1. list \in Seq(Ids) /\ ToSet(list) = In(p) /\ Most[p] \in Nat /\ Most[p] > 0
    BY <1>2, <1>4
  <2> HIDE DEF list
  <2>2. few \in Seq(Ids) /\ ToSet(few) \subseteq ToSet(list) /\ (few = <<>> => list = <<>>)
    BY <2>1, UptoIs
  <2> HIDE DEF few
  <2>3. list = <<>> => ToSet(list) = {}
    BY DEF ToSet
  <2>4. ToSet(few) = {} => few = <<>>
    <3> SUFFICES ASSUME few # <<>>
                 PROVE  ToSet(few) # {}
      OBVIOUS
    <3>1. 1 \in DOMAIN few
      BY <2>2
    <3> QED
      BY <3>1 DEF ToSet
  <2> QED
    BY <2>1, <2>2, <2>3, <2>4 DEF few, list
<1> HIDE DEF Some
<1>6. "organized" \in Phases /\ "processed" \in Phases /\ "inbox" \in Phases
      /\ Phases = {"organized", "processed", "inbox"}
  BY DEF Phases
<1>7. I \in SUBSET Ids /\ I \in SUBSET Int /\ IsFiniteSet(I)
  <2>1. I \in SUBSET Ids
    BY <1>1, <1>3
  <2> HIDE DEF I
  <2> QED
    BY <2>1, SomeIds
<1>8. \A i \in I : DayOf[i] \in Int
  <2>1. Ids \subseteq 1 .. MaxMemories
    BY IdsAre, SearchAssumption DEF MemoriesTyped
  <2> HIDE DEF I
  <2> QED
    BY <1>7, <2>1, AgentAssumption
<1>9. Most["inbox"] \in Nat /\ Most["inbox"] > 0
  BY <1>2, <1>6
<1>10. /\ spread \in SUBSET I
       /\ Cardinality(DaysOf(spread)) = Min({Most["inbox"], Cardinality(DaysOf(I))})
       /\ I # {} => spread # {}
  <2> HIDE DEF I
  <2> QED
    BY <1>7, <1>8, <1>9, SpreadIs
<1>11. s = Some("organized") \cup Some("processed") \cup spread
  <2>1. ToSet(InPhase(c, "inbox")) = I
    BY <1>4
  <2> QED
    BY <2>1, Zenon DEF Selected, Some
<1> HIDE DEF s, spread, I
<1>12. Some("organized") \subseteq In("organized") /\ Some("processed") \subseteq In("processed")
       /\ (In("organized") # {} => Some("organized") # {})
       /\ (In("processed") # {} => Some("processed") # {})
  BY <1>5, <1>6
<1>13. I = In("inbox")
  BY DEF I
<1>14. s \subseteq found
  BY <1>3, <1>10, <1>11, <1>12, <1>13
<1>15. {i \in s : memories[i].phase = "inbox"} = spread
  <2>1. \A i \in Some("organized") : memories[i].phase # "inbox"
    BY <1>3, <1>12
  <2>2. \A i \in Some("processed") : memories[i].phase # "inbox"
    BY <1>3, <1>12
  <2>3. \A i \in spread : memories[i].phase = "inbox"
    BY <1>3, <1>10, <1>13
  <2> QED
    BY <1>11, <2>1, <2>2, <2>3
<1>16. Spread(s) = DaysOf(spread) /\ Spread(found) = DaysOf(I)
  BY <1>3, <1>13, <1>15, Zenon DEF Spread, DaysOf
<1>17. ASSUME NEW i \in found
       PROVE  \E j \in s : memories[j].phase = memories[i].phase
  <2> DEFINE p == memories[i].phase
  <2>1. p \in Phases /\ i \in In(p)
    BY <1>1, <1>3, IdsAre, SearchAssumption
  <2> HIDE DEF p
  <2>2. CASE p = "organized"
    BY <1>3, <1>11, <1>12, <2>1, <2>2 DEF p
  <2>3. CASE p = "processed"
    BY <1>3, <1>11, <1>12, <2>1, <2>3 DEF p
  <2>4. CASE p = "inbox"
    BY <1>3, <1>10, <1>11, <1>13, <2>1, <2>4 DEF p
  <2> QED
    BY <1>6, <2>1, <2>2, <2>3, <2>4
<1>18. {memories[i].phase : i \in s} = {memories[i].phase : i \in found}
  BY <1>14, <1>17
<1>19. Balanced(s, c)
  BY <1>10, <1>16, <1>18, Zenon DEF Balanced, found
<1> QED
  BY <1>1, <1>14, <1>19 DEF s

-----------------------------------------------------------------------------
AgentSteps == {"idle", "plan", "search", "fallback", "compose", "answered"}

AgentRecord ==
    [step : AgentSteps, question : Seq(Pattern), todo : Seq(Seq(Pattern)), round : Nat,
     collected : Seq(Nat), prompt : SUBSET Nat,
     told : {"", "nothing", "cancelled", "answer", "memories"}, sources : Seq(Nat)]

AgentIs(a) ==
    /\ a \in AgentRecord /\ a.round < MaxSteps
    /\ a.step # "idle" => a.question \in Query
    /\ a.collected \in Seq(Ids) /\ IsInjective(a.collected)
    /\ a.step = "answered" =>
         /\ IsInjective(a.sources) /\ ToSet(a.sources) \subseteq ToSet(a.collected)
         /\ a.told = "answer" => Balanced(a.prompt, a.collected)

AgentInv ==
    /\ MemoriesTyped /\ AgentIs(agent)
    /\ part # "agent" => agent = NoAgent

LEMMA AgentStays ==
    ASSUME UNCHANGED memories, NEW a, AgentIs(a), agent' = a
    PROVE  AgentIs(agent)'
<1>1. Ids' = Ids
  BY Zenon DEF Ids
<1>2. \A s : Spread(s)' = Spread(s)
  BY Zenon DEF Spread
<1>3. \A s, c : Balanced(s, c)' <=> Balanced(s, c)
  BY <1>2, Zenon DEF Balanced
<1>4. AgentIs(a)'
  BY <1>1, <1>3, Zenon DEF AgentIs
<1> QED
  BY <1>4, Zenon DEF AgentIs, Balanced, Spread, Ids

LEMMA NoAgentIs == AgentIs(NoAgent)
<1>1. <<>> \in Seq(Pattern) /\ <<>> \in Seq(Seq(Pattern)) /\ <<>> \in Seq(Nat) /\ <<>> \in Seq(Ids)
      /\ {} \in SUBSET Nat
  OBVIOUS
<1>2. IsInjective(<<>>)
  BY DEF IsInjective
<1>3. "idle" \in AgentSteps
  BY DEF AgentSteps
<1>4. NoAgent \in AgentRecord
  BY <1>1, <1>3 DEF NoAgent, AgentRecord
<1>5. NoAgent.round = 0 /\ NoAgent.step = "idle" /\ NoAgent.collected = <<>>
  BY DEF NoAgent
<1>6. 0 < MaxSteps
  BY AgentAssumption
<1> QED
  BY <1>1, <1>2, <1>4, <1>5, <1>6 DEF AgentIs

\* What the plans and the questions search for.
LEMMA PlansAre ==
    /\ \A q \in Query : q \in Seq(Pattern) /\ Simplified[q] \in Seq(Pattern)
    /\ \A todo \in Plans : todo \in Seq(Seq(Pattern))
<1>1. \A q \in Query : q \in Seq(Pattern)
  BY SearchAssumption
<1>2. \A q \in Query : Simplified[q] \in Seq(Pattern)
  BY AgentAssumption
<1>3. \A q, r \in Query : <<q>> \in Seq(Seq(Pattern)) /\ <<q, r>> \in Seq(Seq(Pattern))
  BY <1>1
<1>4. ASSUME NEW todo \in Plans
      PROVE  todo \in Seq(Seq(Pattern))
  <2>1. CASE todo \in {<<q>> : q \in Query}
    BY <1>3, <2>1
  <2>2. CASE todo \in Query \X Query
    <3>1. PICK q \in Query, r \in Query : todo = <<q, r>>
      BY <2>2
    <3> QED
      BY <1>3, <3>1
  <2> QED
    BY <1>4, <2>1, <2>2 DEF Plans
<1> QED
  BY <1>1, <1>2, <1>4

\* A step that has not yet answered keeps what was collected right.
LEMMA WorkingIs ==
    ASSUME AgentIs(agent), NEW step \in AgentSteps, step # "answered",
           NEW todo \in Seq(Seq(Pattern)), NEW round \in Nat, round < MaxSteps,
           NEW collected \in Seq(Ids), IsInjective(collected), NEW question \in Query,
           MemoriesTyped
    PROVE  AgentIs([agent EXCEPT !.step = step, !.question = question, !.todo = todo,
                                 !.round = round, !.collected = collected])
<1> DEFINE a == [agent EXCEPT !.step = step, !.question = question, !.todo = todo,
                              !.round = round, !.collected = collected]
<1>1. agent \in AgentRecord
  BY DEF AgentIs
<1>2. collected \in Seq(Nat) /\ question \in Seq(Pattern)
  <2>1. Ids \subseteq Nat
    BY IdsAre
  <2> QED
    BY <2>1, ListOfMore, PlansAre
<1>3. a \in AgentRecord
  BY <1>1, <1>2, Zenon DEF AgentRecord
<1>4. a.step = step /\ a.question = question /\ a.round = round /\ a.collected = collected
  BY <1>1, Zenon DEF AgentRecord
<1> HIDE DEF a
<1>5. AgentIs(a)
  BY <1>3, <1>4 DEF AgentIs
<1> QED
  BY <1>5 DEF a

LEMMA AnsweringIs ==
    ASSUME AgentIs(agent), agent.step # "idle", MemoriesTyped,
           NEW told \in {"nothing", "cancelled", "answer", "memories"},
           NEW sources \in Seq(Ids), IsInjective(sources),
           ToSet(sources) \subseteq ToSet(agent.collected),
           NEW prompt \in SUBSET Nat, told = "answer" => Balanced(prompt, agent.collected)
    PROVE  AgentIs([AgentAnswers(told, sources) EXCEPT !.prompt = prompt])
<1> DEFINE a == [AgentAnswers(told, sources) EXCEPT !.prompt = prompt]
<1>1. agent \in AgentRecord
  BY DEF AgentIs
<1>2. sources \in Seq(Nat) /\ told \in {"", "nothing", "cancelled", "answer", "memories"}
      /\ "answered" \in AgentSteps
  <2>1. Ids \subseteq Nat
    BY IdsAre
  <2>2. told \in {"", "nothing", "cancelled", "answer", "memories"} /\ "answered" \in AgentSteps
    BY Zenon DEF AgentSteps
  <2> QED
    BY <2>1, <2>2, ListOfMore, Zenon
<1>3. a \in AgentRecord
  BY <1>1, <1>2, Zenon DEF AgentAnswers, AgentRecord
<1>4. /\ a.step = "answered" /\ a.question = agent.question /\ a.round = agent.round
      /\ a.collected = agent.collected /\ a.told = told /\ a.sources = sources /\ a.prompt = prompt
  BY <1>1, Zenon DEF AgentAnswers, AgentRecord
<1> HIDE DEF a
<1>5. AgentIs(a)
  BY <1>3, <1>4 DEF AgentIs
<1> QED
  BY <1>5 DEF a

\* What a search of the agent finds can be added.
LEMMA FindingIs ==
    ASSUME MemoriesTyped, AgentIs(agent), NEW q \in Seq(Pattern),
           NEW found \in SearchResults(q, NoFilter, "idf")
    PROVE  Collected(found) \in Seq(Ids) /\ IsInjective(Collected(found))
<1>1. found \in Seq(Ids) /\ IsInjective(found)
  BY SearchRight DEF FoundRight
<1> QED
  BY <1>1, CollectedIs DEF AgentIs

LEMMA AgentArriveKeeps ==
    ASSUME AgentInv, NEW m \in Shape, AgentArrive(m)
    PROVE  AgentIs(agent)' /\ MemoriesTyped'
<1>1. MemoriesTyped' /\ Ids \subseteq Ids' /\ agent' = agent /\ agent.step # "answered"
  BY InsertKeepsMemories DEF AgentInv, AgentArrive, AgentAt
<1>2. AgentIs(agent)
  BY DEF AgentInv
<1>3. agent.collected \in Seq(Ids')
  BY <1>1, <1>2, ListOfMore DEF AgentIs
<1>4. AgentIs(agent)'
  BY <1>1, <1>2, <1>3 DEF AgentIs
<1> QED
  BY <1>1, <1>4

LEMMA AgentKeeps ==
    ASSUME AgentInv, part = "agent", part' = part, AgentNext
    PROVE  AgentInv'
<1> DEFINE a0 == agent
<1>1. MemoriesTyped /\ AgentIs(agent) /\ agent \in AgentRecord
  BY DEF AgentInv, AgentIs
<1>2. ASSUME UNCHANGED searchVars, NEW a, AgentIs(a), agent' = a
      PROVE  AgentInv'
  <2>1. UNCHANGED memories
    BY <1>2 DEF searchVars
  <2>2. AgentIs(agent)'
    BY <1>2, <2>1, AgentStays
  <2> QED
    BY <1>1, <2>1, <2>2 DEF AgentInv, MemoriesTyped
<1>3. /\ agent.collected \in Seq(Ids) /\ IsInjective(agent.collected) /\ agent.round \in Nat
      /\ agent.round < MaxSteps /\ agent.todo \in Seq(Seq(Pattern)) /\ agent.step \in AgentSteps
      /\ agent.question \in Seq(Pattern) /\ agent.prompt \in SUBSET Nat
      /\ agent.step # "idle" => agent.question \in Query
  BY <1>1, Zenon DEF AgentIs, AgentRecord
<1>4. ASSUME UNCHANGED searchVars, NEW step \in AgentSteps, step # "answered",
             NEW todo \in Seq(Seq(Pattern)), NEW round \in Nat, round < MaxSteps,
             NEW collected \in Seq(Ids), IsInjective(collected), agent.step # "idle",
             agent' = [agent EXCEPT !.step = step, !.question = agent.question, !.todo = todo,
                                    !.round = round, !.collected = collected]
      PROVE  AgentInv'
  <2>1. AgentIs([agent EXCEPT !.step = step, !.question = agent.question, !.todo = todo,
                              !.round = round, !.collected = collected])
    BY <1>1, <1>3, <1>4, WorkingIs, Zenon
  <2> QED
    BY <1>2, <1>4, <2>1
<1>5. ASSUME UNCHANGED searchVars, NEW told \in {"nothing", "cancelled", "answer", "memories"},
             NEW sources \in Seq(Ids), IsInjective(sources), agent.step # "idle",
             ToSet(sources) \subseteq ToSet(agent.collected), NEW prompt \in SUBSET Nat,
             told = "answer" => Balanced(prompt, agent.collected),
             agent' = [AgentAnswers(told, sources) EXCEPT !.prompt = prompt]
      PROVE  AgentInv'
  <2>1. AgentIs([AgentAnswers(told, sources) EXCEPT !.prompt = prompt])
    BY <1>1, <1>5, AnsweringIs
  <2> QED
    BY <1>2, <1>5, <2>1
<1>6. <<>> \in Seq(Ids) /\ IsInjective(<<>>) /\ ToSet(<<>>) = {}
  BY DEF IsInjective, ToSet
<1>7. ASSUME UNCHANGED searchVars, NEW told \in {"nothing", "cancelled", "memories"},
             NEW sources \in Seq(Ids), IsInjective(sources), agent.step # "idle",
             ToSet(sources) \subseteq ToSet(agent.collected),
             agent' = AgentAnswers(told, sources)
      PROVE  AgentInv'
  <2>1. AgentAnswers(told, sources) = [AgentAnswers(told, sources) EXCEPT !.prompt = agent.prompt]
    BY <1>1, Zenon DEF AgentAnswers, AgentRecord
  <2>2. told \in {"nothing", "cancelled", "answer", "memories"} /\ told # "answer"
    BY <1>7
  <2> QED
    BY <1>3, <1>5, <1>7, <2>1, <2>2
<1>8. {"plan", "search", "fallback", "compose"} \subseteq AgentSteps
  BY DEF AgentSteps
<1>9. ASSUME NEW q \in Query, BeginAgent(q)
      PROVE  AgentInv'
  <2> DEFINE a == [NoAgent EXCEPT !.step = "plan", !.question = q]
  <2>1. agent' = a /\ UNCHANGED searchVars
    BY <1>9 DEF BeginAgent
  <2>2. AgentIs(NoAgent) /\ NoAgent \in AgentRecord
    BY NoAgentIs DEF AgentIs
  <2>3. q \in Seq(Pattern)
    BY PlansAre
  <2>4. a \in AgentRecord
    BY <1>8, <2>2, <2>3, Zenon DEF AgentRecord
  <2>5. a.step = "plan" /\ a.question = q /\ a.round = NoAgent.round /\ a.collected = NoAgent.collected
    BY <2>2, Zenon DEF AgentRecord
  <2> HIDE DEF a
  <2>6. AgentIs(a)
    BY <2>2, <2>4, <2>5 DEF AgentIs
  <2> QED
    BY <1>2, <2>1, <2>6
\* A step of the loop: the fields it does not name stay.
<1>10. ASSUME NEW step, NEW todo, NEW round, NEW collected
       PROVE  /\ [agent EXCEPT !.step = step] =
                   [agent EXCEPT !.step = step, !.question = agent.question, !.todo = agent.todo,
                                 !.round = agent.round, !.collected = agent.collected]
              /\ [agent EXCEPT !.step = step, !.todo = todo] =
                   [agent EXCEPT !.step = step, !.question = agent.question, !.todo = todo,
                                 !.round = agent.round, !.collected = agent.collected]
              /\ [agent EXCEPT !.step = step, !.todo = todo, !.round = round] =
                   [agent EXCEPT !.step = step, !.question = agent.question, !.todo = todo,
                                 !.round = round, !.collected = agent.collected]
              /\ [agent EXCEPT !.step = step, !.collected = collected] =
                   [agent EXCEPT !.step = step, !.question = agent.question, !.todo = agent.todo,
                                 !.round = agent.round, !.collected = collected]
              /\ [agent EXCEPT !.todo = todo, !.collected = collected] =
                   [agent EXCEPT !.step = agent.step, !.question = agent.question, !.todo = todo,
                                 !.round = agent.round, !.collected = collected]
  BY <1>1, Zenon DEF AgentRecord
<1>20. ASSUME UNCHANGED searchVars, agent.step # "idle", NEW step \in AgentSteps,
              step # "answered", agent' = [agent EXCEPT !.step = step]
       PROVE  AgentInv'
  <2>1. [agent EXCEPT !.step = step] =
          [agent EXCEPT !.step = step, !.question = agent.question, !.todo = agent.todo,
                        !.round = agent.round, !.collected = agent.collected]
    BY <1>10, Zenon
  <2>2. AgentIs([agent EXCEPT !.step = step, !.question = agent.question, !.todo = agent.todo,
                              !.round = agent.round, !.collected = agent.collected])
    <3>1. agent.question \in Query
      BY <1>3, <1>20
    <3> QED
      BY <1>1, <1>3, <1>20, <3>1, WorkingIs, Zenon
  <2> QED
    BY <1>2, <1>20, <2>1, <2>2
<1>21. ASSUME UNCHANGED searchVars, agent.step # "idle", NEW todo \in Seq(Seq(Pattern)),
              agent' = [agent EXCEPT !.step = "search", !.todo = todo]
       PROVE  AgentInv'
  <2>1. [agent EXCEPT !.step = "search", !.todo = todo] =
          [agent EXCEPT !.step = "search", !.question = agent.question, !.todo = todo,
                        !.round = agent.round, !.collected = agent.collected]
    BY <1>10, Zenon
  <2>2. "search" \in AgentSteps /\ "search" # "answered"
    BY <1>8
  <2> QED
    BY <1>3, <1>4, <1>21, <2>1, <2>2, Zenon
<1>22. ASSUME UNCHANGED searchVars, agent.step # "idle", NEW collected \in Seq(Ids),
              IsInjective(collected),
              agent' = [agent EXCEPT !.step = "compose", !.collected = collected]
       PROVE  AgentInv'
  <2>1. [agent EXCEPT !.step = "compose", !.collected = collected] =
          [agent EXCEPT !.step = "compose", !.question = agent.question, !.todo = agent.todo,
                        !.round = agent.round, !.collected = collected]
    BY <1>10, Zenon
  <2>2. "compose" \in AgentSteps /\ "compose" # "answered"
    BY <1>8
  <2> QED
    BY <1>3, <1>4, <1>22, <2>1, <2>2, Zenon
<1>11. CASE Plan
  <2>1. UNCHANGED searchVars /\ agent.step # "idle"
    BY <1>11, Zenon DEF Plan, AgentAt
  <2>2. CASE agent' = [agent EXCEPT !.step = "fallback"]
    BY <1>8, <1>20, <2>1, <2>2
  <2>3. CASE \E todo \in Plans : agent' = [agent EXCEPT !.step = "search", !.todo = todo]
    <3>1. PICK todo \in Plans : agent' = [agent EXCEPT !.step = "search", !.todo = todo]
      BY <2>3, Zenon
    <3>2. todo \in Seq(Seq(Pattern))
      BY PlansAre
    <3> QED
      BY <1>21, <2>1, <3>1, <3>2, Zenon
  <2> QED
    BY <1>11, <2>2, <2>3, Zenon DEF Plan
<1>12. CASE fallbackSearch
  <2>1. UNCHANGED searchVars /\ agent.step # "idle"
    BY <1>12 DEF fallbackSearch, AgentAt
  <2>2. PICK found \in SearchResults(agent.question, NoFilter, "idf") :
          agent' = IF found = <<>> THEN AgentAnswers("nothing", <<>>)
                   ELSE [agent EXCEPT !.step = "compose", !.collected = Collected(found)]
    BY <1>12, Zenon DEF fallbackSearch
  <2>3. Collected(found) \in Seq(Ids) /\ IsInjective(Collected(found))
    BY <1>1, <1>3, FindingIs
  <2>4. CASE agent' = AgentAnswers("nothing", <<>>)
    BY <1>6, <1>7, <2>1, <2>4
  <2>5. CASE agent' = [agent EXCEPT !.step = "compose", !.collected = Collected(found)]
    BY <1>22, <2>1, <2>3, <2>5, Zenon
  <2> QED
    BY <2>2, <2>4, <2>5
<1>13. CASE SearchNextQuery
  <2>1. UNCHANGED searchVars /\ agent.step = "search" /\ agent.todo # <<>>
    BY <1>13 DEF SearchNextQuery, AgentAt
  <2>2. PICK found \in SearchResults(agent.todo[1], NoFilter, "idf") :
          agent' = [agent EXCEPT !.todo = Tail(@), !.collected = Collected(found)]
    BY <1>13, Zenon DEF SearchNextQuery
  <2>3. agent.todo[1] \in Seq(Pattern) /\ Tail(agent.todo) \in Seq(Seq(Pattern))
    <3> DEFINE todo == agent.todo
               S == Seq(Pattern)
    <3>1. todo \in Seq(S) /\ todo # <<>>
      BY <1>3, <2>1
    <3> HIDE DEF todo, S
    <3>2. todo[1] \in S /\ Tail(todo) \in Seq(S)
      BY <3>1
    <3> QED
      BY <3>2 DEF todo, S
  <2>4. Collected(found) \in Seq(Ids) /\ IsInjective(Collected(found))
    BY <1>1, <2>3, FindingIs
  <2>5. agent' = [agent EXCEPT !.todo = Tail(agent.todo), !.collected = Collected(found)]
    BY <2>2
  <2>6. agent.step # "idle" /\ agent.step # "answered" /\ agent.step \in AgentSteps
    BY <1>3, <2>1
  <2>7. [agent EXCEPT !.todo = Tail(agent.todo), !.collected = Collected(found)] =
          [agent EXCEPT !.step = agent.step, !.question = agent.question, !.todo = Tail(agent.todo),
                        !.round = agent.round, !.collected = Collected(found)]
    BY <1>10, Zenon
  <2> QED
    BY <1>3, <1>4, <2>1, <2>3, <2>4, <2>5, <2>6, <2>7, Zenon
<1>14. ASSUME UNCHANGED searchVars, agent.step = "search", NEW todo \in Seq(Seq(Pattern)),
              agent' = NextRound(todo)
       PROVE  AgentInv'
  <2>1. CASE agent.round + 1 = MaxSteps
    <3>1. agent' = [agent EXCEPT !.step = "compose"]
      BY <1>14, <2>1 DEF NextRound
    <3> QED
      BY <1>8, <1>14, <1>20, <3>1
  <2>2. CASE agent.round + 1 # MaxSteps
    <3>1. agent' = [agent EXCEPT !.step = "search", !.todo = todo, !.round = agent.round + 1]
      BY <1>14, <2>2 DEF NextRound
    <3>2. agent.round + 1 \in Nat /\ agent.round + 1 < MaxSteps
      BY <1>3, <2>2, AgentAssumption
    <3>3. [agent EXCEPT !.step = "search", !.todo = todo, !.round = agent.round + 1] =
            [agent EXCEPT !.step = "search", !.question = agent.question, !.todo = todo,
                          !.round = agent.round + 1, !.collected = agent.collected]
      BY <1>10, Zenon
    <3>4. "search" \in AgentSteps /\ "search" # "answered"
      BY <1>8
    <3>5. AgentIs([agent EXCEPT !.step = "search", !.question = agent.question, !.todo = todo,
                                !.round = agent.round + 1, !.collected = agent.collected])
      <4>1. agent.question \in Query
        BY <1>3, <1>14
      <4> QED
        BY <1>1, <1>3, <3>2, <3>4, <4>1, WorkingIs, Zenon
    <3> QED
      BY <1>2, <1>14, <3>1, <3>3, <3>5
  <2> QED
    BY <2>1, <2>2
<1>15. CASE Simplify
  <2>1. UNCHANGED searchVars /\ agent.step = "search"
        /\ agent' = NextRound(<<Simplified[agent.question]>>)
    BY <1>15 DEF Simplify, AgentAt
  <2>2. Simplified[agent.question] \in Seq(Pattern)
    BY <1>3, <2>1, PlansAre
  <2>3. <<Simplified[agent.question]>> \in Seq(Seq(Pattern))
    BY <2>2
  <2> QED
    BY <1>14, <2>1, <2>3
<1>16. CASE Observe
  <2>1. UNCHANGED searchVars /\ agent.step = "search"
    BY <1>16 DEF Observe, AgentAt
  <2>2. CASE agent' = [agent EXCEPT !.step = "compose"]
    BY <1>8, <1>20, <2>1, <2>2
  <2>3. CASE \E todo \in Plans : agent' = NextRound(todo)
    BY <1>14, <2>1, <2>3, PlansAre
  <2> QED
    BY <1>16, <2>2, <2>3 DEF Observe
<1>17. CASE Cancel
  <2>1. UNCHANGED searchVars /\ agent.step = "search" /\ agent' = AgentAnswers("cancelled", <<>>)
    BY <1>17 DEF Cancel, AgentAt
  <2> QED
    BY <1>6, <1>7, <2>1
<1>18. CASE Compose
  <2>1. UNCHANGED searchVars /\ agent.step # "idle"
    BY <1>18 DEF Compose, AgentAt
  <2>2. CASE agent' = AgentAnswers("memories", agent.collected)
    BY <1>3, <1>7, <2>1, <2>2
  <2>3. CASE agent' = [AgentAnswers("answer", Upto(agent.collected, Cited))
                        EXCEPT !.prompt = Selected(agent.collected)]
    <3>1. /\ Upto(agent.collected, Cited) \in Seq(Ids) /\ IsInjective(Upto(agent.collected, Cited))
          /\ ToSet(Upto(agent.collected, Cited)) \subseteq ToSet(agent.collected)
      <4>1. Cited \in Nat
        BY AgentAssumption
      <4> QED
        BY <1>3, <4>1, UptoIs
    <3>2. Selected(agent.collected) \in SUBSET Nat
          /\ Balanced(Selected(agent.collected), agent.collected)
      <4>1. Ids \subseteq Nat
        BY <1>1, IdsAre
      <4> QED
        BY <1>1, <1>3, <4>1, SelectedIs
    <3> QED
      BY <1>5, <2>1, <2>3, <3>1, <3>2
  <2> QED
    BY <1>18, <2>2, <2>3 DEF Compose
<1>19. ASSUME NEW m \in Shape, AgentArrive(m)
       PROVE  AgentInv'
  BY <1>19, AgentArriveKeeps DEF AgentInv
<1> QED
  BY <1>9, <1>11, <1>12, <1>13, <1>15, <1>16, <1>17, <1>18, <1>19 DEF AgentNext

LEMMA AgentStarts == Init => AgentInv
<1> SUFFICES ASSUME Init
             PROVE  AgentInv
  OBVIOUS
<1>1. memories = <<>> /\ agent = NoAgent
  BY DEF Init, AskInit, AgentInit, SearchInit
<1>2. MaxMemories \in Nat
  BY SearchAssumption
<1>3. AgentIs(agent)
  BY <1>1, NoAgentIs
<1> QED
  BY <1>1, <1>2, <1>3 DEF AgentInv, MemoriesTyped

\* Another part leaves the agent alone, which has not begun.
LEMMA AgentPartKeeps == AgentInv /\ [Next]_vars => AgentInv'
<1> SUFFICES ASSUME AgentInv, [Next]_vars
             PROVE  AgentInv'
  OBVIOUS
<1>1. CASE part = "agent" /\ part' = part /\ AgentNext
  BY <1>1, AgentKeeps
<1>2. CASE UNCHANGED <<part, memories, agent>>
  <2>1. AgentIs(agent)'
    BY <1>2, AgentStays DEF AgentInv
  <2> QED
    BY <1>2, <2>1 DEF AgentInv, MemoriesTyped
<1>3. ASSUME part = "memories", UNCHANGED <<part, agent>>, NEW m \in Shape, Insert(m)
      PROVE  AgentInv'
  <2>1. MemoriesTyped' /\ Ids \subseteq Ids'
    BY <1>3, InsertKeepsMemories DEF AgentInv
  <2>2. agent = NoAgent /\ AgentIs(agent)
    BY <1>3 DEF AgentInv
  <2>3. agent.collected \in Seq(Ids') /\ agent.step # "answered"
    <3>1. agent.collected \in Seq(Ids')
      BY <2>1, <2>2, ListOfMore DEF AgentIs
    <3> QED
      BY <2>2, <3>1, Zenon DEF NoAgent
  <2>4. AgentIs(agent)'
    BY <1>3, <2>2, <2>3 DEF AgentIs
  <2> QED
    BY <1>3, <2>1, <2>2, <2>4 DEF AgentInv
<1>4. SearchNext => UNCHANGED memories \/ \E m \in Shape : Insert(m)
  BY DEF SearchNext, Find
<1>5. AskNext => UNCHANGED memories \/ \E m \in Shape : Insert(m)
  BY ReadingStep DEF searchVars
<1>6. CASE OfMemories /\ (SearchNext \/ AskNext)
  BY <1>2, <1>3, <1>4, <1>5, <1>6 DEF OfMemories
<1>7. CASE OfAgent /\ AgentNext
  BY <1>1, <1>7 DEF OfAgent
<1> QED
  BY <1>2, <1>6, <1>7
     DEF Next, vars, OfTimes, OfModel, OfTools, OfPages, OfBoard, OfRebuild, OfDatabase, askVars,
         searchVars

LEMMA AgentTells == AgentInv => AgentGrounded
<1> SUFFICES ASSUME AgentInv
             PROVE  AgentGrounded
  OBVIOUS
<1> QED
  BY DEF AgentInv, AgentIs, AgentGrounded, AgentAt, Balanced

-----------------------------------------------------------------------------
(* The theorems *)

\* Whatever the memories, the keywords, the filters and the strategy: a search finds all that it
\* should, nothing that its filters leave out, and in the order in which it should come.
THEOREM SearchesFind == Spec => []SearchFinds
<1>1. Init => SearchInv
  <2> SUFFICES ASSUME Init
               PROVE  SearchInv
    OBVIOUS
  <2>1. memories = <<>> /\ search = NoSearch
    BY DEF Init, AskInit, SearchInit
  <2>2. MaxMemories \in Nat
    BY SearchAssumption
  <2> QED
    BY <2>1, <2>2 DEF SearchInv, MemoriesTyped
<1>2. ASSUME SearchInv, [Next]_vars
      PROVE  SearchInv'
  <2>1. CASE SearchNext
    BY <1>2, <2>1, SearchKeeps
  <2>2. CASE UNCHANGED searchVars
    <3>1. UNCHANGED memories /\ UNCHANGED search
      BY <2>2 DEF searchVars
    <3>2. SearchInv'
      BY <1>2, <3>1, RightStays, Zenon DEF SearchInv, MemoriesTyped
    <3> QED
      BY <3>2
  <2>3. CASE \E m \in Shape : Insert(m)
    BY <1>2, <2>3, InsertKeepsMemories DEF SearchInv, Insert
  <2> QED
    BY <1>2, <2>1, <2>2, <2>3, ReadingStep
       DEF Next, vars, OfMemories, OfAgent, OfTimes, OfModel, OfTools, OfPages, OfBoard,
           OfRebuild, OfDatabase, askVars, searchVars
<1>3. SearchInv => SearchFinds
  BY DEF SearchInv, SearchFinds, FoundRight
<1> QED
  BY <1>1, <1>2, <1>3, PTL DEF Spec

\* Whatever the memories, the question and what the model makes of it, and whatever arrives in
\* between: an answer is made from all that should be found and from nothing that should not; a
\* call of the tool stays in its budget; and the agent ends, with a balanced selection of what it
\* collected.
THEOREM AnswersAreGrounded == Spec => []AskGrounded
<1>1. Init => AskInv /\ AgentInv
  BY AskStarts, AgentStarts
<1>2. AskInv /\ AgentInv /\ [Next]_vars => AskInv' /\ AgentInv'
  BY PipelineKeeps, AgentPartKeeps
<1>3. AskInv /\ AgentInv => AskGrounded
  BY PipelineTells, AgentTells DEF AskGrounded
<1> QED
  BY <1>1, <1>2, <1>3, PTL DEF Spec

\* The log of the model's calls is true, however many processes write it at once, fail and are
\* killed: a call has its row, and is flagged as a duplicate for an equal one only; and of any
\* answer the first complete array is taken, however long it is and however it goes on.
THEOREM CallsAreLogged == Spec => []CallsAreTrue
<1>1. Init => ClientInv
  BY ClientBegins DEF Init
<1>2. ASSUME ClientInv, [Next]_vars
      PROVE  ClientInv'
  <2>1. CASE Calling!ClientNext
    BY <1>2, <2>1, ClientKeeps
  <2>2. CASE UNCHANGED modelVars
    BY <1>2, <2>2, ClientUnchanged DEF modelVars
  <2> QED
    BY <1>2, <2>1, <2>2
       DEF Next, vars, OfMemories, OfAgent, OfTimes, OfModel, OfTools, OfPages, OfBoard,
           OfRebuild, OfDatabase
<1>3. ClientInv => CallsAreTrue
  BY ClientTells DEF CallsAreTrue
<1> QED
  BY <1>1, <1>2, <1>3, PTL DEF Spec

\* A page gets the events of a run, whatever else the daemon does: however many connections
\* come and go, whatever the slots of a channel, none is put into a closed channel, and a
\* connection whose channel was never full misses none and learns of the end.
THEOREM PagesFollow == Spec => []EventsArrive
<1>1. Init => StreamInv
  BY UpkeepAssumption, InitStream, Zenon DEF Init
<1>2. ASSUME StreamInv, [Next]_vars
      PROVE  StreamInv'
  <2>1. CASE Watching!StreamNext
    BY <1>2, <2>1, StreamKeeps
  <2>2. CASE UNCHANGED pageVars
    BY <1>2, <2>2, StreamUnchanged
  <2> QED
    BY <1>2, <2>1, <2>2
       DEF Next, vars, OfMemories, OfAgent, OfTimes, OfModel, OfTools, OfPages, OfBoard,
           OfRebuild, OfDatabase
<1>3. StreamInv => EventsArrive
  BY DEF StreamInv, EventsArrive, Watching!EventsArrive, InStep, EndIsTold, WillBeTold
<1> QED
  BY <1>1, <1>2, <1>3, PTL DEF Spec

\* The faults of the other parts are none of the board's.
BoardInv ==
    IF part = "board" THEN BoardTypeOK /\ TrustInv /\ TrailInv
    ELSE ~ trusted /\ \A p \in Project : states[p] = 0

\* However many processes report, archive and fail: between two changes the file shows every
\* state and every pending fact, if the last one that made a change worked alone.
THEOREM BoardShowsAll == Spec => []BoardIsCurrent
<1>1. Init => BoardInv
  <2> SUFFICES ASSUME Init
               PROVE  BoardInv
    OBVIOUS
  <2>1. Board!Init
    BY DEF Init
  <2>2. Board!Idle \in Reporter
    BY DEF Reporter, Board!Idle
  <2> QED
    BY <2>1, <2>2 DEF BoardInv, BoardTypeOK, TrustInv, TrailInv, Board!Init
<1>2. ASSUME BoardInv, [Next]_vars
      PROVE  BoardInv'
  <2>1. CASE part = "board" /\ Board!Next
    <3>1. BoardAll
      BY <1>2, <2>1 DEF BoardInv, BoardAll
    <3>2. PICK w \in Writer : Board!Step(w)
      BY <2>1 DEF Board!Next
    <3>3. BoardAll'
      BY <3>1, <3>2, BoardStep
    <3>4. part' = part
      BY <1>2 DEF Next, vars, OfMemories, OfAgent, OfTimes, OfModel, OfTools, OfPages, OfBoard,
                  OfRebuild, OfDatabase
    <3> QED
      BY <2>1, <3>3, <3>4 DEF BoardInv, BoardAll
  <2>2. CASE UNCHANGED <<part, boardVars>> /\ (part = "board" => UNCHANGED faults)
    BY <1>2, <2>2 DEF BoardInv, BoardTypeOK, TrustInv, TrailInv, HasRead, Board!Busy,
       Board!At, Board!Pending, boardVars
  <2> QED
    BY <1>2, <2>1, <2>2
       DEF Next, vars, OfMemories, OfAgent, OfTimes, OfModel, OfTools, OfPages, OfBoard,
           OfRebuild, OfDatabase
<1>3. BoardInv => BoardIsCurrent
  BY DEF BoardInv, TrustInv, TrailInv, BoardIsCurrent, Board!BoardIsCurrent, Board!Busy, Board!At
<1> QED
  BY <1>1, <1>2, <1>3, PTL DEF Spec

\* Every memory has a permanent source, whoever opens the database, is killed, writes and
\* deletes meanwhile, however many columns it lacks; and provenance is never replaced.
THEOREM NothingLostByUpgrade == Spec => []UpgradeKeeps
<1>1. Init => UpgradeInv
  BY UpgradeBegins DEF Init
<1>2. ASSUME UpgradeInv, [Next]_vars
      PROVE  UpgradeInv'
  <2>1. CASE Opening!UpgradeNext
    BY <1>2, <2>1, UpgradeStep
  <2>2. CASE UNCHANGED databaseVars
    BY <1>2, <2>2, UpgradeUnchanged
  <2> QED
    BY <1>2, <2>1, <2>2
       DEF Next, vars, OfMemories, OfAgent, OfTimes, OfModel, OfTools, OfPages, OfBoard,
           OfRebuild, OfDatabase
<1>3. UpgradeInv => UpgradeKeeps
  <2>1. (\E p \in Proc : Opening!At(p, "open")) => Reached(Late)
    BY DEF Reached, Late, Opening!At
  <2> QED
    BY <2>1 DEF UpgradeInv, SourcedInv, IndexInv, UpgradeKeeps, Opening!UpgradeKeeps
<1> QED
  BY <1>1, <1>2, <1>3, PTL DEF Spec

\* A full rebuild that ran alone leaves the events that are no noise as memories of the inbox,
\* and either mode the index, the tags and the links of the memories, whatever was killed,
\* refused, written and deleted before, and however long the log is.
THEOREM EverythingIsRemade == Spec => []RebuildRestores
<1>1. Init => RebuildInv
  BY RebuildBegins DEF Init
<1>2. ASSUME RebuildInv, [Next]_vars
      PROVE  RebuildInv'
  <2>1. CASE Derived!Next
    BY <1>2, <2>1, RebuildKeeps
  <2>2. CASE UNCHANGED rebuildVars
    BY <1>2, <2>2, RebuildUnchanged DEF rebuildVars, Derived!tables
  <2> QED
    BY <1>2, <2>1, <2>2
       DEF Next, vars, OfMemories, OfAgent, OfTimes, OfModel, OfTools, OfPages, OfBoard,
           OfRebuild, OfDatabase
<1>3. RebuildInv => RebuildRestores
  BY Zenon DEF RebuildInv, RebuildRestores
<1> QED
  BY <1>1, <1>2, <1>3, PTL DEF Spec

\* A reminder is due when its phrase says, and a question's range is over when it should be,
\* whatever the time at which is asked, in every year.
THEOREM TimesAreTold == Spec => []TimesAsSaid
<1>1. Init => TimesInv
  BY TimesBegins DEF Init
<1>2. ASSUME TimesInv, [Next]_vars
      PROVE  TimesInv'
  <2>1. CASE TimesNext
    BY <1>2, <2>1, TimesKeeps
  <2>2. CASE UNCHANGED timeVars
    BY <1>2, <2>2, TimesUnchanged
  <2> QED
    BY <1>2, <2>1, <2>2
       DEF Next, vars, OfMemories, OfAgent, OfTimes, OfModel, OfTools, OfPages, OfBoard,
           OfRebuild, OfDatabase
<1>3. TimesInv => TimesAsSaid
  BY DEF TimesInv
<1> QED
  BY <1>1, <1>2, <1>3, PTL DEF Spec

\* Requests are answered in their order, each once, from what those before it made, however
\* many there are and however often the server is killed and they are repeated; and of the
\* reminders and facts that were promised none is lost, and none is made more often than it
\* was asked for and the server killed.
THEOREM RequestsAreAnswered == Spec => []AnsweredInOrder
<1>1. Init => ServerInv
  BY ServerBegins DEF Init
<1>2. ASSUME ServerInv, [Next]_vars
      PROVE  ServerInv'
  <2>1. CASE Serving!McpNext
    BY <1>2, <2>1, ServerKeeps
  <2>2. CASE UNCHANGED toolVars
    BY <1>2, <2>2, ServerUnchanged
  <2> QED
    BY <1>2, <2>1, <2>2
       DEF Next, vars, OfMemories, OfAgent, OfTimes, OfModel, OfTools, OfPages, OfBoard,
           OfRebuild, OfDatabase
<1>3. ServerInv => AnsweredInOrder
  BY ServerTells DEF AnsweredInOrder
<1> QED
  BY <1>1, <1>2, <1>3, PTL DEF Spec
=============================================================================
