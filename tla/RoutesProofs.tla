---------------------------- MODULE RoutesProofs ----------------------------
(* Proofs about the routes on the rail, for lists of any length: the route  *)
(* of a patrol is a shortest one, and the order of a charge passes no pile  *)
(* that has not been tried.  What a recursive function computes is proved   *)
(* by induction up to the length of the list, which is stated for sets of   *)
(* numbers.                                                                 *)
EXTENDS Routes, FiniteSetTheorems, WellFoundedInduction, SequenceTheorems, TLAPS

(* Numbers.                                                                  *)

\* A set of numbers has a least one: the intervals below its elements are
\* finite, and one of them contains no other.
LEMMA LeastNumber ==
  ASSUME NEW S, S \subseteq Nat, S # {}
  PROVE  \E n \in S : \A m \in S : n <= m
<1>1. PICK b \in S : TRUE
  OBVIOUS
<1>. DEFINE Below == { 1 .. m : m \in { k \in S : k <= b } }
<1>2. Below \subseteq SUBSET (1 .. b) /\ Below # {}
  OBVIOUS
<1>3. PICK x \in Below : \A y \in Below : <<y, x>> \notin StrictSubsetOrdering(1 .. b)
  <2>1. IsWellFoundedOn(StrictSubsetOrdering(1 .. b), FiniteSubsetsOf(1 .. b))
    BY FS_StrictSubsetOrderingWellFounded
  <2>2. Below \subseteq FiniteSubsetsOf(1 .. b)
    BY <1>2, FS_Interval, FS_FiniteSubsetsOfFinite
  <2>. HIDE DEF Below
  <2>. QED
    BY <1>2, <2>1, <2>2, WFMin
<1>4. PICK n \in S : n <= b /\ x = 1 .. n
  OBVIOUS
<1>5. ASSUME NEW m \in S, m < n PROVE FALSE
  <2>1. 1 .. m \in Below
    BY <1>4, <1>5
  <2>2. /\ 1 .. m \subseteq 1 .. n /\ n \in 1 .. n /\ n \notin 1 .. m
        /\ 1 .. m \subseteq 1 .. b /\ 1 .. n \subseteq 1 .. b
    BY <1>4, <1>5
  <2>3. 1 .. m # 1 .. n
    BY <2>2
  <2>. QED
    BY <1>3, <1>4, <2>1, <2>2, <2>3 DEF StrictSubsetOrdering
<1>. QED
  BY <1>4, <1>5

\* Induction up to N, for a property given as the set A of its numbers.
LEMMA UpTo ==
  ASSUME NEW N \in Nat, NEW A, 0 \in A, \A n \in 0 .. N - 1 : n \in A => n + 1 \in A
  PROVE  0 .. N \subseteq A
<1>. DEFINE Missing == (0 .. N) \ A
<1>. SUFFICES ASSUME Missing # {} PROVE FALSE
  OBVIOUS
<1>1. PICK n \in Missing : \A m \in Missing : n <= m
  <2>. HIDE DEF Missing
  <2>1. Missing \subseteq Nat
    BY DEF Missing
  <2>. QED
    BY <2>1, LeastNumber
<1>2. n # 0 /\ n - 1 \in 0 .. N - 1 /\ n - 1 \in 0 .. N
  OBVIOUS
<1>3. n - 1 \in A
  BY <1>1, <1>2
<1>4. (n - 1) + 1 \in A
  BY <1>2, <1>3
<1>. QED
  BY <1>4

\* A function each of whose values follows from the one before, and that such
\* a function exists.
Iteration(f, S, first, N, G) ==
  /\ f \in [0 .. N -> S]
  /\ f[0] = first
  /\ \A k \in 1 .. N : f[k] = G[k][f[k - 1]]

LEMMA Iterates ==
  ASSUME NEW S, NEW first \in S, NEW N \in Nat, NEW G \in [1 .. N -> [S -> S]]
  PROVE  \E f : Iteration(f, S, first, N, G)
<1>. DEFINE A == { n \in 0 .. N : \E f : Iteration(f, S, first, n, G) }
<1>1. 0 \in A
  <2>. DEFINE only == [x \in 0 .. 0 |-> first]
  <2>1. /\ only \in [0 .. 0 -> S]
        /\ only[0] = first
        /\ \A k \in 1 .. 0 : FALSE
    OBVIOUS
  <2>2. \A k \in 1 .. 0 : only[k] = G[k][only[k - 1]]
    BY <2>1
  <2>. HIDE DEF only
  <2>. QED
    BY <2>1, <2>2 DEF Iteration
<1>2. ASSUME NEW n \in 0 .. N - 1, n \in A PROVE n + 1 \in A
  <2>1. PICK f : f \in [0 .. n -> S] /\
          f[0] = first /\ \A k \in 1 .. n : f[k] = G[k][f[k - 1]]
    BY <1>2 DEF Iteration
  <2>. DEFINE g == [x \in 0 .. n + 1 |-> IF x = n + 1 THEN G[n + 1][f[n]] ELSE f[x]]
  <2>2. n + 1 \in 1 .. N /\ f[n] \in S /\ n + 1 \in 0 .. N
    BY <2>1
  <2>3. G[n + 1][f[n]] \in S
    BY <2>2
  <2>4. g \in [0 .. n + 1 -> S]
    BY <2>1, <2>3
  <2>5. g[0] = first
    BY <2>1
  <2>6. ASSUME NEW k \in 1 .. n + 1 PROVE g[k] = G[k][g[k - 1]]
    <3>1. CASE k = n + 1
      <4>1. g[n + 1] = G[n + 1][f[n]] /\ g[n] = f[n]
        OBVIOUS
      <4>2. (n + 1) - 1 = n
        OBVIOUS
      <4>. HIDE DEF g
      <4>. QED
        BY <3>1, <4>1, <4>2
    <3>2. CASE k # n + 1
      <4>1. k \in 1 .. n /\ k \in 0 .. n + 1 /\ k - 1 \in 0 .. n + 1 /\ k - 1 # n + 1
        BY <3>2
      <4>2. g[k] = f[k] /\ g[k - 1] = f[k - 1]
        BY <3>2, <4>1
      <4>. QED
        BY <2>1, <4>1, <4>2
    <3>. QED
      BY <3>1, <3>2
  <2>. HIDE DEF g
  <2>7. Iteration(g, S, first, n + 1, G)
    BY <2>4, <2>5, <2>6 DEF Iteration
  <2>. QED
    BY <2>2, <2>7
<1>. HIDE DEF A
<1>3. N \in A
  <2>1. 0 .. N \subseteq A
    BY <1>1, <1>2, UpTo
  <2>. QED
    BY <2>1
<1>. QED
  BY <1>3 DEF A

---------------------------------------------------------------------------
(* Orders.                                                                   *)

\* A list has an order in which it ascends: an element comes after those that
\* are less, and after its equals further ahead.
LEMMA SortedFacts ==
  ASSUME NEW points \in Seq(Int)
  PROVE  Sorted(points) \in Orders(points) /\ Ascending(Sorted(points))
<1>. DEFINE D == DOMAIN points
            Before(i, j) == points[i] < points[j] \/ (points[i] = points[j] /\ i < j)
            Firsts(i) == { j \in D : Before(j, i) }
            rank == [i \in D |-> Cardinality(Firsts(i)) + 1]
<1>1. D = 1 .. Len(points) /\ Len(points) \in Nat /\ \A i \in D : points[i] \in Int
  BY LenProperties
<1>2. IsFiniteSet(D) /\ Cardinality(D) = Len(points)
  <2>1. PICK n \in Nat : n = Len(points)
    BY <1>1
  <2>2. IsFiniteSet(1 .. n) /\ Cardinality(1 .. n) = IF 1 > n THEN 0 ELSE n - 1 + 1
    BY FS_Interval
  <2>3. (IF 1 > n THEN 0 ELSE n - 1 + 1) = n
    OBVIOUS
  <2>4. D = 1 .. n
    BY <1>1, <2>1
  <2>. QED
    BY <2>1, <2>2, <2>3, <2>4
<1>. HIDE DEF D
<1>3. ASSUME NEW i \in D
      PROVE  /\ Firsts(i) \subseteq D /\ i \notin Firsts(i)
             /\ IsFiniteSet(Firsts(i)) /\ Cardinality(Firsts(i)) \in Nat
  <2>1. Firsts(i) \subseteq D /\ i \notin Firsts(i)
    BY <1>1
  <2>. QED
    BY <1>2, <2>1, FS_Subset, FS_CardinalityType
<1>4. ASSUME NEW i \in D, NEW j \in D, Before(i, j) PROVE rank[i] < rank[j]
  <2>1. Firsts(i) \cup {i} \subseteq Firsts(j)
    BY <1>1, <1>4
  <2>. HIDE DEF Firsts
  <2>2. Cardinality(Firsts(i) \cup {i}) = Cardinality(Firsts(i)) + 1
    BY <1>3, FS_AddElement
  <2>3. Cardinality(Firsts(i) \cup {i}) <= Cardinality(Firsts(j))
    BY <1>3, <2>1, FS_Subset
  <2>. QED
    BY <1>3, <2>2, <2>3
<1>5. \A i, j \in D : i # j => Before(i, j) \/ Before(j, i)
  BY <1>1
<1>6. ASSUME NEW i \in D PROVE rank[i] \in D
  <2>1. Firsts(i) \cup {i} \subseteq D
    BY <1>3
  <2>. HIDE DEF Firsts
  <2>2. Cardinality(Firsts(i)) + 1 <= Cardinality(D)
    BY <1>2, <1>3, <2>1, FS_AddElement, FS_Subset
  <2>. QED
    BY <1>1, <1>2, <1>3, <2>2
<1>. HIDE DEF Before, rank
<1>7. rank \in [D -> D]
  BY <1>6 DEF rank
<1>8. \A i, j \in D : rank[i] = rank[j] => i = j
  <2>1. \A i \in D : rank[i] \in Int
    BY <1>1, <1>6
  <2>. QED
    BY <1>4, <1>5, <2>1
<1>9. ASSUME NEW r \in D PROVE \E i \in D : rank[i] = r
  <2>1. rank \in Injection(D, D)
    BY <1>7, <1>8 DEF Injection, IsInjective
  <2>2. rank \in Surjection(D, D)
    BY <1>2, <2>1, FS_Injection
  <2>. QED
    BY <2>2 DEF Surjection
<1>. DEFINE at == [r \in D |-> CHOOSE i \in D : rank[i] = r]
<1>10. at \in [D -> D] /\ \A r \in D : rank[at[r]] = r
  BY <1>9
<1>11. Range(at) = D
  <2>1. ASSUME NEW i \in D PROVE at[rank[i]] = i
    BY <1>6, <1>8, <1>10
  <2>. HIDE DEF at
  <2>. QED
    BY <1>6, <1>10, <2>1 DEF Range
<1>. DEFINE list == [i \in D |-> points[at[i]]]
<1>12. list \in Orders(points)
  <2>. HIDE DEF at
  <2>. QED
    BY <1>10, <1>11 DEF Orders, D
<1>13. Ascending(list)
  <2>1. ASSUME NEW r \in D, NEW s \in D, r < s PROVE points[at[r]] <= points[at[s]]
    <3>. HIDE DEF at
    <3>1. ASSUME Before(at[s], at[r]) PROVE FALSE
      <4>1. rank[at[s]] = s /\ rank[at[r]] = r /\ at[r] \in D /\ at[s] \in D
        BY <1>10
      <4>2. rank[at[s]] < rank[at[r]]
        BY <1>4, <3>1, <4>1
      <4>3. r \in Int /\ s \in Int
        BY <1>1
      <4>. QED
        BY <2>1, <4>1, <4>2, <4>3
    <3>2. at[r] \in D /\ at[s] \in D
      BY <1>10
    <3>. QED
      BY <1>1, <3>1, <3>2 DEF Before
  <2>. HIDE DEF at
  <2>. QED
    BY <2>1 DEF Ascending
<1>. HIDE DEF list
<1>. QED
  BY <1>12, <1>13 DEF Sorted
\* A permutation of the places of a list.
Shuffles(n) == { g \in [1 .. n -> 1 .. n] : Range(g) = 1 .. n }

LEMMA OrdersFacts ==
  ASSUME NEW list \in Seq(Int), NEW order \in Orders(list)
  PROVE  /\ order \in Seq(Int) /\ Len(order) = Len(list) /\ Len(list) \in Nat
         /\ \A i \in 1 .. Len(list) : \E j \in 1 .. Len(list) : order[j] = list[i]
         /\ \A g \in Shuffles(Len(list)) :
              [i \in 1 .. Len(list) |-> order[g[i]]] \in Orders(list)
<1>. DEFINE N == Len(list)
<1>1. N \in Nat /\ DOMAIN list = 1 .. N /\ \A i \in 1 .. N : list[i] \in Int
  BY LenProperties
<1>. HIDE DEF N
<1>2. PICK f \in [1 .. N -> 1 .. N] :
        Range(f) = 1 .. N /\ order = [i \in 1 .. N |-> list[f[i]]]
  BY <1>1 DEF Orders
<1>3. order \in Seq(Int) /\ Len(order) = N
  <2>1. order \in [1 .. N -> Int]
    BY <1>1, <1>2
  <2>. QED
    BY <1>1, <2>1, LenProperties DEF Seq
<1>4. ASSUME NEW i \in 1 .. N PROVE \E j \in 1 .. N : order[j] = list[i]
  BY <1>2 DEF Range
<1>5. ASSUME NEW g \in Shuffles(N) PROVE [i \in 1 .. N |-> order[g[i]]] \in Orders(list)
  <2>1. g \in [1 .. N -> 1 .. N] /\ Range(g) = 1 .. N
    BY <1>5 DEF Shuffles
  <2>. DEFINE h == [i \in 1 .. N |-> f[g[i]]]
  <2>2. h \in [1 .. N -> 1 .. N]
    BY <1>2, <2>1
  <2>3. ASSUME NEW i \in 1 .. N PROVE \E j \in 1 .. N : h[j] = i
    <3>1. PICK k \in 1 .. N : f[k] = i
      BY <1>2 DEF Range
    <3>2. PICK j \in 1 .. N : g[j] = k
      BY <2>1 DEF Range
    <3>. QED
      BY <3>1, <3>2
  <2>4. Range(h) = 1 .. N
    <3>. HIDE DEF h
    <3>. QED
      BY <2>2, <2>3 DEF Range
  <2>5. [i \in 1 .. N |-> order[g[i]]] = [i \in 1 .. N |-> list[h[i]]]
    BY <1>2, <2>1
  <2>. HIDE DEF h
  <2>. QED
    BY <1>1, <2>2, <2>4, <2>5 DEF Orders
<1>. QED
  BY <1>1, <1>3, <1>4, <1>5 DEF N

---------------------------------------------------------------------------
(* Distances driven.                                                         *)

\* The places of a drive from cur along a route, and the distance driven up to
\* each of them.
Places(cur, route) == [n \in 0 .. Len(route) |-> IF n = 0 THEN cur ELSE route[n]]

Meters(place, N, d) ==
  /\ d \in [0 .. N -> Int]
  /\ d[0] = 0
  /\ \A n \in 1 .. N : d[n] = d[n - 1] + Distance(place[n - 1], place[n])

LEMMA DistanceFacts ==
  ASSUME NEW x \in Int, NEW y \in Int
  PROVE  /\ Distance(x, y) \in Int /\ Distance(x, y) >= 0
         /\ x <= y => Distance(x, y) = y - x
         /\ y <= x => Distance(x, y) = x - y
BY DEF Distance

LEMMA DrivenFacts ==
  ASSUME NEW cur \in Int, NEW route \in Seq(Int)
  PROVE  /\ Places(cur, route) \in [0 .. Len(route) -> Int]
         /\ \E d : Meters(Places(cur, route), Len(route), d) /\ Driven(cur, route) = d[Len(route)]
<1>. DEFINE N == Len(route)
            p == Places(cur, route)
            Def(f) == f = [n \in 0 .. N |->
                             IF n = 0 THEN 0
                             ELSE f[n - 1] + Distance(IF n = 1 THEN cur ELSE route[n - 1], route[n])]
            G == [n \in 1 .. N |-> [x \in Int |-> x + Distance(p[n - 1], p[n])]]
<1>1. N \in Nat /\ \A i \in 1 .. N : route[i] \in Int
  BY LenProperties
<1>2. p \in [0 .. N -> Int]
  BY <1>1 DEF Places
<1>3. ASSUME NEW n \in 1 .. N
      PROVE  p[n - 1] = (IF n = 1 THEN cur ELSE route[n - 1]) /\ p[n] = route[n]
  BY <1>1 DEF Places
<1>. HIDE DEF p
<1>4. \A x, y \in Int : Distance(x, y) \in Int
  BY DEF Distance
<1>5. ASSUME NEW n \in 1 .. N PROVE n - 1 \in 0 .. N /\ n \in 0 .. N /\ n # 0
  BY <1>1
<1>6. G \in [1 .. N -> [Int -> Int]]
  <2>1. ASSUME NEW n \in 1 .. N, NEW x \in Int PROVE x + Distance(p[n - 1], p[n]) \in Int
    <3>1. Distance(p[n - 1], p[n]) \in Int
      BY <1>2, <1>4, <1>5
    <3>. QED
      BY <3>1
  <2>. QED
    BY <2>1
<1>7. PICK f : f \in [0 .. N -> Int] /\ f[0] = 0 /\ \A k \in 1 .. N : f[k] = G[k][f[k - 1]]
  <2>. HIDE DEF N, G
  <2>1. 0 \in Int /\ N \in Nat
    BY <1>1
  <2>2. \E f : Iteration(f, Int, 0, N, G)
    BY <1>6, <2>1, Iterates, Zenon
  <2>. QED
    BY <2>2 DEF Iteration
<1>8. \A k \in 1 .. N : f[k] = f[k - 1] + Distance(p[k - 1], p[k])
  BY <1>5, <1>7
<1>9. Def(f)
  <2>1. ASSUME NEW k \in 0 .. N
        PROVE  f[k] = IF k = 0 THEN 0
                      ELSE f[k - 1] + Distance(IF k = 1 THEN cur ELSE route[k - 1], route[k])
    <3>1. CASE k = 0
      BY <1>7, <3>1
    <3>2. CASE k # 0
      <4>1. k \in 1 .. N
        BY <1>1, <3>2
      <4>. QED
        BY <1>3, <1>8, <3>2, <4>1
    <3>. QED
      BY <3>1, <3>2
  <2>. QED
    BY <1>7, <2>1
<1>. DEFINE d == CHOOSE g : Def(g)
<1>10. Def(d)
  <2>. HIDE DEF Def
  <2>. QED
    BY <1>9
<1>11. Driven(cur, route) = d[N]
  BY DEF Driven
<1>. HIDE DEF d
<1>12. Meters(p, N, d)
  <2>1. d[0] = 0
    BY <1>1, <1>10
  <2>2. ASSUME NEW n \in 1 .. N PROVE d[n] = d[n - 1] + Distance(p[n - 1], p[n])
    <3>1. d[n] = d[n - 1] + Distance(IF n = 1 THEN cur ELSE route[n - 1], route[n])
      BY <1>5, <1>10
    <3>. QED
      BY <1>3, <3>1
  <2>3. d \in [0 .. N -> Int]
    <3>. DEFINE A == { n \in 0 .. N : d[n] \in Int }
    <3>1. 0 \in A
      BY <1>1, <2>1
    <3>2. ASSUME NEW n \in 0 .. N - 1, n \in A PROVE n + 1 \in A
      <4>1. n + 1 \in 1 .. N /\ (n + 1) - 1 = n /\ n \in 0 .. N /\ n + 1 \in 0 .. N
        BY <1>1
      <4>2. d[n + 1] = d[n] + Distance(p[n], p[n + 1])
        BY <2>2, <4>1
      <4>3. Distance(p[n], p[n + 1]) \in Int
        BY <1>2, <1>4, <4>1
      <4>. QED
        BY <3>2, <4>1, <4>2, <4>3
    <3>3. 0 .. N \subseteq A
      <4>. HIDE DEF A
      <4>. QED
        BY <1>1, <3>1, <3>2, UpTo
    <3>4. \A n \in 0 .. N : d[n] \in Int
      BY <3>3
    <3>5. DOMAIN d = 0 .. N /\ d = [n \in 0 .. N |-> d[n]]
      BY <1>10
    <3>. QED
      BY <3>4, <3>5
  <2>. QED
    BY <2>1, <2>2, <2>3 DEF Meters
<1>. QED
  BY <1>2, <1>11, <1>12 DEF p

\* Between two places of a drive the robot drives at least their distance.
LEMMA Detour ==
  ASSUME NEW N \in Nat, NEW p \in [0 .. N -> Int], NEW d, Meters(p, N, d),
         NEW i \in 0 .. N, NEW j \in 0 .. N, i <= j
  PROVE  d[j] - d[i] >= Distance(p[i], p[j])
<1>. DEFINE A == { n \in 0 .. N - i : d[i + n] - d[i] >= Distance(p[i], p[i + n]) }
<1>1. d \in [0 .. N -> Int]
  BY DEF Meters
<1>2. N - i \in Nat /\ 0 \in 0 .. N - i /\ i + 0 = i /\ d[i] \in Int /\ p[i] \in Int
  BY <1>1
<1>3. 0 \in A
  BY <1>2 DEF Distance
<1>4. ASSUME NEW n \in 0 .. (N - i) - 1, n \in A PROVE n + 1 \in A
  <2>0. PICK k \in 0 .. N, m \in 1 .. N : k = i + n /\ m = i + (n + 1)
    BY <1>2
  <2>1. m \in 0 .. N /\ m - 1 = k /\ n + 1 \in 0 .. N - i
    BY <1>2, <2>0
  <2>2. d[m] = d[k] + Distance(p[k], p[m])
    BY <2>1 DEF Meters
  <2>3. d[k] \in Int /\ d[m] \in Int /\ p[k] \in Int /\ p[m] \in Int
    BY <1>1, <2>1
  <2>4. d[k] - d[i] >= Distance(p[i], p[k])
    BY <1>4, <2>0
  <2>5. \A x, y, z \in Int : Distance(x, z) <= Distance(x, y) + Distance(y, z)
    BY DEF Distance
  <2>6. /\ Distance(p[i], p[m]) \in Int /\ Distance(p[i], p[k]) \in Int
        /\ Distance(p[k], p[m]) \in Int
    BY <1>2, <2>3, DistanceFacts
  <2>7. Distance(p[i], p[m]) <= Distance(p[i], p[k]) + Distance(p[k], p[m])
    BY <1>2, <2>3, <2>5
  <2>8. d[m] - d[i] >= Distance(p[i], p[m])
    <3>1. PICK a, b, c \in Int : a = d[k] /\ b = d[m] /\ c = d[i]
      BY <1>2, <2>3
    <3>2. PICK u, v, w \in Int : /\ u = Distance(p[i], p[k]) /\ v = Distance(p[k], p[m])
                                /\ w = Distance(p[i], p[m])
      BY <2>6
    <3>3. b = a + v /\ a - c >= u /\ w <= u + v
      BY <2>2, <2>4, <2>7, <3>1, <3>2
    <3>4. b - c >= w
      BY <3>3
    <3>. QED
      BY <3>1, <3>2, <3>4
  <2>. QED
    BY <2>0, <2>1, <2>8
<1>5. 0 .. N - i \subseteq A
  <2>. HIDE DEF A
  <2>. QED
    BY <1>2, <1>3, <1>4, UpTo
<1>6. j - i \in A /\ i + (j - i) = j
  <2>1. j - i \in 0 .. N - i /\ i + (j - i) = j
    OBVIOUS
  <2>. HIDE DEF A
  <2>. QED
    BY <1>5, <2>1
<1>. QED
  BY <1>6

\* Where the places ascend, or descend, it drives no more than that.
Rises(p, i, j) == \A k \in i + 1 .. j : p[k - 1] <= p[k]
Falls(p, i, j) == \A k \in i + 1 .. j : p[k - 1] >= p[k]

LEMMA Straight ==
  ASSUME NEW N \in Nat, NEW p \in [0 .. N -> Int], NEW d, Meters(p, N, d),
         NEW i \in 0 .. N, NEW j \in 0 .. N, i <= j,
         Rises(p, i, j) \/ Falls(p, i, j)
  PROVE  d[j] - d[i] <= Distance(p[i], p[j])
<1>. DEFINE Up(n) == \A k \in i + 1 .. i + n : p[k - 1] <= p[k]
            Down(n) == \A k \in i + 1 .. i + n : p[k - 1] >= p[k]
            Path(n) == /\ Up(n) => d[i + n] - d[i] = p[i + n] - p[i] /\ p[i] <= p[i + n]
                       /\ Down(n) => d[i + n] - d[i] = p[i] - p[i + n] /\ p[i + n] <= p[i]
            A == { n \in 0 .. N - i : Path(n) }
<1>1. d \in [0 .. N -> Int]
  BY DEF Meters
<1>2. N - i \in Nat /\ 0 \in 0 .. N - i /\ i + 0 = i /\ d[i] \in Int /\ p[i] \in Int
  BY <1>1
<1>3. 0 \in A
  BY <1>2
<1>4. ASSUME NEW n \in 0 .. (N - i) - 1, n \in A PROVE n + 1 \in A
  <2>0. PICK l \in 0 .. N, m \in 1 .. N : l = i + n /\ m = i + (n + 1)
    BY <1>2
  <2>1. m \in 0 .. N /\ m - 1 = l /\ n + 1 \in 0 .. N - i /\ m \in i + 1 .. m
    BY <1>2, <2>0
  <2>2. PICK x \in Int, y \in Int, z \in Int, a \in Int, b \in Int, c \in Int :
          x = p[i] /\ y = p[l] /\ z = p[m] /\ a = d[i] /\ b = d[l] /\ c = d[m]
    BY <1>1, <1>2, <2>1
  <2>3. c = b + Distance(y, z)
    BY <2>1, <2>2 DEF Meters
  <2>4. /\ Up(n) => b - a = y - x /\ x <= y
        /\ Down(n) => b - a = x - y /\ y <= x
    BY <1>4, <2>0, <2>2
  <2>5. i + 1 .. i + n \subseteq i + 1 .. m
    BY <2>0
  <2>6. ASSUME Up(n + 1) PROVE c - a = z - x /\ x <= z
    <3>1. Up(n) /\ y <= z
      BY <2>0, <2>1, <2>2, <2>5, <2>6
    <3>. HIDE DEF Up, Down
    <3>2. c = b + (z - y)
      BY <2>3, <3>1, DistanceFacts
    <3>3. b - a = y - x /\ x <= y
      BY <2>4, <3>1
    <3>. QED
      BY <3>1, <3>2, <3>3
  <2>7. ASSUME Down(n + 1) PROVE c - a = x - z /\ z <= x
    <3>1. Down(n) /\ z <= y
      BY <2>0, <2>1, <2>2, <2>5, <2>7
    <3>. HIDE DEF Up, Down
    <3>2. c = b + (y - z)
      BY <2>3, <3>1, DistanceFacts
    <3>3. b - a = x - y /\ y <= x
      BY <2>4, <3>1
    <3>. QED
      BY <3>1, <3>2, <3>3
  <2>. HIDE DEF Up, Down
  <2>. QED
    BY <2>0, <2>1, <2>2, <2>6, <2>7
<1>5. 0 .. N - i \subseteq A
  <2>. HIDE DEF A
  <2>. QED
    BY <1>2, <1>3, <1>4, UpTo
<1>6. j - i \in A /\ i + (j - i) = j
  <2>1. j - i \in 0 .. N - i /\ i + (j - i) = j
    OBVIOUS
  <2>. HIDE DEF A
  <2>. QED
    BY <1>5, <2>1
<1>7. Path(j - i)
  BY <1>6
<1>8. PICK x \in Int, y \in Int, a \in Int, b \in Int :
        x = p[i] /\ y = p[j] /\ a = d[i] /\ b = d[j]
  BY <1>1
<1>9. (b - a = y - x /\ x <= y) \/ (b - a = x - y /\ y <= x)
  BY <1>6, <1>7, <1>8 DEF Rises, Falls
<1>10. b - a <= Distance(x, y)
  <2>1. (b - a = y - x /\ Distance(x, y) = y - x) \/ (b - a = x - y /\ Distance(x, y) = x - y)
    BY <1>9, DistanceFacts
  <2>2. PICK e \in Int : e = Distance(x, y)
    BY DistanceFacts
  <2>3. b - a <= e
    BY <2>1, <2>2
  <2>. QED
    BY <2>2, <2>3
<1>. QED
  BY <1>8, <1>10
---------------------------------------------------------------------------
(* The route of a patrol.                                                    *)

LEMMA BorderFacts ==
  ASSUME NEW sorted \in Seq(Int), Ascending(sorted), NEW cur \in Int
  PROVE  LET b == Border(sorted, cur)
         IN  /\ b \in 1 .. Len(sorted) + 1
             /\ \A i \in 1 .. b - 1 : sorted[i] < cur
             /\ \A i \in b .. Len(sorted) : cur <= sorted[i]
<1>. DEFINE N == Len(sorted)
            Is(b) == /\ \A i \in 1 .. b - 1 : cur > sorted[i]
                     /\ b <= N => ~(cur > sorted[b])
            Not == { i \in 1 .. N : ~(cur > sorted[i]) } \cup {N + 1}
            B == Border(sorted, cur)
<1>1. N \in Nat /\ DOMAIN sorted = 1 .. N /\ \A i \in 1 .. N : sorted[i] \in Int
  BY LenProperties
<1>. HIDE DEF N
<1>2. PICK n \in Not : \A m \in Not : n <= m
  <2>1. Not \subseteq Nat /\ Not # {}
    BY <1>1
  <2>. HIDE DEF Not
  <2>. QED
    BY <2>1, LeastNumber
<1>3. n \in 1 .. N + 1 /\ Is(n)
  <2>1. n \in 1 .. N + 1
    BY <1>1
  <2>2. ASSUME NEW i \in 1 .. n - 1 PROVE cur > sorted[i]
    BY <1>1, <1>2, <2>1
  <2>3. n <= N => ~(cur > sorted[n])
    BY <1>1
  <2>. QED
    BY <2>1, <2>2, <2>3
<1>. HIDE DEF Is, Not
<1>4. B \in 1 .. N + 1 /\ Is(B)
  <2>1. B = CHOOSE b \in 1 .. N + 1 : Is(b)
    BY DEF Border, Is, N
  <2>. HIDE DEF B
  <2>. QED
    BY <1>3, <2>1
<1>. HIDE DEF B
<1>5. ASSUME NEW i \in 1 .. B - 1 PROVE sorted[i] < cur
  <2>1. i \in 1 .. N
    BY <1>1, <1>4
  <2>. QED
    BY <1>1, <1>4, <2>1 DEF Is
<1>6. ASSUME NEW i \in B .. N PROVE cur <= sorted[i]
  <2>1. B \in 1 .. N /\ i \in 1 .. N /\ (B = i \/ B < i)
    BY <1>1, <1>4
  <2>2. sorted[B] <= sorted[i]
    BY <1>1, <2>1 DEF Ascending
  <2>3. cur <= sorted[B]
    BY <1>1, <1>4, <2>1 DEF Is
  <2>. QED
    BY <1>1, <2>1, <2>2, <2>3
<1>. QED
  BY <1>4, <1>5, <1>6 DEF B, N

\* The two ways to visit the places of an ascending list: down from the border
\* and then up, or up from the border and then down.
DownFirst(b, i) == IF i < b THEN b - i ELSE i
UpFirst(N, b, i) == IF i <= N - b + 1 THEN b + i - 1 ELSE N + 1 - i

\* A part of a list.
LEMMA PartFacts ==
  ASSUME NEW s \in Seq(Int), NEW m \in 1 .. Len(s) + 1, NEW n \in m - 1 .. Len(s)
  PROVE  /\ SubSeq(s, m, n) \in Seq(Int) /\ Len(SubSeq(s, m, n)) = n - m + 1
         /\ \A i \in 1 .. n - m + 1 : SubSeq(s, m, n)[i] = s[m + i - 1]
<1>1. Len(s) \in Nat /\ \A i \in 1 .. Len(s) : s[i] \in Int
  BY LenProperties
<1>2. m \in Int /\ n \in Int /\ n - m + 1 \in Nat /\ (m <= n \/ n - m + 1 = 0)
  BY <1>1
<1>3. \A i \in m .. n : s[i] \in Int
  BY <1>1
<1>4. Len(SubSeq(s, m, n)) = n - m + 1
  <2>1. Len(SubSeq(s, m, n)) = IF m <= n THEN n - m + 1 ELSE 0
    BY <1>2, <1>3, SubSeqProperties
  <2>. QED
    BY <1>2, <2>1
<1>. QED
  BY <1>2, <1>3, <1>4, SubSeqProperties

LEMMA ListOf ==
  ASSUME NEW n \in Nat, NEW f \in [1 .. n -> Int]
  PROVE  f \in Seq(Int) /\ Len(f) = n
<1>1. f \in Seq(Int)
  BY DEF Seq
<1>2. Len(f) \in Nat /\ DOMAIN f = 1 .. Len(f) /\ DOMAIN f = 1 .. n
  BY <1>1, LenProperties
<1>. QED
  BY <1>1, <1>2

\* A list after another one.
LEMMA AfterFacts ==
  ASSUME NEW s \in Seq(Int), NEW t \in Seq(Int), NEW m, m = Len(s), NEW n, n = Len(t)
  PROVE  /\ s \o t \in Seq(Int) /\ Len(s \o t) = m + n
         /\ \A i \in 1 .. m : (s \o t)[i] = s[i]
         /\ \A i \in m + 1 .. m + n : (s \o t)[i] = t[i - m]
<1>1. m \in Nat /\ n \in Nat
  BY LenProperties
<1>2. /\ s \o t \in Seq(Int)
      /\ Len(s \o t) = Len(s) + Len(t)
      /\ \A i \in 1 .. Len(s) + Len(t) :
           (s \o t)[i] = IF i <= Len(s) THEN s[i] ELSE t[i - Len(s)]
  BY ConcatProperties
<1>3. \A i \in 1 .. m : i \in 1 .. m + n /\ i <= m
  BY <1>1
<1>4. \A i \in m + 1 .. m + n : i \in 1 .. m + n /\ ~(i <= m)
  BY <1>1
<1>. QED
  BY <1>2, <1>3, <1>4

LEMMA SidesFacts ==
  ASSUME NEW sorted \in Seq(Int), NEW b \in 1 .. Len(sorted) + 1
  PROVE  LET N == Len(sorted)
             behind == Reverse(SubSeq(sorted, 1, b - 1))
             ahead == SubSeq(sorted, b, N)
         IN  /\ behind \o ahead = [i \in 1 .. N |-> sorted[DownFirst(b, i)]]
             /\ ahead \o behind = [i \in 1 .. N |-> sorted[UpFirst(N, b, i)]]
<1>. DEFINE N == Len(sorted)
            below == SubSeq(sorted, 1, b - 1)
            behind == Reverse(below)
            ahead == SubSeq(sorted, b, N)
<1>1. N \in Nat /\ b \in 1 .. N + 1 /\ \A i \in 1 .. N : sorted[i] \in Int
  BY LenProperties
<1>2. b \in Int /\ b - 1 \in Nat /\ N - b + 1 \in Nat
  BY <1>1
<1>3. /\ below \in Seq(Int) /\ Len(below) = b - 1
      /\ \A i \in 1 .. b - 1 : below[i] = sorted[i]
  <2>1. 1 \in 1 .. N + 1 /\ b - 1 \in 1 - 1 .. N /\ (b - 1) - 1 + 1 = b - 1
    BY <1>1
  <2>2. /\ below \in Seq(Int) /\ Len(below) = (b - 1) - 1 + 1
        /\ \A i \in 1 .. (b - 1) - 1 + 1 : below[i] = sorted[1 + i - 1]
    BY <2>1, PartFacts
  <2>3. \A i \in 1 .. b - 1 : 1 + i - 1 = i
    BY <1>2
  <2>. QED
    BY <2>1, <2>2, <2>3
<1>. HIDE DEF below
<1>4. /\ behind \in Seq(Int) /\ Len(behind) = b - 1
      /\ \A i \in 1 .. b - 1 : behind[i] = sorted[b - i]
  <2>1. behind = [i \in 1 .. b - 1 |-> below[((b - 1) - i) + 1]]
    BY <1>3 DEF Reverse
  <2>2. ASSUME NEW i \in 1 .. b - 1
        PROVE  /\ ((b - 1) - i) + 1 = b - i /\ b - i \in 1 .. b - 1 /\ b - i \in 1 .. N
    BY <1>1
  <2>3. \A i \in 1 .. b - 1 : behind[i] = sorted[b - i] /\ sorted[b - i] \in Int
    BY <1>1, <1>3, <2>1, <2>2
  <2>4. behind \in [1 .. b - 1 -> Int]
    BY <2>1, <2>3
  <2>5. behind \in Seq(Int) /\ Len(behind) = b - 1
    BY <1>2, <2>4, ListOf
  <2>. QED
    BY <2>3, <2>5
<1>5. /\ ahead \in Seq(Int) /\ Len(ahead) = N - b + 1
      /\ \A i \in 1 .. N - b + 1 : ahead[i] = sorted[b + i - 1]
  <2>1. N \in b - 1 .. N
    BY <1>1
  <2>. QED
    BY <2>1, PartFacts
<1>. HIDE DEF behind, ahead, below, N
<1>. HIDE DEF N
<1>6. PICK k \in Nat, l \in Nat :
        k = b - 1 /\ l = N - b + 1 /\ k + l = N /\ l + k = N /\ b = k + 1
  BY <1>1
<1>7. /\ behind \o ahead \in Seq(Int) /\ Len(behind \o ahead) = N
      /\ \A i \in 1 .. N : (behind \o ahead)[i] = sorted[DownFirst(b, i)]
  <2>1. /\ behind \o ahead \in Seq(Int) /\ Len(behind \o ahead) = N
        /\ \A i \in 1 .. k : (behind \o ahead)[i] = behind[i]
        /\ \A i \in k + 1 .. N : (behind \o ahead)[i] = ahead[i - k]
    <3>1. behind \in Seq(Int) /\ ahead \in Seq(Int) /\ k = Len(behind) /\ l = Len(ahead)
      BY <1>4, <1>5, <1>6
    <3>2. /\ behind \o ahead \in Seq(Int) /\ Len(behind \o ahead) = k + l
          /\ \A i \in 1 .. k : (behind \o ahead)[i] = behind[i]
          /\ \A i \in k + 1 .. k + l : (behind \o ahead)[i] = ahead[i - k]
      BY <3>1, AfterFacts
    <3>. QED
      BY <1>6, <3>2
  <2>2. ASSUME NEW i \in 1 .. N PROVE (behind \o ahead)[i] = sorted[DownFirst(b, i)]
    <3>1. CASE i < b
      <4>1. i \in 1 .. k
        BY <1>1, <1>6, <3>1
      <4>. QED
        BY <1>4, <2>1, <3>1, <1>6, <4>1 DEF DownFirst
    <3>2. CASE ~(i < b)
      <4>1. /\ i \in k + 1 .. N /\ i - k \in 1 .. l
            /\ b + (i - k) - 1 = i
        BY <1>1, <1>6, <3>2
      <4>. QED
        BY <1>5, <2>1, <3>2, <1>6, <4>1 DEF DownFirst
    <3>. QED
      BY <3>1, <3>2
  <2>. QED
    BY <2>1, <2>2
<1>8. /\ ahead \o behind \in Seq(Int) /\ Len(ahead \o behind) = N
      /\ \A i \in 1 .. N : (ahead \o behind)[i] = sorted[UpFirst(N, b, i)]
  <2>1. /\ ahead \o behind \in Seq(Int) /\ Len(ahead \o behind) = N
        /\ \A i \in 1 .. l : (ahead \o behind)[i] = ahead[i]
        /\ \A i \in l + 1 .. N :
             (ahead \o behind)[i] = behind[i - l]
    <3>1. ahead \in Seq(Int) /\ behind \in Seq(Int) /\ l = Len(ahead) /\ k = Len(behind)
      BY <1>4, <1>5, <1>6
    <3>2. /\ ahead \o behind \in Seq(Int) /\ Len(ahead \o behind) = l + k
          /\ \A i \in 1 .. l : (ahead \o behind)[i] = ahead[i]
          /\ \A i \in l + 1 .. l + k : (ahead \o behind)[i] = behind[i - l]
      BY <3>1, AfterFacts
    <3>. QED
      BY <1>6, <3>2
  <2>2. ASSUME NEW i \in 1 .. N PROVE (ahead \o behind)[i] = sorted[UpFirst(N, b, i)]
    <3>1. CASE i <= l
      <4>1. i \in 1 .. l
        BY <1>1, <1>6, <3>1
      <4>. QED
        BY <1>5, <2>1, <3>1, <1>6, <4>1 DEF UpFirst
    <3>2. CASE ~(i <= l)
      <4>1. /\ i \in l + 1 .. N /\ i - l \in 1 .. k
            /\ b - (i - l) = N + 1 - i
        BY <1>1, <1>6, <3>2
      <4>. QED
        BY <1>4, <2>1, <3>2, <1>6, <4>1 DEF UpFirst
    <3>. QED
      BY <3>1, <3>2
  <2>. QED
    BY <2>1, <2>2
<1>9. ASSUME NEW s, s \in Seq(Int), Len(s) = N PROVE s = [i \in 1 .. N |-> s[i]]
  BY <1>9, LenProperties
<1>10. behind \o ahead = [i \in 1 .. N |-> sorted[DownFirst(b, i)]]
  <2>1. behind \o ahead = [i \in 1 .. N |-> (behind \o ahead)[i]]
    BY <1>7, <1>9
  <2>. QED
    BY <1>7, <2>1, Zenon
<1>11. ahead \o behind = [i \in 1 .. N |-> sorted[UpFirst(N, b, i)]]
  <2>1. ahead \o behind = [i \in 1 .. N |-> (ahead \o behind)[i]]
    BY <1>8, <1>9
  <2>. QED
    BY <1>8, <2>1, Zenon
<1>. QED
  BY <1>10, <1>11 DEF behind, ahead, below, N

LEMMA WaysFacts ==
  ASSUME NEW N \in Nat, NEW b \in 1 .. N + 1
  PROVE  /\ [i \in 1 .. N |-> DownFirst(b, i)] \in Shuffles(N)
         /\ [i \in 1 .. N |-> UpFirst(N, b, i)] \in Shuffles(N)
<1>1. ASSUME NEW i \in 1 .. N
      PROVE  /\ DownFirst(b, i) \in 1 .. N /\ DownFirst(b, DownFirst(b, i)) = i
             /\ UpFirst(N, b, i) \in 1 .. N
             /\ \E j \in 1 .. N : UpFirst(N, b, j) = i
  <2>1. DownFirst(b, i) \in 1 .. N /\ DownFirst(b, DownFirst(b, i)) = i
    BY DEF DownFirst
  <2>2. UpFirst(N, b, i) \in 1 .. N
    BY DEF UpFirst
  <2>3. CASE i >= b
    <3>1. i - b + 1 \in 1 .. N /\ UpFirst(N, b, i - b + 1) = i
      BY <2>3 DEF UpFirst
    <3>. QED
      BY <2>1, <2>2, <3>1
  <2>4. CASE i < b
    <3>1. N + 1 - i \in 1 .. N /\ UpFirst(N, b, N + 1 - i) = i
      BY <2>4 DEF UpFirst
    <3>. QED
      BY <2>1, <2>2, <3>1
  <2>. QED
    BY <2>3, <2>4
<1>2. ASSUME NEW g, g \in [1 .. N -> 1 .. N], \A i \in 1 .. N : \E j \in 1 .. N : g[j] = i
      PROVE  g \in Shuffles(N)
  BY <1>2 DEF Shuffles, Range
<1>3. [i \in 1 .. N |-> DownFirst(b, i)] \in Shuffles(N)
  <2>. DEFINE g == [i \in 1 .. N |-> DownFirst(b, i)]
  <2>1. g \in [1 .. N -> 1 .. N] /\ \A i \in 1 .. N : g[DownFirst(b, i)] = i
    BY <1>1
  <2>. HIDE DEF g
  <2>. QED
    BY <1>1, <1>2, <2>1 DEF g
<1>4. [i \in 1 .. N |-> UpFirst(N, b, i)] \in Shuffles(N)
  <2>. DEFINE g == [i \in 1 .. N |-> UpFirst(N, b, i)]
  <2>1. g \in [1 .. N -> 1 .. N] /\ \A i \in 1 .. N : \E j \in 1 .. N : g[j] = i
    BY <1>1
  <2>. HIDE DEF g
  <2>. QED
    BY <1>2, <2>1 DEF g
<1>. QED
  BY <1>3, <1>4
\* Whoever visits both ends drives from the start to one of them and across.
LEMMA AnyRoute ==
  ASSUME NEW cur \in Int, NEW route \in Seq(Int), NEW lo \in Int, NEW hi \in Int, lo <= hi,
         NEW a \in 1 .. Len(route), NEW z \in 1 .. Len(route), route[a] = lo, route[z] = hi
  PROVE  /\ Driven(cur, route) \in Int
         /\ \/ Driven(cur, route) >= Distance(cur, lo) + (hi - lo)
            \/ Driven(cur, route) >= Distance(cur, hi) + (hi - lo)
<1>. DEFINE N == Len(route)
            p == Places(cur, route)
<1>1. N \in Nat /\ a \in 1 .. N /\ z \in 1 .. N
  BY LenProperties
<1>2. p \in [0 .. N -> Int]
  BY DrivenFacts
<1>3. PICK d : Meters(p, N, d) /\ Driven(cur, route) = d[N]
  BY DrivenFacts
<1>4. p[0] = cur /\ p[a] = lo /\ p[z] = hi
  BY <1>1 DEF Places
<1>. HIDE DEF N, p
<1>5. /\ 0 \in 0 .. N /\ N \in 0 .. N /\ a \in 0 .. N /\ z \in 0 .. N
      /\ 0 <= a /\ 0 <= z /\ a <= N /\ z <= N /\ (a <= z \/ z <= a)
  BY <1>1
<1>6. PICK da \in Int, dz \in Int, dN \in Int : da = d[a] /\ dz = d[z] /\ dN = d[N]
  BY <1>3, <1>5 DEF Meters
<1>7. d[0] = 0
  BY <1>3 DEF Meters
<1>8. PICK u \in Int, v \in Int : u = Distance(cur, lo) /\ v = Distance(cur, hi)
  BY DistanceFacts
<1>9. da - 0 >= u /\ dz - 0 >= v
  BY <1>1, <1>2, <1>3, <1>4, <1>5, <1>6, <1>7, <1>8, Detour
<1>10. dN - da >= 0 /\ dN - dz >= 0
  <2>1. p[a] \in Int /\ p[z] \in Int /\ p[N] \in Int
    BY <1>2, <1>5
  <2>2. PICK e \in Int : e = Distance(p[a], p[N]) /\ e >= 0
    BY <2>1, DistanceFacts
  <2>3. PICK g \in Int : g = Distance(p[z], p[N]) /\ g >= 0
    BY <2>1, DistanceFacts
  <2>4. dN - da >= e /\ dN - dz >= g
    BY <1>1, <1>2, <1>3, <1>5, <1>6, <2>2, <2>3, Detour
  <2>. QED
    BY <2>2, <2>3, <2>4
<1>11. CASE a <= z
  <2>1. dz - da >= Distance(lo, hi)
    BY <1>1, <1>2, <1>3, <1>4, <1>5, <1>6, <1>11, Detour
  <2>2. dz - da >= hi - lo
    BY <2>1, DistanceFacts
  <2>3. dN >= u + (hi - lo)
    BY <1>9, <1>10, <2>2
  <2>. QED
    BY <1>3, <1>6, <1>8, <2>3
<1>12. CASE z <= a
  <2>1. da - dz >= Distance(hi, lo)
    BY <1>1, <1>2, <1>3, <1>4, <1>5, <1>6, <1>12, Detour
  <2>2. da - dz >= hi - lo
    BY <2>1, DistanceFacts
  <2>3. dN >= v + (hi - lo)
    BY <1>9, <1>10, <2>2
  <2>. QED
    BY <1>3, <1>6, <1>8, <2>3
<1>. QED
  BY <1>5, <1>11, <1>12

\* b parts an ascending list into the places behind the robot and the others.
Parts(sorted, N, cur, b) ==
  /\ \A i \in 1 .. b - 1 : sorted[i] < cur
  /\ \A i \in b .. N : cur <= sorted[i]

WalksDown(route, sorted, N, b) == route = [i \in 1 .. N |-> sorted[DownFirst(b, i)]]
WalksUp(route, sorted, N, b) == route = [i \in 1 .. N |-> sorted[UpFirst(N, b, i)]]

\* What the two routes of the code drive.
LEMMA DownRoute ==
  ASSUME NEW cur \in Int, NEW N \in Nat \ {0}, NEW sorted \in [1 .. N -> Int],
         Ascending(sorted), NEW b \in 1 .. N + 1,
         Parts(sorted, N, cur, b),
         NEW route \in Seq(Int), WalksDown(route, sorted, N, b),
         Len(route) = N
  PROVE  Driven(cur, route) <= IF b = 1 THEN sorted[N] - cur
                              ELSE IF b = N + 1 THEN cur - sorted[1]
                              ELSE (cur - sorted[1]) + (sorted[N] - sorted[1])
<1>. DEFINE p == Places(cur, route)
<1>0. /\ \A i \in 1 .. b - 1 : sorted[i] < cur
      /\ \A i \in b .. N : cur <= sorted[i]
  BY DEF Parts
<1>1. p \in [0 .. N -> Int]
  BY DrivenFacts
<1>2. PICK d : Meters(p, N, d) /\ Driven(cur, route) = d[N]
  BY DrivenFacts
<1>3. p[0] = cur /\ \A i \in 1 .. N : p[i] = sorted[DownFirst(b, i)]
  BY DEF Places, WalksDown
<1>. HIDE DEF p
<1>4. \A i \in 1 .. N : (i < b => p[i] = sorted[b - i]) /\ (i >= b => p[i] = sorted[i])
  BY <1>3 DEF DownFirst
<1>5. \A i, j \in 1 .. N : i <= j => sorted[i] <= sorted[j]
  BY DEF Ascending
<1>6. ASSUME NEW k \in 1 .. b - 1 PROVE p[k - 1] >= p[k]
  <2>1. k \in 1 .. N /\ k < b /\ b - k \in 1 .. N
    OBVIOUS
  <2>2. p[k] = sorted[b - k]
    BY <1>4, <2>1
  <2>3. CASE k = 1
    BY <1>0, <1>3, <2>1, <2>2, <2>3
  <2>4. CASE k # 1
    <3>1. k - 1 \in 1 .. N /\ k - 1 < b /\ b - (k - 1) \in 1 .. N /\ b - k <= b - (k - 1)
      BY <2>4
    <3>2. p[k - 1] = sorted[b - (k - 1)]
      BY <1>4, <3>1
    <3>3. sorted[b - k] <= sorted[b - (k - 1)]
      BY <1>5, <2>1, <3>1
    <3>. QED
      BY <2>1, <2>2, <3>1, <3>2, <3>3
  <2>. QED
    BY <2>3, <2>4
<1>7. ASSUME NEW k \in b + 1 .. N PROVE p[k - 1] <= p[k]
  <2>1. k \in 1 .. N /\ k >= b /\ k - 1 \in 1 .. N /\ k - 1 >= b /\ k - 1 <= k
    OBVIOUS
  <2>2. p[k] = sorted[k] /\ p[k - 1] = sorted[k - 1]
    BY <1>4, <2>1
  <2>. QED
    BY <1>5, <2>1, <2>2
<1>8. PICK lo \in Int, hi \in Int : lo = sorted[1] /\ hi = sorted[N]
  OBVIOUS
<1>9. PICK dN \in Int : dN = d[N]
  BY <1>2 DEF Meters
<1>10. d[0] = 0
  BY <1>2 DEF Meters
<1>11. 0 \in 0 .. N /\ N \in 0 .. N /\ 0 <= N /\ 0 + 1 = 1
  OBVIOUS
<1>12. CASE b = 1
  <2>1. ASSUME NEW k \in 1 .. N PROVE p[k - 1] <= p[k]
    <3>1. CASE k = 1
      BY <1>0, <1>3, <1>4, <1>12, <3>1
    <3>2. CASE k # 1
      BY <1>7, <1>12, <3>2
    <3>. QED
      BY <3>1, <3>2
  <2>2. p[N] = hi
    BY <1>4, <1>8, <1>12
  <2>3. d[N] - d[0] <= Distance(p[0], p[N])
    <3>1. Rises(p, 0, N)
      BY <2>1 DEF Rises
    <3>. QED
      BY <1>1, <1>2, <1>11, <3>1, Straight
  <2>4. dN - 0 <= Distance(cur, hi) /\ cur <= hi
    BY <1>0, <1>3, <1>8, <1>9, <1>10, <1>12, <2>2, <2>3
  <2>5. dN <= hi - cur
    BY <2>4, DistanceFacts
  <2>. QED
    BY <1>2, <1>8, <1>9, <1>12, <2>5
<1>13. CASE b = N + 1
  <2>1. \A k \in 1 .. N : p[k - 1] >= p[k]
    BY <1>6, <1>13
  <2>2. p[N] = lo
    <3>1. N \in 1 .. N /\ N < b /\ b - N = 1
      BY <1>13
    <3>. QED
      BY <1>4, <1>8, <3>1
  <2>3. d[N] - d[0] <= Distance(p[0], p[N])
    <3>1. Falls(p, 0, N)
      BY <2>1 DEF Falls
    <3>. QED
      BY <1>1, <1>2, <1>11, <3>1, Straight
  <2>4. dN - 0 <= Distance(cur, lo) /\ lo <= cur
    BY <1>0, <1>3, <1>8, <1>9, <1>10, <1>13, <2>2, <2>3
  <2>5. dN <= cur - lo
    BY <2>4, DistanceFacts
  <2>6. b # 1
    BY <1>13
  <2>. QED
    BY <1>2, <1>8, <1>9, <1>13, <2>5, <2>6
<1>14. CASE b # 1 /\ b # N + 1
  <2>1. /\ b - 1 \in 0 .. N /\ b - 1 \in 1 .. N /\ b - 1 < b /\ b - (b - 1) = 1
        /\ 0 <= b - 1 /\ b - 1 <= N /\ b \in 1 .. N /\ (b - 1) + 1 = b
    BY <1>14
  <2>2. p[b - 1] = lo
    BY <1>4, <1>8, <2>1
  <2>3. p[N] = hi
    <3>1. N \in 1 .. N /\ N >= b
      BY <1>14
    <3>. QED
      BY <1>4, <1>8, <3>1
  <2>4. PICK db \in Int : db = d[b - 1]
    BY <1>2, <2>1 DEF Meters
  <2>5. d[b - 1] - d[0] <= Distance(p[0], p[b - 1])
    <3>1. Falls(p, 0, b - 1)
      BY <1>6 DEF Falls
    <3>. QED
      BY <1>1, <1>2, <1>11, <2>1, <3>1, Straight
  <2>6. \A k \in b .. N : p[k - 1] <= p[k]
    <3>1. p[b - 1] <= p[b]
      <4>1. p[b] = sorted[b] /\ 1 \in 1 .. N /\ 1 <= b
        BY <1>4, <2>1
      <4>. QED
        BY <1>5, <1>8, <2>1, <2>2, <4>1
    <3>2. ASSUME NEW k \in b .. N PROVE k = b \/ k \in b + 1 .. N
      OBVIOUS
    <3>. QED
      BY <1>7, <3>1, <3>2
  <2>7. d[N] - d[b - 1] <= Distance(p[b - 1], p[N])
    <3>1. Rises(p, b - 1, N)
      BY <2>1, <2>6 DEF Rises
    <3>. QED
      BY <1>1, <1>2, <1>11, <2>1, <3>1, Straight
  <2>8. lo <= cur /\ lo <= hi
    BY <1>0, <1>5, <1>8, <2>1
  <2>9. db - 0 <= cur - lo
    <3>1. db - 0 <= Distance(cur, lo)
      BY <1>3, <1>10, <2>2, <2>4, <2>5
    <3>. QED
      BY <2>8, <3>1, DistanceFacts
  <2>10. dN - db <= hi - lo
    <3>1. dN - db <= Distance(lo, hi)
      BY <1>9, <2>2, <2>3, <2>4, <2>7
    <3>. QED
      BY <2>8, <3>1, DistanceFacts
  <2>11. dN <= (cur - lo) + (hi - lo)
    BY <2>9, <2>10
  <2>. QED
    BY <1>2, <1>8, <1>9, <1>14, <2>11
<1>. QED
  BY <1>12, <1>13, <1>14
LEMMA UpRoute ==
  ASSUME NEW cur \in Int, NEW N \in Nat \ {0}, NEW sorted \in [1 .. N -> Int],
         Ascending(sorted), NEW b \in 1 .. N + 1,
         Parts(sorted, N, cur, b),
         NEW route \in Seq(Int), WalksUp(route, sorted, N, b),
         Len(route) = N
  PROVE  Driven(cur, route) <= IF b = 1 THEN sorted[N] - cur
                               ELSE IF b = N + 1 THEN cur - sorted[1]
                               ELSE (sorted[N] - cur) + (sorted[N] - sorted[1])
<1>. DEFINE p == Places(cur, route)
<1>0. /\ \A i \in 1 .. b - 1 : sorted[i] < cur
      /\ \A i \in b .. N : cur <= sorted[i]
  BY DEF Parts
<1>1. p \in [0 .. N -> Int]
  BY DrivenFacts
<1>2. PICK d : Meters(p, N, d) /\ Driven(cur, route) = d[N]
  BY DrivenFacts
<1>3. p[0] = cur /\ \A i \in 1 .. N : p[i] = sorted[UpFirst(N, b, i)]
  BY DEF Places, WalksUp
<1>. HIDE DEF p
<1>4. PICK m \in 0 .. N : m = N - b + 1 /\ b = N + 1 - m
  OBVIOUS
<1>5. ASSUME NEW i \in 1 .. N
      PROVE  /\ i <= m => p[i] = sorted[b + i - 1] /\ b + i - 1 \in b .. N
             /\ i > m => p[i] = sorted[N + 1 - i] /\ N + 1 - i \in 1 .. b - 1
  BY <1>3, <1>4 DEF UpFirst
<1>6. \A i, j \in 1 .. N : i <= j => sorted[i] <= sorted[j]
  BY DEF Ascending
<1>7. ASSUME NEW k \in 1 .. m PROVE p[k - 1] <= p[k]
  <2>1. k \in 1 .. N /\ k <= m /\ b + k - 1 \in 1 .. N
    BY <1>4
  <2>2. p[k] = sorted[b + k - 1] /\ b + k - 1 \in b .. N
    BY <1>5, <2>1
  <2>3. CASE k = 1
    BY <1>0, <1>3, <2>2, <2>3
  <2>4. CASE k # 1
    <3>1. k - 1 \in 1 .. N /\ k - 1 <= m /\ b + (k - 1) - 1 \in 1 .. N
          /\ b + (k - 1) - 1 <= b + k - 1
      BY <1>4, <2>4
    <3>2. p[k - 1] = sorted[b + (k - 1) - 1]
      BY <1>5, <3>1
    <3>3. sorted[b + (k - 1) - 1] <= sorted[b + k - 1]
      BY <1>6, <2>1, <3>1
    <3>. QED
      BY <2>1, <2>2, <3>1, <3>2, <3>3
  <2>. QED
    BY <2>3, <2>4
<1>8. ASSUME NEW k \in m + 1 .. N PROVE p[k - 1] >= p[k]
  <2>1. k \in 1 .. N /\ k > m /\ N + 1 - k \in 1 .. N
    BY <1>4
  <2>2. p[k] = sorted[N + 1 - k] /\ N + 1 - k \in 1 .. b - 1
    BY <1>5, <2>1
  <2>3. CASE k - 1 > m
    <3>1. /\ k - 1 \in 1 .. N /\ N + 1 - (k - 1) \in 1 .. N
          /\ N + 1 - k <= N + 1 - (k - 1)
      BY <1>4, <2>3
    <3>2. p[k - 1] = sorted[N + 1 - (k - 1)]
      BY <1>5, <2>3, <3>1
    <3>3. sorted[N + 1 - k] <= sorted[N + 1 - (k - 1)]
      BY <1>6, <2>1, <3>1
    <3>. QED
      BY <2>1, <2>2, <3>1, <3>2, <3>3
  <2>4. CASE k - 1 = m /\ m = 0
    BY <1>0, <1>3, <2>2, <2>4
  <2>5. CASE k - 1 = m /\ m # 0
    <3>1. k - 1 \in 1 .. N /\ k - 1 <= m /\ b + (k - 1) - 1 = N /\ N \in 1 .. N
          /\ N + 1 - k <= N
      BY <1>4, <2>5
    <3>2. p[k - 1] = sorted[N]
      BY <1>5, <3>1
    <3>3. sorted[N + 1 - k] <= sorted[N]
      BY <1>6, <2>1, <3>1
    <3>. QED
      BY <2>1, <2>2, <3>1, <3>2, <3>3
  <2>. QED
    BY <2>3, <2>4, <2>5
<1>9. PICK lo \in Int, hi \in Int : lo = sorted[1] /\ hi = sorted[N]
  OBVIOUS
<1>10. PICK dN \in Int, dm \in Int : dN = d[N] /\ dm = d[m]
  BY <1>2 DEF Meters
<1>11. d[0] = 0
  BY <1>2 DEF Meters
<1>12. 0 \in 0 .. N /\ N \in 0 .. N /\ 0 <= N /\ 0 <= m /\ m <= N
  BY <1>4
<1>13. d[m] - d[0] <= Distance(p[0], p[m])
  <2>1. Rises(p, 0, m)
    BY <1>7 DEF Rises
  <2>. QED
    BY <1>1, <1>2, <1>12, <2>1, Straight
<1>14. d[N] - d[m] <= Distance(p[m], p[N])
  <2>1. Falls(p, m, N)
    BY <1>8 DEF Falls
  <2>. QED
    BY <1>1, <1>2, <1>12, <2>1, Straight
<1>15. lo <= hi
  BY <1>6, <1>9
<1>16. CASE b = 1
  <2>1. m = N /\ p[m] = hi /\ cur <= hi
    <3>1. m = N /\ N \in 1 .. N /\ N <= m /\ b + N - 1 = N
      BY <1>4, <1>16
    <3>2. p[N] = sorted[N] /\ N \in b .. N
      BY <1>5, <3>1
    <3>. QED
      BY <1>0, <1>9, <3>1, <3>2
  <2>2. dN - 0 <= Distance(cur, hi)
    BY <1>3, <1>10, <1>11, <1>13, <2>1
  <2>3. dN <= hi - cur
    BY <2>1, <2>2, DistanceFacts
  <2>. QED
    BY <1>2, <1>9, <1>10, <1>16, <2>3
<1>17. CASE b = N + 1
  <2>1. m = 0 /\ p[m] = cur /\ p[N] = lo /\ lo <= cur
    <3>1. m = 0 /\ N \in 1 .. N /\ N > m /\ N + 1 - N = 1
      BY <1>4, <1>17
    <3>2. p[N] = sorted[1] /\ 1 \in 1 .. b - 1
      BY <1>5, <3>1
    <3>. QED
      BY <1>0, <1>3, <1>9, <3>1, <3>2
  <2>2. dN - 0 <= Distance(cur, lo)
    BY <1>10, <1>11, <1>14, <2>1
  <2>3. dN <= cur - lo
    BY <2>1, <2>2, DistanceFacts
  <2>4. b # 1
    BY <1>17
  <2>. QED
    BY <1>2, <1>9, <1>10, <1>17, <2>3, <2>4
<1>18. CASE b # 1 /\ b # N + 1
  <2>1. p[m] = hi /\ cur <= hi
    <3>1. m \in 1 .. N /\ m <= m /\ b + m - 1 = N
      BY <1>4, <1>18
    <3>2. p[m] = sorted[N] /\ N \in b .. N
      BY <1>5, <3>1
    <3>. QED
      BY <1>0, <1>9, <3>2
  <2>2. p[N] = lo
    <3>1. N \in 1 .. N /\ N > m /\ N + 1 - N = 1
      BY <1>4, <1>18
    <3>. QED
      BY <1>5, <1>9, <3>1
  <2>3. dm - 0 <= hi - cur
    <3>1. dm - 0 <= Distance(cur, hi)
      BY <1>3, <1>10, <1>11, <1>13, <2>1
    <3>. QED
      BY <2>1, <3>1, DistanceFacts
  <2>4. dN - dm <= hi - lo
    <3>1. dN - dm <= Distance(hi, lo)
      BY <1>10, <1>14, <2>1, <2>2
    <3>. QED
      BY <1>15, <3>1, DistanceFacts
  <2>5. dN <= (hi - cur) + (hi - lo)
    BY <2>3, <2>4
  <2>. QED
    BY <1>2, <1>9, <1>10, <1>18, <2>5
<1>. QED
  BY <1>16, <1>17, <1>18

\* Of every list of viewpoints the code chooses a shortest route, from
\* wherever the robot is.
THEOREM BestRoute ==
  ASSUME NEW points \in Seq(Int), points # <<>>, NEW cur \in Int
  PROVE  Shortest(points, cur)
<1>. DEFINE sorted == Sorted(points)
            N == Len(points)
            b == Border(sorted, cur)
            route == selectBestViewPointRoute(points, cur)
            down == Behind(sorted, cur) \o Ahead(sorted, cur)
            up == Ahead(sorted, cur) \o Behind(sorted, cur)
<1>1. /\ sorted \in Orders(points) /\ Ascending(sorted)
      /\ sorted \in Seq(Int) /\ Len(sorted) = N /\ N \in Nat
      /\ \A i \in 1 .. N : \E j \in 1 .. N : points[j] = sorted[i]
  <2>1. sorted \in Orders(points) /\ Ascending(sorted)
    BY SortedFacts
  <2>. HIDE DEF sorted
  <2>2. sorted \in Seq(Int) /\ Len(sorted) = N /\ N \in Nat
    BY <2>1, OrdersFacts
  <2>3. \A i \in 1 .. N : \E j \in 1 .. N : points[j] = sorted[i]
    <3>1. DOMAIN points = 1 .. N
      BY LenProperties
    <3>. QED
      BY <2>1, <3>1 DEF Orders
  <2>. QED
    BY <2>1, <2>2, <2>3
<1>2. N \in Nat \ {0}
  <2>1. N # 0
    BY EmptySeq, LenProperties
  <2>. QED
    BY <1>1, <2>1
<1>3. route = IF NearerBehind(sorted, cur) THEN down ELSE up
  BY DEF selectBestViewPointRoute
<1>. HIDE DEF sorted
<1>4. /\ b \in 1 .. N + 1
      /\ \A i \in 1 .. b - 1 : sorted[i] < cur
      /\ \A i \in b .. N : cur <= sorted[i]
  BY <1>1, BorderFacts
<1>5. sorted \in [1 .. N -> Int]
  BY <1>1, LenProperties
<1>6. /\ down = [i \in 1 .. N |-> sorted[DownFirst(b, i)]]
      /\ up = [i \in 1 .. N |-> sorted[UpFirst(N, b, i)]]
  <2>1. b \in 1 .. Len(sorted) + 1
    BY <1>1, <1>4
  <2>. DEFINE M == Len(sorted)
              behind == Reverse(SubSeq(sorted, 1, b - 1))
              ahead == SubSeq(sorted, b, M)
  <2>2. down = behind \o ahead /\ up = ahead \o behind
    BY DEF Behind, Ahead
  <2>. HIDE DEF b
  <2>3. /\ behind \o ahead = [i \in 1 .. M |-> sorted[DownFirst(b, i)]]
        /\ ahead \o behind = [i \in 1 .. M |-> sorted[UpFirst(M, b, i)]]
    BY <1>1, <2>1, SidesFacts
  <2>. HIDE DEF behind, ahead, M
  <2>4. M = N
    BY <1>1 DEF M
  <2>. QED
    BY <2>2, <2>3, <2>4
<1>. HIDE DEF down, up, route, b, N
<1>7. ASSUME NEW g \in Shuffles(N)
      PROVE  [i \in 1 .. N |-> sorted[g[i]]] \in Orders(points)
  BY <1>1, OrdersFacts DEF N
<1>8. down \in Orders(points) /\ up \in Orders(points)
  <2>. DEFINE g == [i \in 1 .. N |-> DownFirst(b, i)]
              h == [i \in 1 .. N |-> UpFirst(N, b, i)]
  <2>1. g \in Shuffles(N) /\ h \in Shuffles(N)
    BY <1>1, <1>4, WaysFacts
  <2>2. [i \in 1 .. N |-> sorted[g[i]]] = down /\ [i \in 1 .. N |-> sorted[h[i]]] = up
    BY <1>6
  <2>. HIDE DEF g, h
  <2>. QED
    BY <1>7, <2>1, <2>2
<1>9. ASSUME NEW other \in Orders(points)
      PROVE  /\ other \in Seq(Int) /\ Len(other) = N
             /\ \A i \in 1 .. N : \E j \in 1 .. N : other[j] = sorted[i]
  <2>1. /\ other \in Seq(Int) /\ Len(other) = N
        /\ \A i \in 1 .. N : \E j \in 1 .. N : other[j] = points[i]
    <3>1. /\ other \in Seq(Int) /\ Len(other) = Len(points)
          /\ \A i \in 1 .. Len(points) : \E j \in 1 .. Len(points) : other[j] = points[i]
      BY OrdersFacts
    <3>. QED
      BY <3>1 DEF N
  <2>2. ASSUME NEW i \in 1 .. N PROVE \E j \in 1 .. N : other[j] = sorted[i]
    <3>1. PICK k \in 1 .. N : points[k] = sorted[i]
      BY <1>1
    <3>. QED
      BY <2>1, <3>1
  <2>. QED
    BY <2>1, <2>2
<1>10. PICK lo \in Int, hi \in Int : lo = sorted[1] /\ hi = sorted[N] /\ lo <= hi
  <2>1. 1 \in 1 .. N /\ N \in 1 .. N /\ (1 = N \/ 1 < N)
    BY <1>2
  <2>2. sorted[1] \in Int /\ sorted[N] \in Int
    BY <1>5, <2>1
  <2>3. sorted[1] <= sorted[N]
    BY <1>1, <1>5, <2>1, <2>2 DEF Ascending
  <2>. QED
    BY <2>2, <2>3
<1>11. ASSUME NEW other \in Orders(points)
       PROVE  /\ Driven(cur, other) \in Int
              /\ \/ Driven(cur, other) >= Distance(cur, lo) + (hi - lo)
                 \/ Driven(cur, other) >= Distance(cur, hi) + (hi - lo)
  <2>1. 1 \in 1 .. N /\ N \in 1 .. N
    BY <1>2
  <2>2. PICK a \in 1 .. N : other[a] = lo
    BY <1>9, <1>10, <2>1
  <2>3. PICK z \in 1 .. N : other[z] = hi
    BY <1>9, <1>10, <2>1
  <2>. QED
    BY <1>9, <1>10, <2>2, <2>3, AnyRoute
<1>12. PICK u \in Int, v \in Int :
         /\ u = Distance(cur, lo) /\ v = Distance(cur, hi)
         /\ u >= 0 /\ v >= 0
         /\ (cur <= lo => u = lo - cur) /\ (lo <= cur => u = cur - lo)
         /\ (cur <= hi => v = hi - cur) /\ (hi <= cur => v = cur - hi)
  <2>1. Distance(cur, lo) \in Int /\ Distance(cur, hi) \in Int
    BY DistanceFacts
  <2>. QED
    BY <2>1, DistanceFacts
<1>13. Driven(cur, down) <= IF b = 1 THEN hi - cur ELSE IF b = N + 1 THEN cur - lo
                            ELSE (cur - lo) + (hi - lo)
  <2>1. down \in Seq(Int) /\ Len(down) = N
    BY <1>8, <1>9
  <2>2. Parts(sorted, N, cur, b) /\ b \in 1 .. N + 1
    BY <1>4 DEF Parts
  <2>3. Driven(cur, down) <= IF b = 1 THEN sorted[N] - cur
                             ELSE IF b = N + 1 THEN cur - sorted[1]
                             ELSE (cur - sorted[1]) + (sorted[N] - sorted[1])
    <3>1. /\ cur \in Int /\ N \in Nat \ {0} /\ sorted \in [1 .. N -> Int]
          /\ Ascending(sorted) /\ b \in 1 .. N + 1 /\ Parts(sorted, N, cur, b)
          /\ down \in Seq(Int) /\ Len(down) = N
          /\ WalksDown(down, sorted, N, b)
      BY <1>1, <1>2, <1>5, <1>6, <2>1, <2>2 DEF WalksDown
    <3>. QED
      BY <3>1, DownRoute
  <2>. QED
    BY <1>10, <2>3
<1>14. Driven(cur, up) <= IF b = 1 THEN hi - cur ELSE IF b = N + 1 THEN cur - lo
                          ELSE (hi - cur) + (hi - lo)
  <2>1. up \in Seq(Int) /\ Len(up) = N
    BY <1>8, <1>9
  <2>2. Parts(sorted, N, cur, b) /\ b \in 1 .. N + 1
    BY <1>4 DEF Parts
  <2>3. Driven(cur, up) <= IF b = 1 THEN sorted[N] - cur
                             ELSE IF b = N + 1 THEN cur - sorted[1]
                             ELSE (sorted[N] - cur) + (sorted[N] - sorted[1])
    <3>1. /\ cur \in Int /\ N \in Nat \ {0} /\ sorted \in [1 .. N -> Int]
          /\ Ascending(sorted) /\ b \in 1 .. N + 1 /\ Parts(sorted, N, cur, b)
          /\ up \in Seq(Int) /\ Len(up) = N
          /\ WalksUp(up, sorted, N, b)
      BY <1>1, <1>2, <1>5, <1>6, <2>1, <2>2 DEF WalksUp
    <3>. QED
      BY <3>1, UpRoute
  <2>. QED
    BY <1>10, <2>3
<1>15. NearerBehind(sorted, cur) <=> cur - lo < hi - cur
  BY <1>1, <1>10 DEF NearerBehind
<1>16. /\ b = 1 => cur <= lo
       /\ b = N + 1 => hi < cur
       /\ b # 1 /\ b # N + 1 => lo <= cur /\ cur <= hi
  <2>1. b = 1 => 1 \in b .. N
    BY <1>2
  <2>2. b = N + 1 => N \in 1 .. b - 1
    BY <1>2
  <2>3. b # 1 /\ b # N + 1 => 1 \in 1 .. b - 1 /\ N \in b .. N
    BY <1>2, <1>4
  <2>4. \A i \in 1 .. b - 1 : sorted[i] < cur
    BY <1>4
  <2>5. \A i \in b .. N : cur <= sorted[i]
    BY <1>4
  <2>. QED
    BY <1>10, <2>1, <2>2, <2>3, <2>4, <2>5
<1>17. route \in Orders(points)
  BY <1>3, <1>8
<1>18. lo <= hi
  BY <1>10
<1>19. ASSUME NEW other \in Orders(points) PROVE Driven(cur, route) <= Driven(cur, other)
  <2>1. PICK r \in Int, o \in Int : r = Driven(cur, route) /\ o = Driven(cur, other)
    BY <1>11, <1>17
  <2>2. o >= u + (hi - lo) \/ o >= v + (hi - lo)
    BY <1>11, <1>12, <2>1
  <2>3. CASE b = 1
    <3>1. r <= hi - cur
      BY <1>3, <1>13, <1>14, <2>1, <2>3
    <3>2. cur <= lo
      BY <1>16, <2>3
    <3>3. u = lo - cur /\ v = hi - cur
      BY <1>10, <1>12, <3>2
    <3>4. r <= o
      BY <1>18, <2>2, <3>1, <3>2, <3>3
    <3>. QED
      BY <2>1, <3>4
  <2>4. CASE b = N + 1
    <3>1. b # 1
      BY <1>2, <2>4
    <3>2. r <= cur - lo
      BY <1>3, <1>13, <1>14, <2>1, <2>4, <3>1
    <3>3. hi < cur
      BY <1>16, <2>4
    <3>4. u = cur - lo /\ v = cur - hi
      BY <1>10, <1>12, <3>3
    <3>5. r <= o
      BY <1>18, <2>2, <3>2, <3>3, <3>4
    <3>. QED
      BY <2>1, <3>5
  <2>5. CASE b # 1 /\ b # N + 1
    <3>1. lo <= cur /\ cur <= hi
      BY <1>16, <2>5
    <3>2. \/ r <= (cur - lo) + (hi - lo) /\ cur - lo < hi - cur
          \/ r <= (hi - cur) + (hi - lo) /\ ~(cur - lo < hi - cur)
      BY <1>3, <1>13, <1>14, <1>15, <2>1, <2>5
    <3>3. u = cur - lo /\ v = hi - cur
      BY <1>10, <1>12, <3>1
    <3>4. r <= o
      BY <1>18, <2>2, <3>1, <3>2, <3>3
    <3>. QED
      BY <2>1, <3>4
  <2>. QED
    BY <2>3, <2>4, <2>5
<1>. QED
  BY <1>17, <1>19 DEF Shortest, route
---------------------------------------------------------------------------
(* The order of the piles.                                                   *)

LEMMA NearestFacts ==
  ASSUME NEW piles \in Seq(Int), piles # <<>>, NEW cur \in Int
  PROVE  /\ Nearest(cur, piles) \in 1 .. Len(piles)
         /\ \A j \in 1 .. Len(piles) :
              Distance(cur, piles[Nearest(cur, piles)]) <= Distance(cur, piles[j])
<1>. DEFINE N == Len(piles)
            far == [i \in 1 .. N |-> Distance(cur, piles[i])]
            Is(i) == /\ \A j \in 1 .. N : far[i] <= far[j]
                     /\ \A j \in 1 .. i - 1 : far[i] < far[j]
            All == { far[i] : i \in 1 .. N }
            Least(n) == { i \in 1 .. N : far[i] = n }
<1>1. N \in Nat /\ DOMAIN piles = 1 .. N /\ \A i \in 1 .. N : piles[i] \in Int
  BY LenProperties
<1>2. 1 \in 1 .. N
  BY <1>1, EmptySeq
<1>3. far \in [1 .. N -> Nat]
  <2>1. ASSUME NEW i \in 1 .. N PROVE Distance(cur, piles[i]) \in Nat
    <3>1. PICK x \in Int : x = piles[i]
      BY <1>1
    <3>2. Distance(cur, x) \in Int /\ Distance(cur, x) >= 0
      BY DistanceFacts
    <3>. QED
      BY <3>1, <3>2
  <2>. QED
    BY <2>1
<1>4. \A i \in 1 .. N : far[i] = Distance(cur, piles[i])
  OBVIOUS
<1>. HIDE DEF far, N
<1>5. PICK n \in All : \A m \in All : n <= m
  <2>1. All \subseteq Nat /\ All # {}
    BY <1>2, <1>3
  <2>. HIDE DEF All
  <2>. QED
    BY <2>1, LeastNumber
<1>6. PICK i \in Least(n) : \A j \in Least(n) : i <= j
  <2>1. Least(n) \subseteq Nat /\ Least(n) # {}
    BY <1>1, <1>5
  <2>. HIDE DEF Least
  <2>. QED
    BY <2>1, LeastNumber
<1>7. i \in 1 .. N /\ Is(i)
  <2>1. i \in 1 .. N /\ far[i] = n
    OBVIOUS
  <2>2. \A j \in 1 .. N : far[i] <= far[j]
    BY <1>5, <2>1
  <2>3. ASSUME NEW j \in 1 .. i - 1 PROVE far[i] < far[j]
    <3>1. j \in 1 .. N /\ ~(i <= j)
      BY <1>1, <2>1
    <3>2. far[j] # n
      BY <1>6, <3>1
    <3>3. far[i] <= far[j] /\ far[i] \in Nat /\ far[j] \in Nat
      BY <1>3, <2>1, <2>2, <3>1
    <3>. QED
      BY <2>1, <3>2, <3>3
  <2>. QED
    BY <2>1, <2>2, <2>3
<1>8. Nearest(cur, piles) = CHOOSE k \in 1 .. N : Is(k)
  <2>. DEFINE Far(k) == /\ \A j \in 1 .. N : Distance(cur, piles[k]) <= Distance(cur, piles[j])
                        /\ \A j \in 1 .. k - 1 : Distance(cur, piles[k]) < Distance(cur, piles[j])
  <2>1. Nearest(cur, piles) = CHOOSE k \in 1 .. N : Far(k)
    BY <1>1 DEF Nearest
  <2>2. ASSUME NEW k \in 1 .. N PROVE Far(k) <=> Is(k)
    <3>1. 1 .. k - 1 \subseteq 1 .. N
      BY <1>1
    <3>2. far[k] = Distance(cur, piles[k])
      BY <1>4
    <3>3. \A j \in 1 .. k - 1 : far[j] = Distance(cur, piles[j])
      BY <1>4, <3>1
    <3>. QED
      BY <1>4, <3>2, <3>3
  <2>. HIDE DEF Far, Is
  <2>. QED
    BY <2>1, <2>2
<1>9. Nearest(cur, piles) \in 1 .. N /\ Is(Nearest(cur, piles))
  <2>. HIDE DEF Is
  <2>. QED
    BY <1>7, <1>8
<1>10. \A j \in 1 .. N :
         Distance(cur, piles[Nearest(cur, piles)]) <= Distance(cur, piles[j])
  BY <1>4, <1>9
<1>. QED
  BY <1>9, <1>10 DEF N

LEMMA RemoveAtFacts ==
  ASSUME NEW s \in Seq(Int), NEW i \in 1 .. Len(s)
  PROVE  /\ RemoveAt(s, i) \in Seq(Int) /\ Len(RemoveAt(s, i)) = Len(s) - 1
         /\ \A k \in 1 .. Len(s) - 1 : RemoveAt(s, i)[k] = IF k < i THEN s[k] ELSE s[k + 1]
<1>. DEFINE N == Len(s)
            x == SubSeq(s, 1, i - 1)
            y == SubSeq(s, i + 1, N)
<1>1. N \in Nat /\ i \in 1 .. N
  BY LenProperties
<1>2. x \in Seq(Int) /\ Len(x) = i - 1 /\ \A k \in 1 .. i - 1 : x[k] = s[k]
  <2>1. 1 \in 1 .. N + 1 /\ i - 1 \in 1 - 1 .. N /\ (i - 1) - 1 + 1 = i - 1
    BY <1>1
  <2>2. /\ x \in Seq(Int) /\ Len(x) = (i - 1) - 1 + 1
        /\ \A k \in 1 .. (i - 1) - 1 + 1 : x[k] = s[1 + k - 1]
    BY <2>1, PartFacts
  <2>3. \A k \in 1 .. i - 1 : 1 + k - 1 = k
    BY <1>1
  <2>. QED
    BY <2>1, <2>2, <2>3
<1>3. y \in Seq(Int) /\ Len(y) = N - i /\ \A k \in 1 .. N - i : y[k] = s[i + k]
  <2>1. i + 1 \in 1 .. N + 1 /\ N \in (i + 1) - 1 .. N /\ N - (i + 1) + 1 = N - i
    BY <1>1
  <2>2. /\ y \in Seq(Int) /\ Len(y) = N - (i + 1) + 1
        /\ \A k \in 1 .. N - (i + 1) + 1 : y[k] = s[(i + 1) + k - 1]
    BY <2>1, PartFacts
  <2>3. \A k \in 1 .. N - i : (i + 1) + k - 1 = i + k
    BY <1>1
  <2>. QED
    BY <2>1, <2>2, <2>3
<1>4. RemoveAt(s, i) = x \o y
  BY DEF RemoveAt
<1>. HIDE DEF x, y, N
<1>5. PICK m \in Nat, n \in Nat : m = i - 1 /\ n = N - i /\ m + n = N - 1
  BY <1>1
<1>6. /\ x \o y \in Seq(Int) /\ Len(x \o y) = m + n
      /\ \A k \in 1 .. m : (x \o y)[k] = x[k]
      /\ \A k \in m + 1 .. m + n : (x \o y)[k] = y[k - m]
  <2>1. x \in Seq(Int) /\ y \in Seq(Int) /\ m = Len(x) /\ n = Len(y)
    BY <1>2, <1>3, <1>5
  <2>. QED
    BY <2>1, AfterFacts
<1>7. ASSUME NEW k \in 1 .. N - 1
      PROVE  (x \o y)[k] = IF k < i THEN s[k] ELSE s[k + 1]
  <2>1. CASE k < i
    <3>1. k \in 1 .. m /\ k \in 1 .. i - 1
      BY <1>1, <1>5, <2>1
    <3>. QED
      BY <1>2, <1>6, <2>1, <3>1
  <2>2. CASE ~(k < i)
    <3>1. k \in m + 1 .. m + n /\ k - m \in 1 .. N - i /\ i + (k - m) = k + 1
      BY <1>1, <1>5, <2>2
    <3>. QED
      BY <1>3, <1>6, <2>2, <3>1
  <2>. QED
    BY <2>1, <2>2
<1>. QED
  BY <1>4, <1>5, <1>6, <1>7 DEF N

\* One call moves the element n + i of the tried piles and those left to the
\* place n + 1.
Move(n, i, k) ==
  IF k <= n THEN k ELSE IF k = n + 1 THEN n + i ELSE IF k <= n + i THEN k - 1 ELSE k

LEMMA MoveFacts ==
  ASSUME NEW N \in Nat, NEW n \in 0 .. N - 1, NEW i \in 1 .. N - n
  PROVE  /\ [k \in 1 .. N |-> Move(n, i, k)] \in Shuffles(N)
         /\ \A k \in n + 1 .. N : Move(n, i, k) \in n + 1 .. N
<1>. DEFINE g == [k \in 1 .. N |-> Move(n, i, k)]
<1>1. \A k \in 1 .. N : Move(n, i, k) \in 1 .. N
  BY DEF Move
<1>2. \A k \in n + 1 .. N : Move(n, i, k) \in n + 1 .. N
  BY DEF Move
<1>3. ASSUME NEW k \in 1 .. N PROVE \E j \in 1 .. N : Move(n, i, j) = k
  <2>1. CASE k <= n
    BY <2>1 DEF Move
  <2>2. CASE k = n + i
    <3>1. n + 1 \in 1 .. N /\ Move(n, i, n + 1) = k
      BY <2>2 DEF Move
    <3>. QED
      BY <3>1
  <2>3. CASE n < k /\ k < n + i
    <3>1. k + 1 \in 1 .. N /\ Move(n, i, k + 1) = k
      BY <2>3 DEF Move
    <3>. QED
      BY <3>1
  <2>4. CASE n + i < k
    <3>1. Move(n, i, k) = k
      BY <2>4 DEF Move
    <3>. QED
      BY <3>1
  <2>. QED
    BY <2>1, <2>2, <2>3, <2>4
<1>4. g \in [1 .. N -> 1 .. N] /\ \A k \in 1 .. N : \E j \in 1 .. N : g[j] = k
  BY <1>1, <1>3
<1>5. g \in Shuffles(N)
  <2>. HIDE DEF g
  <2>. QED
    BY <1>4 DEF Shuffles, Range
<1>. QED
  BY <1>2, <1>5

\* Where the robot comes from when it tries a pile, and that the first n piles
\* tried are each the nearest of those not tried before.
From(cur, tried, i) == IF i = 1 THEN cur ELSE tried[i - 1]

NearestFirst(cur, tried, n) ==
  \A i \in 1 .. n : \A j \in i + 1 .. Len(tried) :
    Distance(From(cur, tried, i), tried[i]) <= Distance(From(cur, tried, i), tried[j])

Calls == [curPos : Int, sortedPos : Seq(Int), pilePos : Seq(Int)]

All(call) == call.sortedPos \o call.pilePos

\* After n calls.
CallInv(call, n, cur, piles) ==
  /\ call \in Calls
  /\ Len(call.sortedPos) = n
  /\ Len(call.pilePos) = Len(piles) - n
  /\ All(call) \in Orders(piles)
  /\ call.curPos = IF n = 0 THEN cur ELSE All(call)[n]
  /\ NearestFirst(cur, All(call), n)

\* What one call does.
LEMMA SortFacts ==
  ASSUME NEW call \in Calls, NEW n \in Nat, NEW N \in Nat,
         Len(call.sortedPos) = n, Len(call.pilePos) = N - n, n < N
  PROVE  /\ Sort(call) \in Calls
         /\ Len(Sort(call).sortedPos) = n + 1
         /\ Len(Sort(call).pilePos) = N - (n + 1)
         /\ \E i \in 1 .. N - n :
              /\ All(Sort(call)) = [k \in 1 .. N |-> All(call)[Move(n, i, k)]]
              /\ Sort(call).curPos = All(call)[n + i]
              /\ \A j \in n + 1 .. N :
                   Distance(call.curPos, All(call)[n + i]) <= Distance(call.curPos, All(call)[j])
<1>. DEFINE so == call.sortedPos
            pp == call.pilePos
            cp == call.curPos
            i == Nearest(cp, pp)
            L == so \o pp
            so1 == Append(so, pp[i])
            pp1 == RemoveAt(pp, i)
            L1 == so1 \o pp1
<1>1. so \in Seq(Int) /\ pp \in Seq(Int) /\ cp \in Int /\ Len(so) = n /\ Len(pp) = N - n
  BY DEF Calls
<1>2. N - n \in Nat /\ N - n # 0 /\ n + (N - n) = N
  OBVIOUS
<1>3. Sort(call) = [curPos |-> pp[i], sortedPos |-> so1, pilePos |-> pp1]
  BY DEF Sort
<1>4. All(call) = L
  BY DEF All
<1>. HIDE DEF so, pp, cp
<1>5. i \in 1 .. N - n /\ \A j \in 1 .. N - n : Distance(cp, pp[i]) <= Distance(cp, pp[j])
  <2>1. pp # <<>>
    BY <1>1, <1>2, EmptySeq
  <2>. HIDE DEF i
  <2>2. /\ i \in 1 .. Len(pp)
        /\ \A j \in 1 .. Len(pp) : Distance(cp, pp[i]) <= Distance(cp, pp[j])
    BY <1>1, <2>1, NearestFacts DEF i
  <2>. QED
    BY <1>1, <2>2
<1>. HIDE DEF i
<1>6. \A k \in 1 .. n : so[k] \in Int
  BY <1>1, LenProperties
<1>7. \A k \in 1 .. N - n : pp[k] \in Int
  BY <1>1, LenProperties
<1>8. /\ L \in Seq(Int) /\ Len(L) = N
      /\ \A k \in 1 .. n : L[k] = so[k]
      /\ \A k \in n + 1 .. N : L[k] = pp[k - n]
  <2>0. PICK m \in Nat : m = N - n /\ n + m = N
    BY <1>2
  <2>1. so \in Seq(Int) /\ pp \in Seq(Int) /\ n = Len(so) /\ m = Len(pp)
    BY <1>1, <2>0
  <2>2. /\ L \in Seq(Int) /\ Len(L) = n + m
        /\ \A k \in 1 .. n : L[k] = so[k]
        /\ \A k \in n + 1 .. n + m : L[k] = pp[k - n]
    BY <2>1, AfterFacts
  <2>. QED
    BY <2>0, <2>2
<1>9. /\ so1 \in Seq(Int) /\ Len(so1) = n + 1
      /\ \A k \in 1 .. n : so1[k] = so[k]
      /\ so1[n + 1] = pp[i]
  <2>1. pp[i] \in Int
    BY <1>5, <1>7
  <2>2. /\ so1 \in Seq(Int) /\ Len(so1) = Len(so) + 1
        /\ \A k \in 1 .. Len(so) : so1[k] = so[k]
        /\ so1[Len(so) + 1] = pp[i]
    BY <1>1, <2>1, AppendProperties
  <2>. QED
    BY <1>1, <2>2
<1>10. /\ pp1 \in Seq(Int) /\ Len(pp1) = N - (n + 1)
       /\ \A k \in 1 .. N - (n + 1) : pp1[k] = IF k < i THEN pp[k] ELSE pp[k + 1]
  <2>1. i \in 1 .. Len(pp)
    BY <1>1, <1>5
  <2>2. /\ pp1 \in Seq(Int) /\ Len(pp1) = Len(pp) - 1
        /\ \A k \in 1 .. Len(pp) - 1 : pp1[k] = IF k < i THEN pp[k] ELSE pp[k + 1]
    BY <1>1, <2>1, RemoveAtFacts
  <2>3. Len(pp) - 1 = N - (n + 1)
    BY <1>1
  <2>. QED
    BY <2>2, <2>3
<1>11. pp[i] = L[n + i]
  <2>1. n + i \in n + 1 .. N /\ (n + i) - n = i
    BY <1>5
  <2>. QED
    BY <1>8, <2>1
<1>. HIDE DEF so1, pp1, L
<1>12. /\ L1 \in Seq(Int) /\ Len(L1) = N
       /\ \A k \in 1 .. n + 1 : L1[k] = so1[k]
       /\ \A k \in (n + 1) + 1 .. N : L1[k] = pp1[k - (n + 1)]
  <2>0. PICK m \in Nat, l \in Nat : m = N - (n + 1) /\ l = n + 1 /\ l + m = N
    BY <1>2
  <2>1. so1 \in Seq(Int) /\ pp1 \in Seq(Int) /\ l = Len(so1) /\ m = Len(pp1)
    BY <1>9, <1>10, <2>0
  <2>2. /\ L1 \in Seq(Int) /\ Len(L1) = l + m
        /\ \A k \in 1 .. l : L1[k] = so1[k]
        /\ \A k \in l + 1 .. l + m : L1[k] = pp1[k - l]
    BY <2>1, AfterFacts
  <2>. QED
    BY <2>0, <2>2
<1>. HIDE DEF L1
<1>13. ASSUME NEW k \in 1 .. N PROVE L1[k] = L[Move(n, i, k)]
  <2>1. CASE k <= n
    <3>1. k \in 1 .. n /\ k \in 1 .. n + 1
      BY <2>1
    <3>. QED
      BY <1>8, <1>9, <1>12, <2>1, <3>1 DEF Move
  <2>2. CASE k = n + 1
    <3>1. k \in 1 .. n + 1 /\ ~(k <= n)
      BY <2>2
    <3>. QED
      BY <1>9, <1>11, <1>12, <2>2, <3>1 DEF Move
  <2>3. CASE n + 1 < k
    <3>1. /\ k \in (n + 1) + 1 .. N /\ k - (n + 1) \in 1 .. N - (n + 1)
          /\ ~(k <= n) /\ k # n + 1
      BY <2>3
    <3>2. L1[k] = IF k - (n + 1) < i THEN pp[k - (n + 1)] ELSE pp[(k - (n + 1)) + 1]
      BY <1>10, <1>12, <3>1
    <3>3. CASE k <= n + i
      <4>1. /\ k - (n + 1) < i /\ k - 1 \in n + 1 .. N /\ (k - 1) - n = k - (n + 1)
        BY <1>5, <2>3, <3>3
      <4>. QED
        BY <1>8, <3>1, <3>2, <3>3, <4>1 DEF Move
    <3>4. CASE ~(k <= n + i)
      <4>1. /\ ~(k - (n + 1) < i) /\ k \in n + 1 .. N /\ (k - (n + 1)) + 1 = k - n
        BY <1>5, <2>3, <3>4
      <4>. QED
        BY <1>8, <3>1, <3>2, <3>4, <4>1 DEF Move
    <3>. QED
      BY <3>3, <3>4
  <2>. QED
    BY <2>1, <2>2, <2>3
<1>14. L1 = [k \in 1 .. N |-> L[Move(n, i, k)]]
  <2>1. DOMAIN L1 = 1 .. N /\ L1 = [k \in DOMAIN L1 |-> L1[k]]
    BY <1>12, LenProperties
  <2>. QED
    BY <1>13, <2>1
<1>15. ASSUME NEW j \in n + 1 .. N PROVE Distance(cp, L[n + i]) <= Distance(cp, L[j])
  <2>1. j - n \in 1 .. N - n /\ L[j] = pp[j - n]
    BY <1>8
  <2>. QED
    BY <1>5, <1>11, <2>1
<1>16. Sort(call) \in Calls
  <2>1. pp[i] \in Int
    BY <1>5, <1>7
  <2>. QED
    BY <1>3, <1>9, <1>10, <2>1 DEF Calls
<1>17. /\ Len(Sort(call).sortedPos) = n + 1 /\ Len(Sort(call).pilePos) = N - (n + 1)
       /\ Sort(call).curPos = pp[i]
  BY <1>3, <1>9, <1>10
<1>18. All(Sort(call)) = L1
  BY <1>3 DEF All, L1
<1>19. \E x \in 1 .. N - n :
         /\ All(Sort(call)) = [k \in 1 .. N |-> All(call)[Move(n, x, k)]]
         /\ Sort(call).curPos = All(call)[n + x]
         /\ \A j \in n + 1 .. N :
              Distance(call.curPos, All(call)[n + x]) <= Distance(call.curPos, All(call)[j])
  <2>1. cp = call.curPos
    BY DEF cp
  <2>. QED
    BY <1>4, <1>5, <1>11, <1>14, <1>15, <1>17, <1>18, <2>1
<1>. QED
  BY <1>16, <1>17, <1>19

\* The first call, and every further one, keeps the order.
LEMMA CallInit ==
  ASSUME NEW piles \in Seq(Int), NEW cur \in Int
  PROVE  CallInv([curPos |-> cur, sortedPos |-> <<>>, pilePos |-> piles], 0, cur, piles)
<1>. DEFINE N == Len(piles)
            call == [curPos |-> cur, sortedPos |-> <<>>, pilePos |-> piles]
<1>1. N \in Nat /\ DOMAIN piles = 1 .. N /\ \A i \in 1 .. N : piles[i] \in Int
  BY LenProperties
<1>2. <<>> \in Seq(Int) /\ Len(<<>>) = 0
  BY EmptySeq
<1>3. call \in Calls
  BY <1>2 DEF Calls
<1>4. All(call) = piles
  BY ConcatEmptySeq DEF All
<1>5. piles \in Orders(piles)
  <2>. DEFINE f == [i \in 1 .. N |-> i]
  <2>1. f \in [1 .. N -> 1 .. N] /\ \A i \in 1 .. N : f[i] = i
    OBVIOUS
  <2>. HIDE DEF f, N
  <2>2. Range(f) = 1 .. N
    BY <2>1 DEF Range
  <2>3. piles = [i \in 1 .. N |-> piles[i]]
    BY <1>1, LenProperties
  <2>4. piles = [i \in 1 .. N |-> piles[f[i]]]
    BY <2>1, <2>3
  <2>. QED
    BY <1>1, <2>1, <2>2, <2>4 DEF Orders
<1>6. NearestFirst(cur, All(call), 0)
  BY DEF NearestFirst
<1>7. Len(call.sortedPos) = 0 /\ Len(call.pilePos) = N - 0 /\ call.curPos = cur
  BY <1>1, <1>2
<1>. HIDE DEF call
<1>8. CallInv(call, 0, cur, piles)
  BY <1>3, <1>4, <1>5, <1>6, <1>7 DEF CallInv
<1>. QED
  BY <1>8 DEF call

LEMMA CallStep ==
  ASSUME NEW piles \in Seq(Int), NEW cur \in Int, NEW n \in 0 .. Len(piles) - 1, NEW call,
         CallInv(call, n, cur, piles)
  PROVE  CallInv(Sort(call), n + 1, cur, piles)
<1>. DEFINE N == Len(piles)
            next == Sort(call)
            L == All(call)
            M == All(next)
<1>1. N \in Nat /\ n \in 0 .. N - 1 /\ n \in Nat /\ n < N
  BY LenProperties
<1>2. /\ call \in Calls /\ Len(call.sortedPos) = n /\ Len(call.pilePos) = N - n
      /\ L \in Orders(piles) /\ call.curPos = (IF n = 0 THEN cur ELSE L[n])
      /\ NearestFirst(cur, L, n)
  BY DEF CallInv
<1>. HIDE DEF N
<1>0. /\ next \in Calls /\ Len(next.sortedPos) = n + 1 /\ Len(next.pilePos) = N - (n + 1)
      /\ \E i \in 1 .. N - n :
           /\ M = [k \in 1 .. N |-> L[Move(n, i, k)]]
           /\ next.curPos = L[n + i]
           /\ \A j \in n + 1 .. N :
                Distance(call.curPos, L[n + i]) <= Distance(call.curPos, L[j])
  <2>1. /\ call \in Calls /\ n \in Nat /\ N \in Nat
        /\ Len(call.sortedPos) = n /\ Len(call.pilePos) = N - n /\ n < N
    BY <1>1, <1>2
  <2>. QED
    BY <2>1, SortFacts, Zenon
<1>. HIDE DEF next, L, M
<1>3. /\ next \in Calls /\ Len(next.sortedPos) = n + 1 /\ Len(next.pilePos) = N - (n + 1)
  BY <1>0
<1>4. PICK i \in 1 .. N - n :
        /\ M = [k \in 1 .. N |-> L[Move(n, i, k)]]
        /\ next.curPos = L[n + i]
        /\ \A j \in n + 1 .. N : Distance(call.curPos, L[n + i]) <= Distance(call.curPos, L[j])
  BY <1>0
<1>5. M \in Orders(piles) /\ Len(M) = N
  <2>. DEFINE g == [k \in 1 .. N |-> Move(n, i, k)]
  <2>1. g \in Shuffles(N)
    BY <1>1, MoveFacts
  <2>2. M = [k \in 1 .. N |-> L[g[k]]]
    BY <1>4
  <2>. HIDE DEF g
  <2>3. M \in Orders(piles)
    <3>1. g \in Shuffles(Len(piles)) /\ L \in Orders(piles)
      BY <1>2, <2>1 DEF N
    <3>2. [k \in 1 .. Len(piles) |-> L[g[k]]] \in Orders(piles)
      BY <3>1, OrdersFacts
    <3>. QED
      BY <2>2, <3>2 DEF N
  <2>4. Len(M) = N
    BY <2>3, OrdersFacts DEF N
  <2>. QED
    BY <2>3, <2>4
<1>6. /\ \A k \in 1 .. n : M[k] = L[k]
      /\ M[n + 1] = L[n + i]
      /\ \A k \in n + 1 .. N : M[k] = L[Move(n, i, k)] /\ Move(n, i, k) \in n + 1 .. N
  <2>1. ASSUME NEW k \in 1 .. n PROVE M[k] = L[k]
    <3>1. k \in 1 .. N /\ Move(n, i, k) = k
      BY <1>1 DEF Move
    <3>. QED
      BY <1>4, <3>1
  <2>2. M[n + 1] = L[n + i]
    <3>1. n + 1 \in 1 .. N /\ Move(n, i, n + 1) = n + i
      BY <1>1 DEF Move
    <3>. QED
      BY <1>4, <3>1
  <2>3. ASSUME NEW k \in n + 1 .. N
        PROVE  M[k] = L[Move(n, i, k)] /\ Move(n, i, k) \in n + 1 .. N
    <3>1. k \in 1 .. N
      BY <1>1
    <3>. QED
      BY <1>1, <1>4, <3>1, MoveFacts
  <2>. QED
    BY <2>1, <2>2, <2>3
<1>7. Len(L) = N
  BY <1>2, OrdersFacts DEF N
<1>8. ASSUME NEW k \in 1 .. n + 1, NEW j \in k + 1 .. N
      PROVE  Distance(From(cur, M, k), M[k]) <= Distance(From(cur, M, k), M[j])
  <2>1. CASE k <= n
    <3>1. From(cur, M, k) = From(cur, L, k) /\ M[k] = L[k]
      <4>1. k \in 1 .. n /\ (k # 1 => k - 1 \in 1 .. n)
        BY <1>1, <2>1
      <4>. QED
        BY <1>6, <4>1 DEF From
    <3>2. PICK m \in k + 1 .. N : M[j] = L[m]
      <4>1. CASE j <= n
        <5>1. j \in 1 .. n
          BY <1>1, <4>1
        <5>. QED
          BY <1>6, <5>1
      <4>2. CASE ~(j <= n)
        <5>1. j \in n + 1 .. N
          BY <1>1, <4>2
        <5>2. M[j] = L[Move(n, i, j)] /\ Move(n, i, j) \in n + 1 .. N
          BY <1>6, <5>1
        <5>3. Move(n, i, j) \in k + 1 .. N
          BY <1>1, <2>1, <5>2
        <5>. QED
          BY <5>2, <5>3
      <4>. QED
        BY <4>1, <4>2
    <3>3. k \in 1 .. n
      BY <1>1, <2>1
    <3>4. Distance(From(cur, L, k), L[k]) <= Distance(From(cur, L, k), L[m])
      BY <1>2, <1>7, <3>3 DEF NearestFirst
    <3>. QED
      BY <3>1, <3>2, <3>4
  <2>2. CASE ~(k <= n)
    <3>1. k = n + 1 /\ j \in n + 1 .. N
      BY <1>1, <2>2
    <3>2. From(cur, M, k) = call.curPos
      <4>1. CASE n = 0
        BY <1>2, <3>1, <4>1 DEF From
      <4>2. CASE n # 0
        <5>1. n \in 1 .. n /\ k # 1 /\ k - 1 = n
          BY <1>1, <3>1, <4>2
        <5>. QED
          BY <1>2, <1>6, <4>2, <5>1 DEF From
      <4>. QED
        BY <4>1, <4>2
    <3>3. M[j] = L[Move(n, i, j)] /\ Move(n, i, j) \in n + 1 .. N /\ M[k] = L[n + i]
      BY <1>6, <3>1
    <3>. QED
      BY <1>4, <3>2, <3>3
  <2>. QED
    BY <2>1, <2>2
<1>9. NearestFirst(cur, M, n + 1)
  BY <1>5, <1>8 DEF NearestFirst
<1>10. next.curPos = IF n + 1 = 0 THEN cur ELSE M[n + 1]
  BY <1>1, <1>4, <1>6
<1>. QED
  BY <1>3, <1>5, <1>9, <1>10 DEF CallInv, next, M, N

\* The calls of the recursion.
LEMMA RecursionFacts ==
  ASSUME NEW piles \in Seq(Int), NEW cur \in Int
  PROVE  \E call : /\ CallInv(call, Len(piles), cur, piles)
                   /\ getSortedChargingPilePos(cur, piles) = call.sortedPos
<1>. DEFINE N == Len(piles)
            first == [curPos |-> cur, sortedPos |-> <<>>, pilePos |-> piles]
            Def(f) == f = [n \in 0 .. N |-> IF n = 0 THEN first ELSE Sort(f[n - 1])]
            Step == [c \in Calls |-> IF c.pilePos = <<>> THEN c ELSE Sort(c)]
            G == [n \in 1 .. N |-> Step]
<1>1. N \in Nat
  BY LenProperties
<1>2. CallInv(first, 0, cur, piles)
  BY CallInit
<1>3. first \in Calls
  BY <1>2 DEF CallInv
<1>. HIDE DEF first
<1>4. ASSUME NEW c \in Calls, c.pilePos # <<>> PROVE Sort(c) \in Calls
  <2>1. c.sortedPos \in Seq(Int) /\ c.pilePos \in Seq(Int)
    BY DEF Calls
  <2>2. PICK n \in Nat, m \in Nat : n = Len(c.sortedPos) /\ m = Len(c.pilePos) /\ m # 0
    <3>1. Len(c.sortedPos) \in Nat /\ Len(c.pilePos) \in Nat
      BY <2>1, LenProperties
    <3>2. Len(c.pilePos) # 0
      BY <1>4, <2>1, EmptySeq
    <3>. QED
      BY <3>1, <3>2
  <2>3. \A x, y \in Nat : y # 0 => x + y \in Nat /\ y = (x + y) - x /\ x < x + y
    OBVIOUS
  <2>4. n + m \in Nat /\ m = (n + m) - n /\ n < n + m
    BY <2>2, <2>3, Zenon
  <2>. QED
    BY <2>2, <2>4, SortFacts
<1>5. G \in [1 .. N -> [Calls -> Calls]]
  <2>1. Step \in [Calls -> Calls]
    BY <1>4
  <2>. HIDE DEF Step
  <2>. QED
    BY <2>1
<1>6. PICK f : Iteration(f, Calls, first, N, G)
  <2>. HIDE DEF G, N
  <2>. QED
    BY <1>1, <1>3, <1>5, Iterates
<1>7. \A k \in 1 .. N : f[k] = Step[f[k - 1]]
  <2>. HIDE DEF Step
  <2>. QED
    BY <1>6 DEF Iteration
<1>8. f[0] = first /\ f \in [0 .. N -> Calls]
  BY <1>6 DEF Iteration
<1>9. ASSUME NEW h, h[0] = first,
             \A k \in 1 .. N : CallInv(h[k - 1], k - 1, cur, piles) => h[k] = Sort(h[k - 1])
      PROVE  \A n \in 0 .. N : CallInv(h[n], n, cur, piles)
  <2>. DEFINE A == { n \in 0 .. N : CallInv(h[n], n, cur, piles) }
  <2>1. 0 \in A
    BY <1>1, <1>2, <1>9
  <2>2. ASSUME NEW n \in 0 .. N - 1, n \in A PROVE n + 1 \in A
    <3>1. n + 1 \in 1 .. N /\ (n + 1) - 1 = n /\ n + 1 \in 0 .. N /\ n \in 0 .. N - 1
      BY <1>1
    <3>2. CallInv(h[n], n, cur, piles)
      BY <2>2
    <3>3. h[n + 1] = Sort(h[n])
      BY <1>9, <3>1, <3>2
    <3>4. CallInv(Sort(h[n]), n + 1, cur, piles)
      BY <3>1, <3>2, CallStep
    <3>. QED
      BY <3>1, <3>3, <3>4
  <2>. HIDE DEF A
  <2>3. 0 .. N \subseteq A
    BY <1>1, <2>1, <2>2, UpTo
  <2>. QED
    BY <2>3 DEF A
<1>10. ASSUME NEW k \in 1 .. N, CallInv(f[k - 1], k - 1, cur, piles)
       PROVE  f[k] = Sort(f[k - 1])
  <2>1. f[k - 1] \in Calls /\ Len(f[k - 1].pilePos) = N - (k - 1)
    BY <1>10 DEF CallInv
  <2>2. N - (k - 1) # 0
    BY <1>1
  <2>3. f[k - 1].pilePos # <<>>
    BY <2>1, <2>2, EmptySeq
  <2>. QED
    BY <1>7, <2>1, <2>3
<1>11. \A n \in 0 .. N : CallInv(f[n], n, cur, piles)
  <2>. HIDE DEF N
  <2>. QED
    BY <1>8, <1>9, <1>10
<1>12. Def(f)
  <2>1. ASSUME NEW n \in 0 .. N PROVE f[n] = IF n = 0 THEN first ELSE Sort(f[n - 1])
    <3>1. n # 0 => n \in 1 .. N /\ n - 1 \in 0 .. N
      BY <1>1
    <3>. QED
      BY <1>8, <1>10, <1>11, <3>1
  <2>. QED
    BY <1>8, <2>1
<1>. DEFINE call == CHOOSE g : Def(g)
<1>13. Def(call)
  <2>. HIDE DEF Def
  <2>. QED
    BY <1>12
<1>14. getSortedChargingPilePos(cur, piles) = call[N].sortedPos
  BY DEF getSortedChargingPilePos, first
<1>. HIDE DEF call
<1>15. call[0] = first /\ \A k \in 1 .. N : call[k] = Sort(call[k - 1])
  <2>1. 0 \in 0 .. N /\ \A k \in 1 .. N : k \in 0 .. N /\ k # 0
    BY <1>1
  <2>. QED
    BY <1>13, <2>1
<1>16. \A n \in 0 .. N : CallInv(call[n], n, cur, piles)
  <2>. HIDE DEF N
  <2>. QED
    BY <1>9, <1>15
<1>17. CallInv(call[N], N, cur, piles)
  BY <1>1, <1>16
<1>. QED
  BY <1>14, <1>17

\* Of every list of piles, each is tried once, and none is passed untried.
THEOREM NoneUntried ==
  ASSUME NEW piles \in Seq(Int), NEW cur \in Int
  PROVE  NonePassedUntried(piles, cur)
<1>. DEFINE N == Len(piles)
            tried == getSortedChargingPilePos(cur, piles)
<1>1. N \in Nat
  BY LenProperties
<1>2. PICK call : CallInv(call, N, cur, piles) /\ tried = call.sortedPos
  BY RecursionFacts
<1>. HIDE DEF tried
<1>3. All(call) = tried
  <2>1. call.pilePos \in Seq(Int) /\ Len(call.pilePos) = 0 /\ call.sortedPos \in Seq(Int)
    BY <1>1, <1>2 DEF CallInv, Calls
  <2>2. call.pilePos = <<>>
    BY <2>1, EmptySeq
  <2>. QED
    BY <1>2, <2>1, <2>2, ConcatEmptySeq DEF All
<1>4. tried \in Orders(piles) /\ NearestFirst(cur, tried, N)
  BY <1>2, <1>3 DEF CallInv
<1>5. tried \in Seq(Int) /\ Len(tried) = N
  BY <1>4, OrdersFacts
<1>6. DOMAIN tried = 1 .. N /\ \A i \in 1 .. N : tried[i] \in Int
  BY <1>5, LenProperties
<1>. HIDE DEF N
<1>7. ASSUME NEW i \in 1 .. N, NEW j \in i + 1 .. N
      PROVE  ~ \/ From(cur, tried, i) < tried[j] /\ tried[j] < tried[i]
               \/ tried[i] < tried[j] /\ tried[j] < From(cur, tried, i)
  <2>1. j \in 1 .. N /\ (i # 1 => i - 1 \in 1 .. N)
    BY <1>1
  <2>2. From(cur, tried, i) \in Int
    BY <1>6, <2>1 DEF From
  <2>3. PICK x \in Int, y \in Int, z \in Int :
          x = From(cur, tried, i) /\ y = tried[i] /\ z = tried[j]
    BY <1>6, <2>1, <2>2
  <2>4. Distance(x, y) <= Distance(x, z)
    BY <1>4, <1>5, <2>3 DEF NearestFirst
  <2>5. ~((x < z /\ z < y) \/ (y < z /\ z < x))
    BY <2>4 DEF Distance
  <2>. QED
    BY <2>3, <2>5
<1>. QED
  BY <1>4, <1>5, <1>6, <1>7 DEF NonePassedUntried, From, tried

=============================================================================
