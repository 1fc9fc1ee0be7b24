----------------------------- MODULE OrdersAndSums -----------------------------
(***************************************************************************)
(* Facts about finite sets for the rankings of the attack and of the scan  *)
(* and for the figures of the engine.                                      *)
(*                                                                         *)
(* The elements of a totally ordered finite set take the places 1, 2, ...  *)
(* in their order.  An order is the set of its pairs <<x, y>>, x before y. *)
(*                                                                         *)
(* A finite sum of SumFunctionOnSet is any of its terms and the sum of the *)
(* others.  Both rest on an induction over sets: an operator cannot be the *)
(* parameter of a lemma here, but the set of what is proved can.           *)
(***************************************************************************)
EXTENDS Integers, FiniteSetsExt, FiniteSetTheorems, TLAPS

\* No element is before itself, and of two elements one is before the other.
TotallyOrders(R, S) ==
  /\ \A x \in S : <<x, x>> \notin R
  /\ \A x, y \in S : x # y => <<x, y>> \in R \/ <<y, x>> \in R
  /\ \A x, y, z \in S : <<x, y>> \in R /\ <<y, z>> \in R => <<x, z>> \in R

Preceding(R, S, x) == {y \in S : <<y, x>> \in R}

\* The place of x in S: the first is 1.
Place(R, S, x) == 1 + Cardinality(Preceding(R, S, x))

-----------------------------------------------------------------------------
\* Places are places in a list of all of S.
LEMMA PlaceType ==
  ASSUME NEW R, NEW S, IsFiniteSet(S), TotallyOrders(R, S), NEW x \in S
  PROVE  Place(R, S, x) \in 1..Cardinality(S)
  <1>1. Preceding(R, S, x) \subseteq S \ {x}
    BY DEF Preceding, TotallyOrders
  <1>2. IsFiniteSet(S \ {x}) /\ Cardinality(S \ {x}) = Cardinality(S) - 1
    BY FS_RemoveElement
  <1>3. /\ IsFiniteSet(Preceding(R, S, x))
        /\ Cardinality(Preceding(R, S, x)) <= Cardinality(S \ {x})
    BY <1>1, <1>2, FS_Subset
  <1>4. Cardinality(Preceding(R, S, x)) \in Nat /\ Cardinality(S) \in Nat
    BY <1>3, FS_CardinalityType
  <1>5. QED
    BY <1>2, <1>3, <1>4 DEF Place

\* What is before has the smaller place.
LEMMA PlacesIncrease ==
  ASSUME NEW R, NEW S, IsFiniteSet(S), TotallyOrders(R, S),
         NEW x \in S, NEW y \in S, <<x, y>> \in R
  PROVE  Place(R, S, x) < Place(R, S, y)
  <1> DEFINE X == Preceding(R, S, x)
             Y == Preceding(R, S, y)
  <1>1. X \subseteq Y /\ x \in Y /\ x \notin X /\ Y \subseteq S
    BY DEF Preceding, TotallyOrders
  <1> HIDE DEF X, Y
  <1>2. IsFiniteSet(Y) /\ IsFiniteSet(X)
    BY <1>1, FS_Subset
  <1>3. Cardinality(X) \in Nat /\ Cardinality(Y) \in Nat
    BY <1>2, FS_CardinalityType
  <1>4. Cardinality(X) <= Cardinality(Y) /\ Cardinality(X) # Cardinality(Y)
    BY <1>1, <1>2, FS_Subset
  <1>5. QED
    BY <1>3, <1>4 DEF X, Y, Place

\* The order of the places is the order of the elements.
LEMMA PlacesOrder ==
  ASSUME NEW R, NEW S, IsFiniteSet(S), TotallyOrders(R, S),
         NEW x \in S, NEW y \in S
  PROVE  /\ <<x, y>> \in R <=> Place(R, S, x) < Place(R, S, y)
         /\ Place(R, S, x) = Place(R, S, y) => x = y
  <1>1. Place(R, S, x) \in Int /\ Place(R, S, y) \in Int
    <2>1. Cardinality(S) \in Nat
      BY FS_CardinalityType
    <2>2. QED
      BY <2>1, PlaceType
  <1>2. CASE x = y
    BY <1>1, <1>2 DEF TotallyOrders
  <1>3. CASE <<x, y>> \in R
    BY <1>1, <1>3, PlacesIncrease
  <1>4. CASE <<y, x>> \in R
    BY <1>1, <1>4, PlacesIncrease
  <1>5. QED
    BY <1>2, <1>3, <1>4 DEF TotallyOrders

\* Every place is taken, by one element.
LEMMA PlacesAreTaken ==
  ASSUME NEW R, NEW S, IsFiniteSet(S), TotallyOrders(R, S),
         NEW n \in 1..Cardinality(S)
  PROVE  \E x \in S : Place(R, S, x) = n
  <1> DEFINE f == [x \in S |-> Place(R, S, x)]
             N == 1..Cardinality(S)
  <1>1. Cardinality(S) \in Nat
    BY FS_CardinalityType
  <1>2. IsFiniteSet(N) /\ Cardinality(N) = Cardinality(S)
    BY <1>1, FS_Interval
  <1>3. f \in [S -> N]
    BY PlaceType
  <1>4. \A x, y \in S : f[x] = f[y] => x = y
    BY PlacesOrder
  <1> HIDE DEF f, N
  <1>5. f \in Injection(S, N)
    BY <1>3, <1>4 DEF Injection, IsInjective
  <1>6. f \in Surjection(S, N)
    BY <1>2, <1>5, FS_Injection
  <1>7. \E x \in S : f[x] = n
    BY <1>6 DEF Surjection, N
  <1>8. QED
    BY <1>7 DEF f

-----------------------------------------------------------------------------
Less(S) == {p \in S \X S : p[1] < p[2]}

\* A finite set of integers has a least and a greatest element.
LEMMA FiniteExtremes ==
  ASSUME NEW S, S \subseteq Int, IsFiniteSet(S), S # {}
  PROVE  /\ \E x \in S : \A y \in S : x <= y
         /\ \E x \in S : \A y \in S : y <= x
  <1>1. TotallyOrders(Less(S), S)
    BY DEF TotallyOrders, Less
  <1>2. /\ Cardinality(S) \in Nat
        /\ 1 \in 1..Cardinality(S) /\ Cardinality(S) \in 1..Cardinality(S)
    <2>1. Cardinality(S) \in Nat /\ Cardinality(S) # 0
      BY FS_CardinalityType, FS_EmptySet
    <2>2. QED
      BY <2>1
  <1>3. PICK x \in S : Place(Less(S), S, x) = 1
    <2>1. \A n \in 1..Cardinality(S) : \E x \in S : Place(Less(S), S, x) = n
      BY <1>1, PlacesAreTaken
    <2>2. QED
      BY <1>2, <2>1
  <1>4. PICK z \in S : Place(Less(S), S, z) = Cardinality(S)
    <2>1. \A n \in 1..Cardinality(S) : \E y \in S : Place(Less(S), S, y) = n
      BY <1>1, PlacesAreTaken
    <2>2. QED
      BY <1>2, <2>1
  <1>5. \A y \in S : Place(Less(S), S, y) \in 1..Cardinality(S)
    BY <1>1, PlaceType
  <1>6. \A y \in S : <<y, x>> \notin Less(S) /\ <<z, y>> \notin Less(S)
    <2> SUFFICES ASSUME NEW y \in S
                 PROVE  <<y, x>> \notin Less(S) /\ <<z, y>> \notin Less(S)
      OBVIOUS
    <2>1. /\ ~(Place(Less(S), S, y) < Place(Less(S), S, x))
          /\ ~(Place(Less(S), S, z) < Place(Less(S), S, y))
      BY <1>2, <1>3, <1>4, <1>5
    <2>2. QED
      BY <1>1, <2>1, PlacesOrder
  <1>7. \A y \in S : x <= y /\ y <= z
    <2> SUFFICES ASSUME NEW y \in S PROVE x <= y /\ y <= z
      OBVIOUS
    <2>1. ~(y < x) /\ ~(z < y)
      BY <1>6 DEF Less
    <2>2. QED
      BY <2>1
  <1>8. QED
    BY <1>7

\* Max and Min are what they are called.
LEMMA Extremes ==
  ASSUME NEW S, S \subseteq Int, IsFiniteSet(S), S # {}
  PROVE  /\ Max(S) \in S /\ \A y \in S : y <= Max(S)
         /\ Min(S) \in S /\ \A y \in S : Min(S) <= y
  <1>1. \E x \in S : \A y \in S : x >= y
    <2>1. PICK x \in S : \A y \in S : y <= x
      BY FiniteExtremes
    <2>2. QED
      BY <2>1
  <1>2. \E x \in S : \A y \in S : x <= y
    BY FiniteExtremes
  <1>3. Max(S) \in S /\ \A y \in S : Max(S) >= y
    BY <1>1 DEF Max
  <1>4. Min(S) \in S /\ \A y \in S : Min(S) <= y
    BY <1>2 DEF Min
  <1>5. QED
    BY <1>3, <1>4

\* The images of finitely many arguments.
LEMMA FiniteImages ==
  ASSUME NEW f, NEW S, IsFiniteSet(S)
  PROVE  IsFiniteSet({f[x] : x \in S})
  <1> DEFINE g == [x \in S |-> f[x]]
             T == {f[x] : x \in S}
  <1>1. g \in Surjection(S, T)
    BY DEF Surjection
  <1>2. QED
    BY <1>1, FS_Surjection

\* The first n numbers, and some of them.
LEMMA SomeNumbers ==
  ASSUME NEW n \in Nat
  PROVE  /\ IsFiniteSet(1..n) /\ (n >= 1 => 1..n # {})
         /\ \A some : some \subseteq 1..n => IsFiniteSet(some) /\ some \subseteq Int
  <1>1. 1 \in Int /\ n \in Int
    OBVIOUS
  <1>2. IsFiniteSet(1..n)
    BY <1>1, FS_Interval
  <1>3. n >= 1 => 1 \in 1..n
    OBVIOUS
  <1>4. ASSUME NEW some, some \subseteq 1..n
        PROVE  IsFiniteSet(some) /\ some \subseteq Int
    <2>1. IsFiniteSet(some)
      BY <1>2, <1>4, FS_Subset
    <2>2. 1..n \subseteq Int
      OBVIOUS
    <2>3. QED
      BY <1>4, <2>1, <2>2
  <1>5. QED
    BY <1>2, <1>3, <1>4

\* Some places of a list have a first one and a last one.
LEMMA PlacesHaveEnds ==
  ASSUME NEW n \in Nat, NEW places, places \subseteq 1..n, places # {}
  PROVE  Min(places) \in places /\ Max(places) \in places
  <1>1. IsFiniteSet(places) /\ places \subseteq Int
    BY SomeNumbers
  <1>2. QED
    BY <1>1, Extremes

-----------------------------------------------------------------------------
\* A set of naturals that holds 0 and the successor of each member holds all.
LEMMA NaturalsBySuccession ==
  ASSUME NEW P, P \subseteq Nat, 0 \in P, \A n \in P : n + 1 \in P
  PROVE  P = Nat
  <1> SUFFICES ASSUME NEW m \in Nat, m \notin P PROVE FALSE
    OBVIOUS
  <1> DEFINE X == {k \in Nat : k \notin P /\ k <= m}
  <1>1. IsFiniteSet(X)
    <2>1. X \in SUBSET Nat /\ \A k \in X : k <= m
      OBVIOUS
    <2> HIDE DEF X
    <2>2. QED
      BY <2>1, FS_BoundedSetOfNaturals
  <1>2. X # {} /\ X \subseteq Int
    OBVIOUS
  <1> HIDE DEF X
  <1>3. PICK x \in X : \A y \in X : x <= y
    BY <1>1, <1>2, FiniteExtremes
  <1>4. x \in Nat /\ x \notin P /\ x <= m /\ x # 0
    BY DEF X
  <1>5. x - 1 \in Nat /\ x - 1 <= m /\ x - 1 \notin X
    BY <1>3, <1>4 DEF X
  <1>6. x - 1 \in P
    BY <1>5 DEF X
  <1>7. (x - 1) + 1 = x
    BY <1>4
  <1>8. QED
    BY <1>4, <1>6, <1>7

\* The element that a sum over s begins with.
First(s) == CHOOSE x \in s : TRUE

\* g gives the sums of f over each set of D.
IsSum(g, f, D) ==
  g = [s \in D |-> IF s = {} THEN 0 ELSE f[First(s)] + g[s \ {First(s)}]]

UpTo(S, n) == {s \in SUBSET S : Cardinality(s) <= n}

\* One element less.
LEMMA WithoutFirst ==
  ASSUME NEW S, IsFiniteSet(S), NEW s \in SUBSET S, s # {}
  PROVE  /\ First(s) \in s /\ IsFiniteSet(s) /\ IsFiniteSet(s \ {First(s)})
         /\ Cardinality(s) \in Nat /\ Cardinality(s) # 0
         /\ Cardinality(s \ {First(s)}) = Cardinality(s) - 1
  <1>1. First(s) \in s
    BY DEF First
  <1>2. IsFiniteSet(s)
    BY FS_Subset
  <1>3. Cardinality(s) \in Nat /\ Cardinality(s) # 0
    BY <1>2, FS_CardinalityType, FS_EmptySet
  <1>4. IsFiniteSet(s \ {First(s)}) /\ Cardinality(s \ {First(s)}) = Cardinality(s) - 1
    BY <1>1, <1>2, FS_RemoveElement
  <1>5. QED
    BY <1>1, <1>2, <1>3, <1>4

\* What holds of the empty set, and of each set of which it holds without its
\* first element, holds of all subsets.
LEMMA SubsetsBySuccession ==
  ASSUME NEW S, IsFiniteSet(S), NEW Q, Q \subseteq SUBSET S, {} \in Q,
         \A s \in SUBSET S : s # {} /\ s \ {First(s)} \in Q => s \in Q
  PROVE  Q = SUBSET S
  <1> DEFINE P == {n \in Nat : UpTo(S, n) \subseteq Q}
  <1>1. 0 \in P
    <2> SUFFICES ASSUME NEW s \in SUBSET S, Cardinality(s) <= 0 PROVE s \in Q
      BY DEF UpTo
    <2>1. ~(Cardinality(s) \in Nat /\ Cardinality(s) # 0)
      OBVIOUS
    <2>2. s = {}
      BY <2>1, WithoutFirst
    <2>3. QED
      BY <2>2
  <1>2. ASSUME NEW n \in P PROVE n + 1 \in P
    <2> SUFFICES ASSUME NEW s \in SUBSET S, Cardinality(s) <= n + 1 PROVE s \in Q
      BY DEF UpTo
    <2>1. CASE s = {}
      BY <2>1
    <2>2. CASE s # {}
      <3>1. /\ Cardinality(s) \in Nat
            /\ Cardinality(s \ {First(s)}) = Cardinality(s) - 1
        BY <2>2, WithoutFirst
      <3>2. s \ {First(s)} \in SUBSET S /\ Cardinality(s \ {First(s)}) <= n
        BY <3>1
      <3>3. QED
        BY <2>2, <3>2 DEF UpTo
    <2>3. QED
      BY <2>1, <2>2
  <1>3. P = Nat
    <2>1. P \subseteq Nat
      OBVIOUS
    <2> HIDE DEF P
    <2>2. QED
      BY <1>1, <1>2, <2>1, NaturalsBySuccession
  <1>4. SUFFICES ASSUME NEW s \in SUBSET S PROVE s \in Q
    OBVIOUS
  <1>5. IsFiniteSet(s)
    BY FS_Subset
  <1>6. Cardinality(s) \in Nat
    BY <1>5, FS_CardinalityType
  <1>7. Cardinality(s) \in P /\ s \in UpTo(S, Cardinality(s))
    BY <1>3, <1>6 DEF UpTo
  <1>8. QED
    BY <1>7

\* There are such sums.
LEMMA SumsExist ==
  ASSUME NEW S, IsFiniteSet(S), NEW f
  PROVE  \E g : IsSum(g, f, SUBSET S)
  <1> DEFINE P == {n \in Nat : \E g : IsSum(g, f, UpTo(S, n))}
  <1>1. 0 \in P
    <2>1. \A s \in UpTo(S, 0) : s = {}
      <3> SUFFICES ASSUME NEW s \in SUBSET S, Cardinality(s) <= 0 PROVE s = {}
        BY DEF UpTo
      <3>1. ~(Cardinality(s) \in Nat /\ Cardinality(s) # 0)
        OBVIOUS
      <3>2. QED
        BY <3>1, WithoutFirst
    <2>2. IsSum([s \in UpTo(S, 0) |-> 0], f, UpTo(S, 0))
      BY <2>1 DEF IsSum
    <2>3. QED
      BY <2>2
  <1>2. ASSUME NEW n \in P PROVE n + 1 \in P
    <2>1. PICK g : IsSum(g, f, UpTo(S, n))
      OBVIOUS
    <2> DEFINE h == [s \in UpTo(S, n + 1) |->
                       IF s = {} THEN 0 ELSE f[First(s)] + g[s \ {First(s)}]]
    <2>2. ASSUME NEW s \in UpTo(S, n + 1), s # {}
          PROVE  h[s \ {First(s)}] = g[s \ {First(s)}]
      <3> DEFINE r == s \ {First(s)}
      <3>1. s \in SUBSET S /\ Cardinality(s) <= n + 1
        BY DEF UpTo
      <3>2. Cardinality(s) \in Nat /\ Cardinality(r) = Cardinality(s) - 1
        BY <2>2, <3>1, WithoutFirst
      <3>3. r \in SUBSET S /\ Cardinality(r) <= n /\ Cardinality(r) <= n + 1
        BY <3>1, <3>2
      <3>4. r \in UpTo(S, n) /\ r \in UpTo(S, n + 1)
        BY <3>3 DEF UpTo
      <3> HIDE DEF r
      <3>5. g[r] = IF r = {} THEN 0 ELSE f[First(r)] + g[r \ {First(r)}]
        BY <2>1, <3>4 DEF IsSum
      <3>6. h[r] = IF r = {} THEN 0 ELSE f[First(r)] + g[r \ {First(r)}]
        BY <3>4
      <3>7. QED
        BY <3>5, <3>6 DEF r
    <2>3. h = [s \in UpTo(S, n + 1) |->
                 IF s = {} THEN 0 ELSE f[First(s)] + h[s \ {First(s)}]]
      BY <2>2
    <2>4. IsSum(h, f, UpTo(S, n + 1))
      BY <2>3 DEF IsSum
    <2>5. QED
      BY <2>4
  <1>3. P = Nat
    <2>1. P \subseteq Nat
      OBVIOUS
    <2> HIDE DEF P
    <2>2. QED
      BY <1>1, <1>2, <2>1, NaturalsBySuccession
  <1>4. Cardinality(S) \in Nat
    BY FS_CardinalityType
  <1>5. UpTo(S, Cardinality(S)) = SUBSET S
    BY FS_Subset DEF UpTo
  <1>6. Cardinality(S) \in P
    BY <1>3, <1>4
  <1>7. QED
    BY <1>5, <1>6

\* The sums over the subsets of S.
Sums(f, S) == CHOOSE g : IsSum(g, f, SUBSET S)

\* SumFunctionOnSet adds the first element to the sum of the others.
LEMMA SumsAreSums ==
  ASSUME NEW S, IsFiniteSet(S), NEW f
  PROVE  /\ SumFunctionOnSet(f, S) = Sums(f, S)[S]
         /\ IsSum(Sums(f, S), f, SUBSET S)
  <1>1. SumFunctionOnSet(f, S) = Sums(f, S)[S]
    BY DEF SumFunctionOnSet, FoldFunctionOnSet, MapThenFoldSet, IsSum, First, Sums
  <1>2. QED
    BY <1>1, SumsExist DEF Sums

\* Sums over subsets do not depend on the set they are taken from.
LEMMA SumsAgree ==
  ASSUME NEW S, IsFiniteSet(S), NEW f, NEW T \in SUBSET S
  PROVE  Sums(f, S)[T] = SumFunctionOnSet(f, T)
  <1>1. IsFiniteSet(T)
    BY FS_Subset
  <1> DEFINE g == Sums(f, S)
             h == Sums(f, T)
             Q == {s \in SUBSET T : g[s] = h[s]}
  <1>2. IsSum(g, f, SUBSET S) /\ IsSum(h, f, SUBSET T)
    BY <1>1, SumsAreSums
  <1>3. \A s \in SUBSET T :
          /\ g[s] = IF s = {} THEN 0 ELSE f[First(s)] + g[s \ {First(s)}]
          /\ h[s] = IF s = {} THEN 0 ELSE f[First(s)] + h[s \ {First(s)}]
    <2> HIDE DEF g, h
    <2>1. QED
      BY <1>2 DEF IsSum
  <1>4. {} \in Q /\ \A s \in SUBSET T : s # {} /\ s \ {First(s)} \in Q => s \in Q
    <2> HIDE DEF g, h
    <2>1. QED
      BY <1>3
  <1>5. Q = SUBSET T
    <2>1. Q \subseteq SUBSET T
      OBVIOUS
    <2> HIDE DEF Q
    <2>2. QED
      BY <1>1, <1>4, <2>1, SubsetsBySuccession
  <1>6. g[T] = h[T]
    BY <1>5
  <1>7. QED
    BY <1>1, <1>6, SumsAreSums

\* The recursion of a sum.
LEMMA SumRecursion ==
  ASSUME NEW S, IsFiniteSet(S), NEW f
  PROVE  SumFunctionOnSet(f, S) =
           IF S = {} THEN 0
           ELSE f[First(S)] + SumFunctionOnSet(f, S \ {First(S)})
  <1>1. IsSum(Sums(f, S), f, SUBSET S) /\ SumFunctionOnSet(f, S) = Sums(f, S)[S]
    BY SumsAreSums
  <1>2. Sums(f, S)[S] = IF S = {} THEN 0 ELSE f[First(S)] + Sums(f, S)[S \ {First(S)}]
    BY <1>1 DEF IsSum
  <1>3. Sums(f, S)[S \ {First(S)}] = SumFunctionOnSet(f, S \ {First(S)})
    BY SumsAgree
  <1>4. QED
    BY <1>1, <1>2, <1>3

\* A sum of integers is one.
LEMMA SumType ==
  ASSUME NEW S, IsFiniteSet(S), NEW f, \A x \in S : f[x] \in Int
  PROVE  SumFunctionOnSet(f, S) \in Int
  <1> DEFINE Q == {s \in SUBSET S : SumFunctionOnSet(f, s) \in Int}
  <1>1. {} \in Q
    BY FS_EmptySet, SumRecursion
  <1>2. \A s \in SUBSET S : s # {} /\ s \ {First(s)} \in Q => s \in Q
    <2> SUFFICES ASSUME NEW s \in SUBSET S, s # {}, s \ {First(s)} \in Q
                 PROVE  SumFunctionOnSet(f, s) \in Int
      OBVIOUS
    <2>1. First(s) \in S /\ IsFiniteSet(s)
      BY WithoutFirst
    <2>2. SumFunctionOnSet(f, s) = f[First(s)] + SumFunctionOnSet(f, s \ {First(s)})
      BY <2>1, SumRecursion
    <2>3. QED
      BY <2>1, <2>2
  <1>3. Q = SUBSET S
    <2>1. Q \subseteq SUBSET S
      OBVIOUS
    <2> HIDE DEF Q
    <2>2. QED
      BY <1>1, <1>2, <2>1, SubsetsBySuccession
  <1>4. QED
    BY <1>3

\* A sum is any of its terms and the sum of the others.
LEMMA SumTakesAny ==
  ASSUME NEW S, IsFiniteSet(S), NEW f, \A x \in S : f[x] \in Int
  PROVE  \A x \in S : SumFunctionOnSet(f, S) = f[x] + SumFunctionOnSet(f, S \ {x})
  <1> DEFINE Sum(s) == SumFunctionOnSet(f, s)
             Q == {s \in SUBSET S : \A x \in s : Sum(s) = f[x] + Sum(s \ {x})}
             P == {n \in Nat : UpTo(S, n) \subseteq Q}
  <1>1. \A s \in SUBSET S : Sum(s) \in Int /\ IsFiniteSet(s)
    <2> SUFFICES ASSUME NEW s \in SUBSET S PROVE Sum(s) \in Int /\ IsFiniteSet(s)
      OBVIOUS
    <2>1. IsFiniteSet(s) /\ \A x \in s : f[x] \in Int
      BY FS_Subset
    <2>2. QED
      BY <2>1, SumType
  <1>2. \A s \in SUBSET S : s # {} => Sum(s) = f[First(s)] + Sum(s \ {First(s)})
    BY <1>1, SumRecursion
  <1>3. 0 \in P
    <2> SUFFICES ASSUME NEW s \in SUBSET S, Cardinality(s) <= 0 PROVE s \in Q
      BY DEF UpTo
    <2>1. ~(Cardinality(s) \in Nat /\ Cardinality(s) # 0)
      OBVIOUS
    <2>2. s = {}
      BY <2>1, WithoutFirst
    <2>3. QED
      BY <2>2
  <1>4. ASSUME NEW n \in P PROVE n + 1 \in P
    <2> SUFFICES ASSUME NEW s \in SUBSET S, Cardinality(s) <= n + 1, NEW x \in s
                 PROVE  Sum(s) = f[x] + Sum(s \ {x})
      BY DEF UpTo
    <2> DEFINE a == First(s)
    <2>1. /\ a \in s /\ Cardinality(s) \in Nat
          /\ Cardinality(s \ {a}) = Cardinality(s) - 1
          /\ Cardinality(s \ {x}) = Cardinality(s) - 1
      BY <1>1, WithoutFirst, FS_RemoveElement
    <2> HIDE DEF a, Sum
    <2>2. Sum(s) = f[a] + Sum(s \ {a})
      BY <1>2 DEF a
    <2>3. CASE x = a
      BY <2>2, <2>3
    <2>4. CASE x # a
      <3>1. s \ {a} \in UpTo(S, n) /\ s \ {x} \in UpTo(S, n)
        BY <2>1 DEF UpTo
      <3>2. s \ {a} \in Q /\ s \ {x} \in Q
        BY <3>1
      <3>3. x \in s \ {a} /\ a \in s \ {x}
        BY <2>1, <2>4
      <3>4. /\ Sum(s \ {a}) = f[x] + Sum((s \ {a}) \ {x})
            /\ Sum(s \ {x}) = f[a] + Sum((s \ {x}) \ {a})
        BY <3>2, <3>3
      <3>5. (s \ {x}) \ {a} = (s \ {a}) \ {x}
        OBVIOUS
      <3>6. /\ Sum(s) \in Int /\ Sum(s \ {a}) \in Int /\ Sum(s \ {x}) \in Int
            /\ Sum((s \ {a}) \ {x}) \in Int /\ f[a] \in Int /\ f[x] \in Int
        BY <1>1, <2>1
      <3>7. Sum(s \ {x}) = f[a] + Sum((s \ {a}) \ {x})
        BY <3>4, <3>5
      <3>8. QED
        BY <2>2, <3>4, <3>6, <3>7
    <2>5. QED
      BY <2>3, <2>4
  <1>5. P = Nat
    <2>1. P \subseteq Nat
      OBVIOUS
    <2> HIDE DEF P
    <2>2. QED
      BY <1>3, <1>4, <2>1, NaturalsBySuccession
  <1>6. Cardinality(S) \in Nat
    BY FS_CardinalityType
  <1>7. Cardinality(S) \in P /\ S \in UpTo(S, Cardinality(S))
    BY <1>5, <1>6 DEF UpTo
  <1>8. S \in Q
    BY <1>7
  <1>9. QED
    BY <1>8

\* Functions that agree on a set have the same sum there.
LEMMA SumsOfEquals ==
  ASSUME NEW S, IsFiniteSet(S), NEW f, NEW g, \A x \in S : f[x] = g[x]
  PROVE  SumFunctionOnSet(f, S) = SumFunctionOnSet(g, S)
  <1> DEFINE Q == {s \in SUBSET S : SumFunctionOnSet(f, s) = SumFunctionOnSet(g, s)}
  <1>1. {} \in Q
    BY FS_EmptySet, SumRecursion
  <1>2. \A s \in SUBSET S : s # {} /\ s \ {First(s)} \in Q => s \in Q
    <2> SUFFICES ASSUME NEW s \in SUBSET S, s # {}, s \ {First(s)} \in Q
                 PROVE  SumFunctionOnSet(f, s) = SumFunctionOnSet(g, s)
      OBVIOUS
    <2>1. First(s) \in S /\ IsFiniteSet(s)
      BY WithoutFirst
    <2>2. /\ SumFunctionOnSet(f, s) = f[First(s)] + SumFunctionOnSet(f, s \ {First(s)})
          /\ SumFunctionOnSet(g, s) = g[First(s)] + SumFunctionOnSet(g, s \ {First(s)})
      BY <2>1, SumRecursion
    <2>3. f[First(s)] = g[First(s)]
      BY <2>1
    <2>4. QED
      BY <2>2, <2>3
  <1>3. Q = SUBSET S
    <2>1. Q \subseteq SUBSET S
      OBVIOUS
    <2> HIDE DEF Q
    <2>2. QED
      BY <1>1, <1>2, <2>1, SubsetsBySuccession
  <1>4. S \in Q
    BY <1>3
  <1>5. QED
    BY <1>4

\* The sum over two sets without a common element is that of their sums.
LEMMA SumOfUnion ==
  ASSUME NEW S, IsFiniteSet(S), NEW f, \A x \in S : f[x] \in Int,
         NEW T \in SUBSET S
  PROVE  SumFunctionOnSet(f, S) = SumFunctionOnSet(f, T) + SumFunctionOnSet(f, S \ T)
  <1> DEFINE Sum(s) == SumFunctionOnSet(f, s)
             Q == {s \in SUBSET T : Sum((S \ T) \cup s) = Sum(s) + Sum(S \ T)}
  <1>1. IsFiniteSet(T) /\ \A s \in SUBSET S : IsFiniteSet(s) /\ Sum(s) \in Int
    <2> SUFFICES ASSUME NEW s \in SUBSET S PROVE IsFiniteSet(s) /\ Sum(s) \in Int
      BY FS_Subset
    <2>1. IsFiniteSet(s) /\ \A x \in s : f[x] \in Int
      BY FS_Subset
    <2>2. QED
      BY <2>1, SumType
  <1>2. Sum({}) = 0
    BY FS_EmptySet, SumRecursion
  <1>3. {} \in Q
    <2>1. (S \ T) \cup {} = S \ T
      OBVIOUS
    <2>2. QED
      BY <1>1, <1>2, <2>1
  <1>4. \A s \in SUBSET T : s # {} /\ s \ {First(s)} \in Q => s \in Q
    <2> SUFFICES ASSUME NEW s \in SUBSET T, s # {}, s \ {First(s)} \in Q
                 PROVE  Sum((S \ T) \cup s) = Sum(s) + Sum(S \ T)
      OBVIOUS
    <2> DEFINE a == First(s)
               r == s \ {First(s)}
               w == (S \ T) \cup s
    <2>1. a \in s
      BY DEF First
    <2>2. /\ a \in w /\ w \in SUBSET S /\ s \in SUBSET S /\ r \in SUBSET S
          /\ w \ {a} = (S \ T) \cup r /\ S \ T \in SUBSET S
      BY <2>1
    <2>3. Sum((S \ T) \cup r) = Sum(r) + Sum(S \ T)
      OBVIOUS
    <2>4. IsFiniteSet(w) /\ IsFiniteSet(s)
          /\ (\A x \in w : f[x] \in Int) /\ (\A x \in s : f[x] \in Int)
      BY <1>1, <2>2
    <2>5. s \ {a} = r
      OBVIOUS
    <2> HIDE DEF a, r, w, Sum, Q
    <2>6. Sum(w) = f[a] + Sum(w \ {a}) /\ Sum(s) = f[a] + Sum(r)
      BY <2>1, <2>2, <2>4, <2>5, SumTakesAny DEF Sum
    <2>7. f[a] \in Int /\ Sum(r) \in Int /\ Sum(S \ T) \in Int
      BY <1>1, <2>2
    <2>8. Sum(w \ {a}) = Sum(r) + Sum(S \ T)
      BY <2>2, <2>3
    <2>9. Sum(w) = Sum(s) + Sum(S \ T)
      BY <2>6, <2>7, <2>8
    <2>10. QED
      BY <2>9 DEF w
  <1>5. Q = SUBSET T
    <2>1. Q \subseteq SUBSET T
      OBVIOUS
    <2> HIDE DEF Q
    <2>2. QED
      BY <1>1, <1>3, <1>4, <2>1, SubsetsBySuccession
  <1>6. T \in Q /\ (S \ T) \cup T = S
    BY <1>5
  <1>7. QED
    BY <1>6
\* The sum of an affine image.
LEMMA SumOfAffine ==
  ASSUME NEW S, IsFiniteSet(S), NEW f, NEW g, NEW b \in Int, NEW m \in Int,
         \A x \in S : f[x] \in Int /\ g[x] = b + m * f[x]
  PROVE  SumFunctionOnSet(g, S) = b * Cardinality(S) + m * SumFunctionOnSet(f, S)
  <1> DEFINE Sum(h, s) == SumFunctionOnSet(h, s)
             Q == {s \in SUBSET S : Sum(g, s) = b * Cardinality(s) + m * Sum(f, s)}
  <1>1. {} \in Q
    <2>1. Sum(g, {}) = 0 /\ Sum(f, {}) = 0 /\ Cardinality({}) = 0
      BY FS_EmptySet, SumRecursion
    <2>2. QED
      BY <2>1
  <1>2. \A s \in SUBSET S : s # {} /\ s \ {First(s)} \in Q => s \in Q
    <2> SUFFICES ASSUME NEW s \in SUBSET S, s # {}, s \ {First(s)} \in Q
                 PROVE  Sum(g, s) = b * Cardinality(s) + m * Sum(f, s)
      OBVIOUS
    <2>1. PICK a, r : a = First(s) /\ r = s \ {First(s)}
      OBVIOUS
    <2>2. /\ a \in S /\ IsFiniteSet(s) /\ IsFiniteSet(r) /\ r \in SUBSET S
          /\ Cardinality(s) \in Nat /\ Cardinality(r) = Cardinality(s) - 1
      BY <2>1, WithoutFirst
    <2>3. Sum(g, r) = b * Cardinality(r) + m * Sum(f, r)
      BY <2>1
    <2>4. Sum(f, s) = f[a] + Sum(f, r) /\ Sum(g, s) = g[a] + Sum(g, r)
      BY <2>1, <2>2, SumRecursion
    <2>5. g[a] = b + m * f[a] /\ f[a] \in Int
      BY <2>2
    <2>6. Sum(f, r) \in Int
      <3>1. \A x \in r : f[x] \in Int
        BY <2>2
      <3>2. QED
        BY <2>2, <3>1, SumType
    <2> HIDE DEF Sum, Q
    <2>7. PICK y, c, z : y = f[a] /\ c = Cardinality(s) /\ z = Sum(f, r)
      OBVIOUS
    <2>8. y \in Int /\ c \in Int /\ z \in Int
      BY <2>2, <2>5, <2>6, <2>7
    <2>9. (b + m * y) + (b * (c - 1) + m * z) = b * c + m * (y + z)
      <3>1. b * (c - 1) = b * c - b /\ m * (y + z) = m * y + m * z
        BY <2>8
      <3>2. b * c \in Int /\ m * y \in Int /\ m * z \in Int
        BY <2>8
      <3>3. QED
        BY <2>8, <3>1, <3>2
    <2>10. QED
      BY <2>2, <2>3, <2>4, <2>5, <2>7, <2>9
  <1>3. Q = SUBSET S
    <2>1. Q \subseteq SUBSET S
      OBVIOUS
    <2> HIDE DEF Q
    <2>2. QED
      BY <1>1, <1>2, <2>1, SubsetsBySuccession
  <1>4. S \in Q
    BY <1>3
  <1>5. QED
    BY <1>4

\* A sum does not depend on the names of its terms.
LEMMA SumIsReindexed ==
  ASSUME NEW S, IsFiniteSet(S), NEW T, NEW f, NEW g, NEW h,
         \A x \in S : h[x] \in T /\ f[h[x]] \in Int /\ g[x] = f[h[x]],
         \A x, y \in S : h[x] = h[y] => x = y,
         \A y \in T : \E x \in S : y = h[x]
  PROVE  SumFunctionOnSet(g, S) = SumFunctionOnSet(f, T)
  <1> DEFINE Sum(k, s) == SumFunctionOnSet(k, s)
             Image(s) == {h[x] : x \in s}
             Q == {s \in SUBSET S : Sum(g, s) = Sum(f, Image(s))}
  <1>1. {} \in Q
    <2>1. Image({}) = {}
      OBVIOUS
    <2>2. Sum(g, {}) = 0 /\ Sum(f, {}) = 0
      BY FS_EmptySet, SumRecursion
    <2>3. QED
      BY <2>1, <2>2
  <1>2. \A s \in SUBSET S : s # {} /\ s \ {First(s)} \in Q => s \in Q
    <2> SUFFICES ASSUME NEW s \in SUBSET S, s # {}, s \ {First(s)} \in Q
                 PROVE  Sum(g, s) = Sum(f, Image(s))
      OBVIOUS
    <2>1. PICK a, r : a = First(s) /\ r = s \ {First(s)}
      OBVIOUS
    <2>2. a \in s /\ IsFiniteSet(s)
      BY <2>1, WithoutFirst
    <2>3. Sum(g, r) = Sum(f, Image(r))
      BY <2>1
    <2>4. Sum(g, s) = g[a] + Sum(g, r)
      BY <2>1, <2>2, SumRecursion
    <2>5. Image(r) = Image(s) \ {h[a]}
      BY <2>1, <2>2
    <2>6. IsFiniteSet(Image(s)) /\ h[a] \in Image(s) /\ \A z \in Image(s) : f[z] \in Int
      BY <2>2, FiniteImages
    <2>7. Sum(f, Image(s)) = f[h[a]] + Sum(f, Image(s) \ {h[a]})
      <3> HIDE DEF Image
      <3>1. QED
        BY <2>6, SumTakesAny
    <2>8. g[a] = f[h[a]]
      BY <2>2
    <2> HIDE DEF Sum, Image, Q
    <2>9. QED
      BY <2>3, <2>4, <2>5, <2>7, <2>8
  <1>3. Q = SUBSET S
    <2>1. Q \subseteq SUBSET S
      OBVIOUS
    <2> HIDE DEF Q
    <2>2. QED
      BY <1>1, <1>2, <2>1, SubsetsBySuccession
  <1>4. S \in Q
    BY <1>3
  <1>5. Image(S) = T
    OBVIOUS
  <1>6. QED
    BY <1>4, <1>5

\* g mirrors f in a set of numbers.
Mirrors(g, f, S, n) ==
  /\ S \subseteq Int /\ n \in Int
  /\ \A x \in S : n - x \in S /\ f[x] \in Int /\ g[x] = f[n - x]

\* A sum does not change when its terms are mirrored.
LEMMA SumOfMirrored ==
  ASSUME NEW S, IsFiniteSet(S), NEW n, NEW f, NEW g, Mirrors(g, f, S, n)
  PROVE  SumFunctionOnSet(g, S) = SumFunctionOnSet(f, S)
  <1>1. PICK h : h = [x \in S |-> n - x]
    OBVIOUS
  <1>2. n \in Int /\ \A x \in S : x \in Int /\ h[x] = n - x /\ h[x] \in S
    BY <1>1 DEF Mirrors
  <1>3. \A x \in S : h[x] \in S /\ f[h[x]] \in Int /\ g[x] = f[h[x]]
    BY <1>2 DEF Mirrors
  <1>4. \A x, y \in S : h[x] = h[y] => x = y
    BY <1>2
  <1>5. \A y \in S : \E x \in S : y = h[x]
    <2> SUFFICES ASSUME NEW y \in S PROVE h[y] \in S /\ y = h[h[y]]
      OBVIOUS
    <2>1. h[y] \in S /\ h[y] = n - y /\ y \in Int
      BY <1>2
    <2>2. h[h[y]] = n - h[y]
      BY <1>2, <2>1
    <2>3. QED
      BY <1>2, <2>1, <2>2
  <1>6. QED
    BY <1>3, <1>4, <1>5, SumIsReindexed

\* What changes a sum is what changes some of its terms.
LEMMA SumOfChange ==
  ASSUME NEW S, IsFiniteSet(S), NEW f, NEW g, NEW T \in SUBSET S, NEW d \in Int,
         \A x \in S : f[x] \in Int /\ g[x] \in Int,
         \A x \in S \ T : g[x] = f[x],
         SumFunctionOnSet(g, T) = SumFunctionOnSet(f, T) + d
  PROVE  SumFunctionOnSet(g, S) = SumFunctionOnSet(f, S) + d
  <1>1. IsFiniteSet(T) /\ IsFiniteSet(S \ T)
    BY FS_Subset
  <1>2. /\ SumFunctionOnSet(f, S) = SumFunctionOnSet(f, T) + SumFunctionOnSet(f, S \ T)
        /\ SumFunctionOnSet(g, S) = SumFunctionOnSet(g, T) + SumFunctionOnSet(g, S \ T)
    BY SumOfUnion
  <1>3. SumFunctionOnSet(g, S \ T) = SumFunctionOnSet(f, S \ T)
    BY <1>1, SumsOfEquals
  <1>4. SumFunctionOnSet(f, T) \in Int /\ SumFunctionOnSet(f, S \ T) \in Int
    <2>1. (\A x \in T : f[x] \in Int) /\ (\A x \in S \ T : f[x] \in Int)
      OBVIOUS
    <2>2. QED
      BY <1>1, <2>1, SumType
  <1>5. QED
    BY <1>2, <1>3, <1>4

\* The sum of two terms at a time.
LEMMA SumOfBoth ==
  ASSUME NEW S, IsFiniteSet(S), NEW f, NEW h, NEW g,
         \A x \in S : f[x] \in Int /\ h[x] \in Int /\ g[x] = f[x] + h[x]
  PROVE  SumFunctionOnSet(g, S) = SumFunctionOnSet(f, S) + SumFunctionOnSet(h, S)
  <1> DEFINE Sum(k, s) == SumFunctionOnSet(k, s)
             Q == {s \in SUBSET S : Sum(g, s) = Sum(f, s) + Sum(h, s)}
  <1>1. {} \in Q
    <2>1. Sum(g, {}) = 0 /\ Sum(f, {}) = 0 /\ Sum(h, {}) = 0
      BY FS_EmptySet, SumRecursion
    <2>2. QED
      BY <2>1
  <1>2. \A s \in SUBSET S : s # {} /\ s \ {First(s)} \in Q => s \in Q
    <2> SUFFICES ASSUME NEW s \in SUBSET S, s # {}, s \ {First(s)} \in Q
                 PROVE  Sum(g, s) = Sum(f, s) + Sum(h, s)
      OBVIOUS
    <2>1. PICK a, r : a = First(s) /\ r = s \ {First(s)}
      OBVIOUS
    <2>2. a \in S /\ IsFiniteSet(s) /\ IsFiniteSet(r) /\ r \in SUBSET S
      BY <2>1, WithoutFirst
    <2>3. Sum(g, r) = Sum(f, r) + Sum(h, r)
      BY <2>1
    <2>4. /\ Sum(f, s) = f[a] + Sum(f, r) /\ Sum(g, s) = g[a] + Sum(g, r)
          /\ Sum(h, s) = h[a] + Sum(h, r)
      BY <2>1, <2>2, SumRecursion
    <2>5. g[a] = f[a] + h[a] /\ f[a] \in Int /\ h[a] \in Int
      BY <2>2
    <2>6. Sum(f, r) \in Int /\ Sum(h, r) \in Int
      <3>1. \A x \in r : f[x] \in Int /\ h[x] \in Int
        BY <2>2
      <3>2. QED
        BY <2>2, <3>1, SumType
    <2> HIDE DEF Sum, Q
    <2>7. QED
      BY <2>3, <2>4, <2>5, <2>6
  <1>3. Q = SUBSET S
    <2>1. Q \subseteq SUBSET S
      OBVIOUS
    <2> HIDE DEF Q
    <2>2. QED
      BY <1>1, <1>2, <2>1, SubsetsBySuccession
  <1>4. S \in Q
    BY <1>3
  <1>5. QED
    BY <1>4

\* A sum over pairs is the sum of the sums of its rows.
LEMMA SumOfRows ==
  ASSUME NEW S, IsFiniteSet(S), NEW T, IsFiniteSet(T), NEW g, NEW row, NEW total,
         \A x \in S, y \in T : g[<<x, y>>] \in Int /\ row[x][y] = g[<<x, y>>],
         \A x \in S : total[x] = SumFunctionOnSet(row[x], T)
  PROVE  SumFunctionOnSet(g, S \X T) = SumFunctionOnSet(total, S)
  <1> DEFINE Sum(k, s) == SumFunctionOnSet(k, s)
             Q == {s \in SUBSET S : Sum(g, s \X T) = Sum(total, s)}
  <1>1. {} \in Q
    <2>1. {} \X T = {}
      OBVIOUS
    <2>2. Sum(g, {}) = 0 /\ Sum(total, {}) = 0
      BY FS_EmptySet, SumRecursion
    <2>3. QED
      BY <2>1, <2>2
  <1>2. \A s \in SUBSET S : s # {} /\ s \ {First(s)} \in Q => s \in Q
    <2> SUFFICES ASSUME NEW s \in SUBSET S, s # {}, s \ {First(s)} \in Q
                 PROVE  Sum(g, s \X T) = Sum(total, s)
      OBVIOUS
    <2>1. PICK a, r : a = First(s) /\ r = s \ {First(s)}
      OBVIOUS
    <2>2. a \in s /\ a \in S /\ IsFiniteSet(s) /\ IsFiniteSet(r) /\ r \in SUBSET S
      BY <2>1, WithoutFirst
    <2>3. Sum(g, r \X T) = Sum(total, r)
      BY <2>1
    <2>4. Sum(total, s) = total[a] + Sum(total, r)
      BY <2>1, <2>2, SumRecursion
    <2>5. PICK A, R, P : A = s \X T /\ R = r \X T /\ P = {a} \X T
      OBVIOUS
    <2>6. IsFiniteSet(A) /\ R \in SUBSET A /\ A \ R = P
      <3>1. IsFiniteSet(A)
        BY <2>2, <2>5, FS_Product
      <3>2. QED
        BY <2>1, <2>2, <2>5, <3>1
    <2>7. \A p \in A : g[p] \in Int
      BY <2>5
    <2>8. Sum(g, A) = Sum(g, R) + Sum(g, P)
      <3>1. Sum(g, A) = Sum(g, R) + Sum(g, A \ R)
        BY <2>6, <2>7, SumOfUnion
      <3>2. QED
        BY <2>6, <3>1
    <2>9. Sum(row[a], T) = Sum(g, P)
      <3>1. PICK h, k : h = [y \in T |-> <<a, y>>] /\ k = row[a]
        OBVIOUS
      <3>2. \A y \in T : h[y] \in P /\ g[h[y]] \in Int /\ k[y] = g[h[y]]
        BY <2>2, <2>5, <3>1
      <3>3. \A x, y \in T : h[x] = h[y] => x = y
        BY <3>1
      <3>4. \A p \in P : \E y \in T : p = h[y]
        BY <2>5, <3>1
      <3>5. SumFunctionOnSet(k, T) = SumFunctionOnSet(g, P)
        BY ONLY IsFiniteSet(T), <3>2, <3>3, <3>4, SumIsReindexed
      <3>6. QED
        BY <3>1, <3>5
    <2>10. total[a] = Sum(row[a], T)
      BY <2>2
    <2>11. Sum(g, R) \in Int /\ Sum(g, P) \in Int
      <3>1. IsFiniteSet(R) /\ IsFiniteSet(P) /\ P \subseteq A
        BY <2>6, FS_Subset
      <3>2. \A p \in R : g[p] \in Int
        BY <2>6, <2>7
      <3>3. \A p \in P : g[p] \in Int
        BY <2>7, <3>1
      <3>4. QED
        BY <3>1, <3>2, <3>3, SumType
    <2> HIDE DEF Sum, Q
    <2>12. QED
      BY <2>3, <2>4, <2>5, <2>8, <2>9, <2>10, <2>11
  <1>3. Q = SUBSET S
    <2>1. Q \subseteq SUBSET S
      OBVIOUS
    <2> HIDE DEF Q
    <2>2. QED
      BY <1>1, <1>2, <2>1, SubsetsBySuccession
  <1>4. S \in Q
    BY <1>3
  <1>5. QED
    BY <1>4

\* The squares of the values, and of their differences.
Squares(f, S) == [x \in S |-> f[x] * f[x]]

Differences(f, S) ==
  [p \in S \X S |-> (f[p[1]] - f[p[2]]) * (f[p[1]] - f[p[2]])]

(***************************************************************************)
(* The squared differences of all pairs add up to twice the number of      *)
(* values times the sum of their squares, less the square of their sum.    *)
(***************************************************************************)
LEMMA SumOfDifferences ==
  ASSUME NEW S, IsFiniteSet(S), NEW f, \A x \in S : f[x] \in Int
  PROVE  SumFunctionOnSet(Differences(f, S), S \X S) =
           2 * (Cardinality(S) * SumFunctionOnSet(Squares(f, S), S)
                  - SumFunctionOnSet(f, S) * SumFunctionOnSet(f, S))
  <1>1. PICK sq, g : sq = Squares(f, S) /\ g = Differences(f, S)
    OBVIOUS
  <1>2. PICK n, F, G : /\ n = Cardinality(S) /\ F = SumFunctionOnSet(f, S)
                       /\ G = SumFunctionOnSet(sq, S)
    OBVIOUS
  <1>3. \A x \in S : sq[x] = f[x] * f[x] /\ sq[x] \in Int
    BY <1>1 DEF Squares
  <1>4. n \in Int /\ F \in Int /\ G \in Int
    BY <1>2, <1>3, SumType, FS_CardinalityType
  <1> DEFINE mixed == [x \in S |-> [y \in S |-> sq[x] + (-2 * f[x]) * f[y]]]
             row   == [x \in S |-> [y \in S |-> mixed[x][y] + sq[y]]]
             bent  == [x \in S |-> G + n * sq[x]]
             line  == [x \in S |-> 0 + (-2 * F) * f[x]]
             total == [x \in S |-> bent[x] + line[x]]
  <1>5. ASSUME NEW x \in S PROVE total[x] = SumFunctionOnSet(row[x], S)
    <2>1. PICK a, b : a = f[x] /\ b = sq[x]
      OBVIOUS
    <2>2. a \in Int /\ b \in Int /\ -2 * a \in Int
      BY <1>3, <2>1
    <2>3. PICK u : u = mixed[x]
      OBVIOUS
    <2>4. \A y \in S : f[y] \in Int /\ u[y] = b + (-2 * a) * f[y]
      BY <2>1, <2>3
    <2>5. SumFunctionOnSet(u, S) = b * n + (-2 * a) * F
      <3>1. SumFunctionOnSet(u, S)
              = b * Cardinality(S) + (-2 * a) * SumFunctionOnSet(f, S)
        <4> HIDE DEF mixed, row, bent, line, total
        <4>1. QED
          BY ONLY IsFiniteSet(S), <2>2, <2>4, SumOfAffine
      <3>2. QED
        BY <1>2, <3>1
    <2>6. \A y \in S : u[y] \in Int /\ sq[y] \in Int /\ row[x][y] = u[y] + sq[y]
      BY <1>3, <2>2, <2>3, <2>4
    <2>7. SumFunctionOnSet(row[x], S) = SumFunctionOnSet(u, S) + SumFunctionOnSet(sq, S)
      <3>1. PICK v : v = row[x]
        OBVIOUS
      <3>2. \A y \in S : u[y] \in Int /\ sq[y] \in Int /\ v[y] = u[y] + sq[y]
        BY <2>6, <3>1
      <3> HIDE DEF mixed, row, bent, line, total
      <3>3. SumFunctionOnSet(v, S) = SumFunctionOnSet(u, S) + SumFunctionOnSet(sq, S)
        BY ONLY IsFiniteSet(S), <3>2, SumOfBoth
      <3>4. QED
        BY <3>1, <3>3
    <2>8. total[x] = G + n * b + (0 + (-2 * F) * a)
      BY <2>1
    <2>9. G + n * b + (0 + (-2 * F) * a) = (b * n + (-2 * a) * F) + G
      <3>1. n * b = b * n /\ F * a = a * F /\ (-2 * F) * a = -2 * (F * a)
            /\ (-2 * a) * F = -2 * (a * F)
        BY <1>4, <2>2
      <3>2. n * b \in Int /\ F * a \in Int
        BY <1>4, <2>2
      <3>3. QED
        BY <1>4, <3>1, <3>2
    <2> HIDE DEF mixed, row, bent, line, total
    <2>10. QED
      BY <1>2, <2>5, <2>7, <2>8, <2>9
  <1>6. \A x \in S, y \in S : g[<<x, y>>] \in Int /\ row[x][y] = g[<<x, y>>]
    <2> SUFFICES ASSUME NEW x \in S, NEW y \in S
                 PROVE  g[<<x, y>>] \in Int /\ row[x][y] = g[<<x, y>>]
      OBVIOUS
    <2>1. PICK a, b : a = f[x] /\ b = f[y]
      OBVIOUS
    <2>2. a \in Int /\ b \in Int
      BY <2>1
    <2>3. g[<<x, y>>] = (a - b) * (a - b)
      BY <1>1, <2>1 DEF Differences
    <2>4. row[x][y] = a * a + (-2 * a) * b + b * b
      BY <1>3, <2>1
    <2>5. a * a + (-2 * a) * b + b * b = (a - b) * (a - b) /\ (a - b) * (a - b) \in Int
      BY <2>2
    <2>6. QED
      BY <2>3, <2>4, <2>5
  <1>7. SumFunctionOnSet(g, S \X S) = SumFunctionOnSet(total, S)
    <2> HIDE DEF mixed, row, bent, line, total
    <2>1. QED
      BY ONLY IsFiniteSet(S), <1>5, <1>6, SumOfRows
  <1>8. SumFunctionOnSet(bent, S) = G * n + n * G
    <2>1. \A x \in S : sq[x] \in Int /\ bent[x] = G + n * sq[x]
      BY <1>3
    <2>2. SumFunctionOnSet(bent, S) = G * Cardinality(S) + n * SumFunctionOnSet(sq, S)
      <3> HIDE DEF mixed, row, bent, line, total
      <3>1. QED
        BY ONLY IsFiniteSet(S), <1>4, <2>1, SumOfAffine
    <2>3. QED
      BY <1>2, <2>2
  <1>9. SumFunctionOnSet(line, S) = 0 * n + (-2 * F) * F
    <2>1. 0 \in Int /\ -2 * F \in Int
      BY <1>4
    <2>2. \A x \in S : f[x] \in Int /\ line[x] = 0 + (-2 * F) * f[x]
      OBVIOUS
    <2>3. SumFunctionOnSet(line, S) = 0 * Cardinality(S) + (-2 * F) * SumFunctionOnSet(f, S)
      <3> HIDE DEF mixed, row, bent, line, total
      <3>1. QED
        BY ONLY IsFiniteSet(S), <2>1, <2>2, SumOfAffine
    <2>4. QED
      BY <1>2, <2>3
  <1>10. SumFunctionOnSet(total, S) = SumFunctionOnSet(bent, S) + SumFunctionOnSet(line, S)
    <2>1. \A x \in S : bent[x] \in Int /\ line[x] \in Int /\ total[x] = bent[x] + line[x]
      BY <1>3, <1>4
    <2> HIDE DEF mixed, row, bent, line, total
    <2>2. QED
      BY ONLY IsFiniteSet(S), <2>1, SumOfBoth
  <1>11. (G * n + n * G) + (0 * n + (-2 * F) * F) = 2 * (n * G - F * F)
    <2>1. G * n = n * G /\ (-2 * F) * F = -2 * (F * F) /\ n * G \in Int /\ F * F \in Int
          /\ 0 * n = 0
      BY <1>4
    <2>2. QED
      BY <2>1
  <1> HIDE DEF mixed, row, bent, line, total
  <1>12. QED
    BY <1>1, <1>2, <1>7, <1>8, <1>9, <1>10, <1>11

\* What the steps between two values add up to.
LEMMA SumOfSteps ==
  ASSUME NEW m \in Int, NEW c, \A t \in Int : t >= m => c[t] \in Int,
         NEW step, \A t \in Int : t > m => step[t] = c[t] - c[t - 1], NEW n \in Nat
  PROVE  SumFunctionOnSet(step, (m + 1)..(m + n)) = c[m + n] - c[m]
  <1> DEFINE P == {k \in Nat : SumFunctionOnSet(step, (m + 1)..(m + k)) = c[m + k] - c[m]}
  <1>1. 0 \in P
    <2>1. (m + 1)..(m + 0) = {} /\ m + 0 = m
      OBVIOUS
    <2>2. SumFunctionOnSet(step, {}) = 0
      BY FS_EmptySet, SumRecursion
    <2>3. c[m] \in Int
      OBVIOUS
    <2>4. QED
      BY <2>1, <2>2, <2>3
  <1>2. ASSUME NEW k \in P PROVE k + 1 \in P
    <2>1. PICK S, R, last : S = (m + 1)..(m + (k + 1)) /\ R = (m + 1)..(m + k) /\ last = m + (k + 1)
      OBVIOUS
    <2>2. /\ last \in Int /\ last \in S /\ S \ {last} = R /\ last > m
          /\ last - 1 = m + k /\ m + k >= m
      BY <2>1
    <2>3. IsFiniteSet(S)
      BY <2>1, FS_Interval
    <2>4. \A t \in S : step[t] \in Int
      <3> SUFFICES ASSUME NEW t \in S PROVE step[t] \in Int
        OBVIOUS
      <3>1. t \in Int /\ t > m /\ t - 1 \in Int /\ t - 1 >= m /\ t >= m
        BY <2>1
      <3>2. step[t] = c[t] - c[t - 1] /\ c[t] \in Int /\ c[t - 1] \in Int
        BY <3>1
      <3>3. QED
        BY <3>2
    <2>5. SumFunctionOnSet(step, S) = step[last] + SumFunctionOnSet(step, R)
      <3>1. \A t \in S : SumFunctionOnSet(step, S) = step[t] + SumFunctionOnSet(step, S \ {t})
        BY ONLY <2>3, <2>4, SumTakesAny
      <3>2. QED
        BY <2>2, <3>1
    <2>6. SumFunctionOnSet(step, R) = c[m + k] - c[m]
      BY <2>1
    <2>7. step[last] = c[last] - c[m + k] /\ c[last] \in Int /\ c[m + k] \in Int /\ c[m] \in Int
      BY <2>2
    <2>8. SumFunctionOnSet(step, S) = c[last] - c[m]
      BY <2>5, <2>6, <2>7
    <2>9. QED
      BY <2>1, <2>8
  <1>3. P = Nat
    <2>1. P \subseteq Nat
      OBVIOUS
    <2> HIDE DEF P
    <2>2. QED
      BY <1>1, <1>2, <2>1, NaturalsBySuccession
  <1>4. n \in P
    BY <1>3
  <1>5. QED
    BY <1>4
=============================================================================
