----------------------------- MODULE MboProofs -----------------------------
(* The market-by-order feed (MboFeed): a synced book is the publisher's, and *)
(* what is shown under the Source ID in use is that book, for any number of  *)
(* orders, prices, deltas, rotations and Source IDs and for any bounds.      *)
EXTENDS MboFeed, FiniteSetTheorems, NaturalsInduction, WellFoundedInduction, TLAPS

-----------------------------------------------------------------------------
(* Loops.  What a loop does is an induction over its steps, stated with      *)
(* sets because an operator cannot be a lemma's parameter.                   *)

\* A set of natural numbers that is not empty has a least one.
LEMMA LeastExists ==
  ASSUME NEW S \in SUBSET Nat, S # {}
  PROVE  \E i \in S : \A j \in S : i <= j
<1> DEFINE R == OpToRel(<, Nat)
<1>1. IsWellFoundedOn(R, Nat)
  BY NatLessThanWellFounded, Zenon DEF R, OpToRel
<1>2. \A i \in Nat, j \in Nat : i < j => <<i, j>> \in R
  BY DEF OpToRel
<1> HIDE DEF R
<1>3. PICK x \in S : \A y \in S : ~(<<y, x>> \in R)
  BY <1>1, WFMin
<1>4. ASSUME NEW j \in S PROVE x <= j
  <2>1. x \in Nat /\ j \in Nat /\ ~(<<j, x>> \in R)
    BY <1>3
  <2> QED BY <1>2, <2>1
<1> QED BY <1>4

\* What holds first and goes on from each step to the next holds at the end: S[i] is what
\* holds after i steps.
LEMMA Steps ==
  ASSUME NEW n \in Nat, NEW S, NEW f, f[0] \in S[0],
         \A i \in 1..n : f[i - 1] \in S[i - 1] => f[i] \in S[i]
  PROVE  \A i \in 0..n : f[i] \in S[i]
<1> DEFINE B == {i \in 0..n : f[i] \notin S[i]}
<1> SUFFICES ASSUME B # {} PROVE FALSE
  OBVIOUS
<1>0. B \in SUBSET Nat
  OBVIOUS
<1>1. PICK i \in B : \A j \in B : i <= j
  <2> HIDE DEF B
  <2> QED BY <1>0, LeastExists
<1>2. i \in 1..n /\ i - 1 \in 0..n /\ i - 1 \notin B
  BY <1>1
<1> QED BY <1>1, <1>2

\* f is what n steps of F make of base, one after the other.
Runs(f, n, T, base, F) ==
  f \in [0..n -> T] /\ f[0] = base /\ \A i \in 1..n : f[i] = F[<<f[i - 1], i>>]

\* There is such a function when the steps stay in a set T.
LEMMA StepsExist ==
  ASSUME NEW n \in Nat, NEW T, NEW base \in T, NEW F, F \in [T \X (1..n) -> T]
  PROVE  \E f : Runs(f, n, T, base, F)
<1> DEFINE Upto(k, f) == /\ f \in [0..n -> T] /\ f[0] = base
                         /\ \A i \in 1..k : f[i] = F[<<f[i - 1], i>>]
           B == {k \in 0..n : ~\E f \in [0..n -> T] : Upto(k, f)}
<1>1. ASSUME B # {} PROVE FALSE
  <2>0. B \in SUBSET Nat
    OBVIOUS
  <2>1. PICK k \in B : \A j \in B : k <= j
    <3> HIDE DEF B
    <3> QED BY <1>1, <2>0, LeastExists
  <2>2. CASE k = 0
    <3> DEFINE f == [i \in 0..n |-> base]
    <3>1. f \in [0..n -> T] /\ f[0] = base
      OBVIOUS
    <3> HIDE DEF f
    <3>2. Upto(k, f)
      BY <2>2, <3>1
    <3> QED BY <3>1, <3>2, <2>1
  <2>3. CASE k # 0
    <3>0. k \in 0..n
      OBVIOUS
    <3>1. k - 1 \in 0..n /\ k - 1 \notin B /\ k \in 1..n /\ k - 1 \in 0..(k - 1)
      <4> HIDE DEF B
      <4> QED BY <2>1, <2>3, <3>0
    <3>2. PICK f \in [0..n -> T] : Upto(k - 1, f)
      BY <3>1
    <3> DEFINE g == [f EXCEPT ![k] = F[<<f[k - 1], k>>]]
    <3>3. F[<<f[k - 1], k>>] \in T
      BY <3>1
    <3>4. g \in [0..n -> T] /\ g[k] = F[<<f[k - 1], k>>] /\ \A i \in 0..(k - 1) : g[i] = f[i]
      BY <3>1, <3>3
    <3> HIDE DEF g
    <3>5. g[0] = base
      BY <3>1, <3>2, <3>4
    <3>6. \A i \in 1..k : g[i] = F[<<g[i - 1], i>>]
      <4> SUFFICES ASSUME NEW i \in 1..k PROVE g[i] = F[<<g[i - 1], i>>]
        OBVIOUS
      <4>1. CASE i = k
        BY <3>1, <3>4, <4>1
      <4>2. CASE i # k
        <5>1. i \in 1..(k - 1) /\ i - 1 \in 0..(k - 1) /\ i \in 0..(k - 1)
          BY <3>1, <4>2
        <5> QED BY <3>2, <3>4, <5>1
      <4> QED BY <4>1, <4>2
    <3> QED BY <2>1, <3>4, <3>5, <3>6
  <2> QED BY <2>2, <2>3
<1>2. n \notin B
  BY <1>1
<1>3. PICK f \in [0..n -> T] : Upto(n, f)
  BY <1>2
<1> QED BY <1>3 DEF Runs

-----------------------------------------------------------------------------
(* Sums.                                                                     *)

Pick(s) == CHOOSE x \in s : TRUE

\* f has the sum of w over every part of S.
Sums(f, S, w) ==
  /\ f \in [SUBSET S -> Int]
  /\ \A s \in SUBSET S : f[s] = IF s = {} THEN 0 ELSE f[s \ {Pick(s)}] + w[Pick(s)]

\* A set without one of its elements is smaller.
LEMMA Smaller ==
  ASSUME NEW S, IsFiniteSet(S), NEW s \in SUBSET S
  PROVE  /\ Cardinality(s) \in Nat /\ (Cardinality(s) = 0 <=> s = {}) /\ Cardinality(s) <= Cardinality(S)
         /\ s # {} => Pick(s) \in s /\ Cardinality(s \ {Pick(s)}) = Cardinality(s) - 1
<1>1. IsFiniteSet(s) /\ Cardinality(s) \in Nat /\ Cardinality(s) <= Cardinality(S)
  BY FS_Subset, FS_CardinalityType
<1>2. Cardinality(s) = 0 <=> s = {}
  BY <1>1, FS_EmptySet
<1>3. s # {} => Pick(s) \in s
  BY DEF Pick
<1>4. s # {} => Cardinality(s \ {Pick(s)}) = Cardinality(s) - 1
  BY <1>1, <1>3, FS_RemoveElement
<1> QED BY <1>1, <1>2, <1>3, <1>4

\* What holds of the empty set, and of a set when it holds of the set without the element
\* picked, holds of every part of S.
LEMMA PickSteps ==
  ASSUME NEW S, IsFiniteSet(S), NEW P, {} \in P,
         \A s \in SUBSET S : s # {} /\ s \ {Pick(s)} \in P => s \in P
  PROVE  \A s \in SUBSET S : s \in P
<1> DEFINE B == {s \in SUBSET S : s \notin P}
           C == {Cardinality(s) : s \in B}
<1> SUFFICES ASSUME B # {} PROVE FALSE
  OBVIOUS
<1>1. C \in SUBSET Nat /\ C # {}
  <2>1. \A s \in SUBSET S : Cardinality(s) \in Nat
    BY Smaller
  <2> QED BY <2>1
<1>2. PICK i \in C : \A j \in C : i <= j
  <2> HIDE DEF C
  <2> QED BY <1>1, LeastExists
<1>3. PICK s \in B : i = Cardinality(s)
  BY <1>2
<1>4. s # {} /\ s \in SUBSET S
  BY <1>3
<1> DEFINE r == s \ {Pick(s)}
<1>5. Cardinality(r) = Cardinality(s) - 1 /\ Cardinality(s) \in Nat
  BY <1>4, Smaller
<1>6. r \in B
  BY <1>3, <1>4
<1>7. Cardinality(r) \in C
  BY <1>6
<1> HIDE DEF r, C, B
<1> QED BY <1>2, <1>3, <1>5, <1>7

\* There are sums.
LEMMA SumsExist ==
  ASSUME NEW S, IsFiniteSet(S), NEW w, \A x \in S : w[x] \in Int
  PROVE  \E f : Sums(f, S, w)
<1> DEFINE Val(f, s) == IF s = {} THEN 0 ELSE f[s \ {Pick(s)}] + w[Pick(s)]
           Upto(k, f) == /\ f \in [SUBSET S -> Int]
                         /\ \A s \in SUBSET S : Cardinality(s) <= k => f[s] = Val(f, s)
           N == Cardinality(S)
           B == {k \in 0..N : ~\E f : Upto(k, f)}
<1>0. N \in Nat
  BY FS_CardinalityType
<1>1. ASSUME B # {} PROVE FALSE
  <2>0. B \in SUBSET Nat
    BY <1>0
  <2>1. PICK k \in B : \A j \in B : k <= j
    <3> HIDE DEF B
    <3> QED BY <1>1, <2>0, LeastExists
  <2>2. k \in 0..N /\ ~\E f : Upto(k, f)
    BY <2>1
  <2>3. CASE k = 0
    <3> DEFINE f == [s \in SUBSET S |-> 0]
    <3>1. f \in [SUBSET S -> Int] /\ \A s \in SUBSET S : f[s] = 0
      OBVIOUS
    <3> HIDE DEF f
    <3>2. ASSUME NEW s \in SUBSET S, Cardinality(s) <= k PROVE f[s] = Val(f, s)
      <4>1. Cardinality(s) \in Nat /\ (Cardinality(s) = 0 => s = {})
        BY Smaller
      <4>2. s = {}
        BY <2>3, <3>2, <4>1
      <4> QED BY <3>1, <4>2
    <3>3. Upto(k, f)
      BY <3>1, <3>2
    <3> QED BY <2>2, <3>3
  <2>4. CASE k # 0
    <3>1. k - 1 \in 0..N /\ k - 1 \notin B
      <4> HIDE DEF B
      <4> QED BY <1>0, <2>1, <2>2, <2>4
    <3>2. PICK f : Upto(k - 1, f)
      BY <3>1
    <3> DEFINE g == [s \in SUBSET S |-> Val(f, s)]
    <3>3. ASSUME NEW s \in SUBSET S PROVE Val(f, s) \in Int
      <4>1. s # {} => Pick(s) \in S /\ s \ {Pick(s)} \in SUBSET S
        BY Smaller
      <4> QED BY <3>2, <4>1
    <3>4. g \in [SUBSET S -> Int] /\ \A s \in SUBSET S : g[s] = Val(f, s)
      <4> HIDE DEF Val
      <4> QED BY <3>3
    <3> HIDE DEF g
    <3>5. ASSUME NEW s \in SUBSET S, Cardinality(s) <= k PROVE g[s] = Val(g, s)
      <4>1. CASE s = {}
        BY <3>4, <4>1
      <4>2. CASE s # {}
        <5> DEFINE r == s \ {Pick(s)}
        <5>1. r \in SUBSET S /\ Cardinality(r) <= k - 1
          BY <1>0, <2>2, <3>5, <4>2, Smaller
        <5>2. f[r] = Val(f, r) /\ g[r] = Val(f, r)
          BY <3>2, <3>4, <5>1
        <5>3. g[s] = f[r] + w[Pick(s)] /\ Val(g, s) = g[r] + w[Pick(s)]
          BY <3>4, <4>2
        <5> QED BY <5>2, <5>3
      <4> QED BY <4>1, <4>2
    <3>6. Upto(k, g)
      BY <3>4, <3>5
    <3> QED BY <2>2, <3>6
  <2> QED BY <2>3, <2>4
<1>2. PICK f : Upto(N, f)
  <2>1. N \in 0..N /\ N \notin B
    <3> HIDE DEF B, N
    <3> QED BY <1>0, <1>1
  <2> HIDE DEF Upto, N
  <2> QED BY <2>1
<1>3. \A s \in SUBSET S : Cardinality(s) <= N
  BY Smaller
<1> QED BY <1>2, <1>3 DEF Sums

-----------------------------------------------------------------------------
(* Orders and levels.                                                        *)

Orders == [OrderId -> Nat]
Levels == [Price -> Nat]
At(p) == {o \in OrderId : PriceOf[o] = p}

\* The total of a level is a sum over its orders.
LEMMA LevelSum ==
  ASSUME NEW t \in Orders, NEW p \in Price
  PROVE  \E f : /\ Sums(f, At(p), t) /\ Totals(t)[p] = f[At(p)]
                /\ \A s \in SUBSET At(p) : f[s] \in Nat
<1> DEFINE S == At(p)
           Is(f) == f = [s \in SUBSET S |->
                           IF s = {} THEN 0 ELSE t[Pick(s)] + f[s \ {Pick(s)}]]
           acc == CHOOSE f : Is(f)
<1>0. IsFiniteSet(S) /\ S \subseteq OrderId
  BY OrderBookConstants, FS_Subset DEF At
<1>1. Totals(t)[p] = acc[S]
  <2>1. Totals(t)[p] = MapThenSumSet(LAMBDA o : t[o], {o \in OrderId : PriceOf[o] = p})
    BY DEF Totals
  <2>2. MapThenSumSet(LAMBDA o : t[o], S) = acc[S]
    BY Zenon DEF MapThenSumSet, MapThenFoldSet, Pick
  <2> QED BY <2>1, <2>2 DEF At
<1>2. \A o \in S : t[o] \in Nat
  BY <1>0 DEF Orders
<1> HIDE DEF S
<1>3. \A s \in SUBSET S : s # {} => Pick(s) \in S
  BY DEF Pick
<1>4. PICK f : Sums(f, S, t)
  BY <1>0, <1>2, SumsExist
<1>5. Is(f)
  <2>1. \A s \in SUBSET S : f[s] = IF s = {} THEN 0 ELSE t[Pick(s)] + f[s \ {Pick(s)}]
    BY <1>2, <1>3, <1>4 DEF Sums
  <2>2. f \in [SUBSET S -> Int]
    BY <1>4 DEF Sums
  <2> QED BY <2>1, <2>2
<1>6. Is(acc)
  BY <1>5, Zenon
<1> HIDE DEF acc
<1>7. \A s \in SUBSET S : acc[s] = IF s = {} THEN 0 ELSE t[Pick(s)] + acc[s \ {Pick(s)}]
  BY <1>6
<1>8. \A s \in SUBSET S : acc[s] \in Nat
  <2> DEFINE P == {s \in SUBSET S : acc[s] \in Nat}
  <2>1. {} \in P
    <3> DEFINE none == {}
    <3>1. none \in SUBSET S /\ none = {}
      OBVIOUS
    <3> HIDE DEF none
    <3>2. acc[none] = 0
      BY <1>7, <3>1
    <3> QED BY <3>1, <3>2
  <2>2. \A s \in SUBSET S : s # {} /\ s \ {Pick(s)} \in P => s \in P
    BY <1>2, <1>3, <1>7
  <2>3. \A s \in SUBSET S : s \in P
    <3> HIDE DEF P
    <3> QED BY <1>0, <2>1, <2>2, PickSteps
  <2> QED BY <2>3
<1>9. acc \in [SUBSET S -> Int]
  <2> DEFINE Next1(s) == IF s = {} THEN 0 ELSE t[Pick(s)] + acc[s \ {Pick(s)}]
  <2>1. acc = [s \in SUBSET S |-> Next1(s)]
    BY <1>6
  <2>2. \A s \in SUBSET S : Next1(s) \in Int
    BY <1>7, <1>8
  <2> HIDE DEF Next1
  <2> QED BY <2>1, <2>2
<1>10. Sums(acc, S, t)
  <2>1. \A s \in SUBSET S : acc[s] = IF s = {} THEN 0 ELSE acc[s \ {Pick(s)}] + t[Pick(s)]
    BY <1>2, <1>3, <1>7, <1>8
  <2> QED BY <1>9, <2>1 DEF Sums
<1> QED BY <1>1, <1>8, <1>10 DEF S

\* When one order changes, its level changes by as much and the others do not.
LEMMA LevelMoves ==
  ASSUME NEW t \in Orders, NEW o \in OrderId, NEW q \in Nat, NEW p \in Price,
         NEW u, u = [t EXCEPT ![o] = q]
  PROVE  /\ Totals(t)[p] \in Nat /\ Totals(u)[p] \in Nat
         /\ Totals(u)[p] = IF p = PriceOf[o] THEN Totals(t)[p] + q - t[o] ELSE Totals(t)[p]
<1> DEFINE S == At(p)
           d == q - t[o]
<1>0. IsFiniteSet(S) /\ S \subseteq OrderId /\ (o \in S <=> p = PriceOf[o])
  BY OrderBookConstants, FS_Subset DEF At
<1>1. u \in Orders /\ u[o] = q /\ (\A x \in OrderId \ {o} : u[x] = t[x]) /\ t[o] \in Nat
      /\ \A x \in OrderId : t[x] \in Nat /\ u[x] \in Nat
  BY DEF Orders
<1>2. PICK f : Sums(f, S, t) /\ Totals(t)[p] = f[S] /\ \A s \in SUBSET S : f[s] \in Nat
  BY LevelSum
<1>3. PICK g : Sums(g, S, u) /\ Totals(u)[p] = g[S] /\ \A s \in SUBSET S : g[s] \in Nat
  BY <1>1, LevelSum
<1> HIDE DEF S
<1>4. d \in Int /\ u[o] = t[o] + d
  BY <1>1
<1> HIDE DEF d
<1>5. \A s \in SUBSET S : g[s] = f[s] + (IF o \in s THEN d ELSE 0)
  <2> DEFINE Q == {s \in SUBSET S : g[s] = f[s] + (IF o \in s THEN d ELSE 0)}
  <2>1. {} \in Q
    <3> DEFINE none == {}
    <3>1. none \in SUBSET S /\ none = {} /\ o \notin none
      OBVIOUS
    <3> HIDE DEF none
    <3>2. f[none] = 0 /\ g[none] = 0
      BY <1>2, <1>3, <3>1 DEF Sums
    <3> QED BY <3>1, <3>2
  <2>2. ASSUME NEW s \in SUBSET S, s # {}, s \ {Pick(s)} \in Q PROVE s \in Q
    <3> DEFINE x == Pick(s)
               r == s \ {x}
    <3>1. x \in s /\ x \in S /\ x \in OrderId /\ r \in SUBSET S
      BY <1>0, <2>2 DEF Pick
    <3>2. f[s] = f[r] + t[x] /\ g[s] = g[r] + u[x] /\ f[r] \in Nat /\ g[r] \in Nat
      BY <1>2, <1>3, <2>2, <3>1 DEF Sums
    <3>3. g[r] = f[r] + (IF o \in r THEN d ELSE 0) /\ t[x] \in Nat /\ u[x] \in Nat
      BY <1>1, <2>2, <3>1
    <3>4. CASE x = o
      <4>1. o \notin r /\ o \in s /\ u[x] = t[x] + d
        BY <1>4, <3>1, <3>4
      <4> HIDE DEF x, r
      <4>2. g[s] = f[s] + d
        BY <1>4, <3>2, <3>3, <4>1
      <4> QED BY <4>1, <4>2
    <3>5. CASE x # o
      <4>1. (o \in r <=> o \in s) /\ u[x] = t[x]
        BY <1>1, <3>1, <3>5
      <4> HIDE DEF x, r
      <4>2. g[s] = f[s] + (IF o \in s THEN d ELSE 0)
        BY <1>4, <3>2, <3>3, <4>1
      <4> QED BY <4>2
    <3> QED BY <3>4, <3>5
  <2>3. \A s \in SUBSET S : s \in Q
    <3> HIDE DEF Q
    <3> QED BY <1>0, <2>1, <2>2, PickSteps
  <2> QED BY <2>3
<1>6. g[S] = f[S] + (IF o \in S THEN d ELSE 0) /\ f[S] \in Nat /\ g[S] \in Nat
  BY <1>2, <1>3, <1>5
<1> QED BY <1>0, <1>1, <1>2, <1>3, <1>6 DEF d

\* An empty book has empty levels.
LEMMA LevelsEmpty == Totals(Empty) = Flat /\ Empty \in Orders /\ Flat \in Levels
<1>1. Empty \in Orders /\ Flat \in Levels /\ \A o \in OrderId : Empty[o] = 0
  BY DEF Empty, Flat, Orders, Levels
<1>2. ASSUME NEW p \in Price PROVE Totals(Empty)[p] = 0
  <2> DEFINE S == At(p)
  <2>0. IsFiniteSet(S) /\ S \subseteq OrderId
    BY OrderBookConstants, FS_Subset DEF At
  <2>1. PICK f : Sums(f, S, Empty) /\ Totals(Empty)[p] = f[S]
    BY <1>1, LevelSum
  <2> HIDE DEF S
  <2> DEFINE P == {s \in SUBSET S : f[s] = 0}
  <2>2. {} \in P
    BY <2>1 DEF Sums
  <2>3. ASSUME NEW s \in SUBSET S, s # {}, s \ {Pick(s)} \in P PROVE s \in P
    <3>1. Pick(s) \in OrderId
      BY <2>0, <2>3 DEF Pick
    <3> QED BY <1>1, <2>1, <2>3, <3>1 DEF Sums
  <2>4. \A s \in SUBSET S : s \in P
    <3> HIDE DEF P
    <3> QED BY <2>0, <2>2, <2>3, PickSteps
  <2> QED BY <2>1, <2>4
<1>3. Totals(Empty) = [p \in Price |-> Totals(Empty)[p]]
  BY DEF Totals
<1>4. Totals(Empty) = [p \in Price |-> 0]
  BY <1>2, <1>3
<1> QED BY <1>1, <1>4 DEF Flat

-----------------------------------------------------------------------------
(* The publisher's book.                                                     *)

Sent == [mkt : Nat, op : DeltaOp, src : SourceId]

\* A delta makes a population of a population, and touches one order.
LEMMA AfterTyped ==
  ASSUME NEW t \in Orders, NEW d \in DeltaOp
  PROVE  /\ After(t, d) \in Orders /\ d.order \in OrderId
         /\ \A o \in OrderId \ {d.order} : After(t, d)[o] = t[o]
<1> DEFINE v == CASE d.kind = "add" -> d.qty
                  [] d.kind = "cancel" -> 0
                  [] d.kind = "execute" -> IF d.full \/ t[d.order] <= d.qty THEN 0 ELSE t[d.order] - d.qty
<1>1. /\ d.kind \in {"add", "cancel", "execute"} /\ d.order \in OrderId /\ d.qty \in Nat
      /\ t[d.order] \in Nat
  BY DEF DeltaOp, Orders
<1>2. v \in Nat
  BY <1>1
<1>3. After(t, d) = [t EXCEPT ![d.order] = v]
  BY Zenon DEF After
<1> HIDE DEF v
<1> QED BY <1>1, <1>2, <1>3 DEF Orders

\* The populations from delta start on.
Grows(t, base, start, wire, k) ==
  /\ t \in [start..k -> Orders] /\ t[start] = base
  /\ \A j \in (start + 1)..k : t[j] = After(t[j - 1], wire[j].op)

\* Grown is the last of them.
LEMMA GrownRuns ==
  ASSUME NEW base \in Orders, NEW start \in Nat, NEW wire \in Seq(Sent), NEW k \in start..Len(wire)
  PROVE  \E t : Grows(t, base, start, wire, k) /\ Grown(base, start, wire, k) = t[k]
<1> DEFINE T == Orders
           n == k - start
           Is(g) == g = [j \in start..k |-> IF j = start THEN base ELSE After(g[j - 1], wire[j].op)]
           acc == CHOOSE g : Is(g)
<1>1. n \in Nat /\ Len(wire) \in Nat /\ k \in Nat /\ n + start = k
  OBVIOUS
<1>2. ASSUME NEW j \in (start + 1)..k PROVE wire[j].op \in DeltaOp
  <2>1. j \in 1..Len(wire)
    BY <1>1
  <2>2. wire[j] \in Sent
    BY <2>1
  <2> QED BY <2>2 DEF Sent
<1>3. Grown(base, start, wire, k) = acc[k]
  BY Zenon DEF Grown
<1> HIDE DEF n, T
<1>4. PICK g : Is(g)
  <2> DEFINE F == [x \in T \X (1..n) |-> After(x[1], wire[x[2] + start].op)]
  <2>1. F \in [T \X (1..n) -> T]
    <3>1. ASSUME NEW x \in T \X (1..n) PROVE After(x[1], wire[x[2] + start].op) \in T
      <4>1. x[1] \in Orders /\ x[2] + start \in (start + 1)..k
        BY <1>1 DEF T
      <4>2. wire[x[2] + start].op \in DeltaOp
        BY <1>2, <4>1
      <4>3. After(x[1], wire[x[2] + start].op) \in Orders
        BY ONLY <4>1, <4>2, AfterTyped
      <4> QED BY <4>3 DEF T
    <3> QED BY <3>1
  <2>2. PICK f : Runs(f, n, T, base, F)
    <3>1. base \in T
      BY DEF T
    <3> HIDE DEF F
    <3> QED BY ONLY <1>1, <2>1, <3>1, StepsExist
  <2> DEFINE g == [j \in start..k |-> f[j - start]]
  <2>3. ASSUME NEW j \in start..k PROVE g[j] = IF j = start THEN base ELSE After(g[j - 1], wire[j].op)
    <3>1. CASE j = start
      BY <2>2, <3>1 DEF Runs
    <3>2. CASE j # start
      <4> DEFINE i == j - start
      <4>1. i \in 1..n /\ i - 1 \in 0..n /\ i + start = j /\ j - 1 \in start..k /\ (j - 1) - start = i - 1
        BY <1>1, <3>2
      <4>2. f[i] = F[<<f[i - 1], i>>] /\ f[i - 1] \in T
        BY <2>2, <4>1 DEF Runs
      <4>3. F[<<f[i - 1], i>>] = After(f[i - 1], wire[i + start].op)
        BY <4>1, <4>2
      <4>4. g[j] = f[i] /\ g[j - 1] = f[i - 1]
        BY <4>1
      <4> QED BY <3>2, <4>1, <4>2, <4>3, <4>4, Zenon
    <3> QED BY <3>1, <3>2
  <2>4. g = [j \in start..k |-> g[j]]
    OBVIOUS
  <2> HIDE DEF g
  <2>5. Is(g)
    BY <2>3, <2>4
  <2> QED BY <2>5
<1>5. Is(acc)
  BY <1>4, Zenon
<1> HIDE DEF acc
<1>6. \A j \in start..k : acc[j] = IF j = start THEN base ELSE After(acc[j - 1], wire[j].op)
  BY <1>5
<1>7. \A i \in 0..n : acc[i + start] \in T
  <2> DEFINE S == [i \in 0..n |-> T]
             f == [i \in 0..n |-> acc[i + start]]
  <2>1. f[0] \in S[0]
    BY <1>1, <1>6 DEF T
  <2>2. ASSUME NEW i \in 1..n, f[i - 1] \in S[i - 1] PROVE f[i] \in S[i]
    <3>1. i - 1 \in 0..n /\ i \in 0..n /\ i + start \in (start + 1)..k /\ i + start # start
          /\ (i + start) - 1 = (i - 1) + start /\ i + start \in start..k
      BY <1>1
    <3>2. acc[(i - 1) + start] \in Orders
      BY <2>2, <3>1 DEF T
    <3>3. acc[i + start] = After(acc[(i - 1) + start], wire[i + start].op)
      BY <1>6, <3>1
    <3>4. acc[i + start] \in Orders
      BY <1>2, <3>1, <3>2, <3>3, AfterTyped
    <3> QED BY <3>1, <3>4 DEF T
  <2>3. \A i \in 0..n : S[i] = T /\ f[i] = acc[i + start]
    OBVIOUS
  <2> HIDE DEF S, f
  <2>4. \A i \in 0..n : f[i] \in S[i]
    BY ONLY <1>1, <2>1, <2>2, Steps
  <2> QED BY <2>3, <2>4
<1>8. ASSUME NEW j \in start..k PROVE acc[j] \in Orders
  <2>1. j - start \in 0..n /\ (j - start) + start = j
    BY <1>1
  <2> QED BY <1>7, <2>1 DEF T
<1>9. acc \in [start..k -> Orders]
  <2> DEFINE Val(j) == IF j = start THEN base ELSE After(acc[j - 1], wire[j].op)
  <2>1. acc = [j \in start..k |-> Val(j)]
    BY <1>5
  <2>2. \A j \in start..k : Val(j) \in Orders
    BY <1>6, <1>8
  <2> HIDE DEF Val
  <2> QED BY <2>1, <2>2
<1>10. acc[start] = base /\ \A j \in (start + 1)..k : acc[j] = After(acc[j - 1], wire[j].op)
  BY <1>1, <1>6
<1> QED BY <1>3, <1>9, <1>10 DEF Grows

\* Two wires that agree up to k make the same populations.
LEMMA GrowsSame ==
  ASSUME NEW base \in Orders, NEW start \in Nat, NEW k \in Nat, NEW i \in Nat, start <= k, k <= i,
         NEW v, NEW w, \A j \in (start + 1)..k : v[j].op = w[j].op,
         NEW f, Grows(f, base, start, v, k), NEW g, Grows(g, base, start, w, i)
  PROVE  \A j \in start..k : f[j] = g[j]
<1> DEFINE n == k - start
           S == [x \in 0..n |-> {g[x + start]}]
           h == [x \in 0..n |-> f[x + start]]
<1>1. n \in Nat /\ n + start = k
  OBVIOUS
<1>2. \A x \in 0..n : S[x] = {g[x + start]} /\ h[x] = f[x + start]
  OBVIOUS
<1> HIDE DEF S, h, n
<1>3. h[0] \in S[0]
  BY <1>1, <1>2 DEF Grows
<1>4. ASSUME NEW x \in 1..n, h[x - 1] \in S[x - 1] PROVE h[x] \in S[x]
  <2>1. /\ x \in 0..n /\ x - 1 \in 0..n /\ x + start \in (start + 1)..k /\ x + start \in (start + 1)..i
        /\ (x - 1) + start = (x + start) - 1
    BY <1>1
  <2>2. f[(x + start) - 1] = g[(x + start) - 1]
    BY <1>2, <1>4, <2>1
  <2>3. f[x + start] = After(f[(x + start) - 1], v[x + start].op)
    BY <2>1 DEF Grows
  <2>4. g[x + start] = After(g[(x + start) - 1], w[x + start].op)
    BY <2>1 DEF Grows
  <2>5. f[x + start] = g[x + start]
    BY <2>1, <2>2, <2>3, <2>4, Zenon
  <2> QED BY <1>2, <2>1, <2>5
<1>5. \A x \in 0..n : h[x] \in S[x]
  BY ONLY <1>1, <1>3, <1>4, Steps
<1>6. ASSUME NEW j \in start..k PROVE f[j] = g[j]
  <2>1. j - start \in 0..n /\ (j - start) + start = j
    BY <1>1
  <2> QED BY <1>2, <1>5, <2>1
<1> QED BY <1>6

\* With nothing applied the population is the base.
LEMMA GrownFirst ==
  ASSUME NEW base \in Orders, NEW start \in Nat, NEW wire \in Seq(Sent), start <= Len(wire)
  PROVE  Grown(base, start, wire, start) = base
<1>1. start \in start..Len(wire)
  OBVIOUS
<1>2. PICK t : Grows(t, base, start, wire, start) /\ Grown(base, start, wire, start) = t[start]
  BY <1>1, GrownRuns
<1> QED BY <1>2 DEF Grows

\* One more delta is one more step.
LEMMA GrownNext ==
  ASSUME NEW base \in Orders, NEW start \in Nat, NEW wire \in Seq(Sent), NEW k \in start..Len(wire)
  PROVE  /\ Grown(base, start, wire, k) \in Orders
         /\ k < Len(wire) =>
              Grown(base, start, wire, k + 1) = After(Grown(base, start, wire, k), wire[k + 1].op)
<1>0. k \in Nat /\ Len(wire) \in Nat
  OBVIOUS
<1>1. PICK f : Grows(f, base, start, wire, k) /\ Grown(base, start, wire, k) = f[k]
  BY GrownRuns
<1>2. Grown(base, start, wire, k) \in Orders
  BY <1>1 DEF Grows
<1>3. ASSUME k < Len(wire)
      PROVE  Grown(base, start, wire, k + 1) = After(Grown(base, start, wire, k), wire[k + 1].op)
  <2> DEFINE i == k + 1
  <2>0. i \in start..Len(wire) /\ i \in Nat /\ i - 1 = k /\ i \in (start + 1)..i /\ k <= i
    BY <1>0, <1>3
  <2> HIDE DEF i
  <2>1. PICK g : Grows(g, base, start, wire, i) /\ Grown(base, start, wire, i) = g[i]
    BY <2>0, GrownRuns
  <2>2. \A j \in start..k : f[j] = g[j]
    BY <1>0, <1>1, <2>0, <2>1, GrowsSame
  <2>3. g[i] = After(g[i - 1], wire[i].op)
    BY <2>0, <2>1 DEF Grows
  <2>4. g[k] = f[k]
    BY <2>2
  <2>5. Grown(base, start, wire, i) = After(Grown(base, start, wire, k), wire[i].op)
    BY <1>1, <2>0, <2>1, <2>3, <2>4, Zenon
  <2> QED BY <2>5 DEF i
<1> QED BY <1>2, <1>3

\* What is sent later changes nothing of what was before.
LEMMA GrownSame ==
  ASSUME NEW base \in Orders, NEW start \in Nat, NEW v \in Seq(Sent), NEW w \in Seq(Sent),
         NEW k \in start..Len(v), k <= Len(w), \A j \in 1..k : v[j] = w[j]
  PROVE  Grown(base, start, v, k) = Grown(base, start, w, k)
<1>0. k \in Nat /\ k \in start..Len(w) /\ start <= k /\ k <= k
  OBVIOUS
<1>1. PICK f : Grows(f, base, start, v, k) /\ Grown(base, start, v, k) = f[k]
  BY GrownRuns
<1>2. PICK g : Grows(g, base, start, w, k) /\ Grown(base, start, w, k) = g[k]
  BY <1>0, GrownRuns
<1>3. \A j \in (start + 1)..k : v[j].op = w[j].op
  <2>1. \A j \in (start + 1)..k : j \in 1..k
    OBVIOUS
  <2> QED BY <2>1
<1>4. \A j \in start..k : f[j] = g[j]
  BY ONLY base \in Orders, start \in Nat, <1>0, <1>1, <1>2, <1>3, GrowsSame
<1> QED BY <1>0, <1>1, <1>2, <1>4

\* An order that no delta names keeps its quantity.
LEMMA GrownUntouched ==
  ASSUME NEW base \in Orders, NEW start \in Nat, NEW wire \in Seq(Sent), NEW k \in start..Len(wire),
         NEW o \in OrderId, \A j \in (start + 1)..k : wire[j].op.order # o
  PROVE  Grown(base, start, wire, k)[o] = base[o]
<1> DEFINE n == k - start
           S == [x \in 0..n |-> {t \in Orders : t[o] = base[o]}]
<1>0. k \in Nat /\ Len(wire) \in Nat
  OBVIOUS
<1>1. PICK f : Grows(f, base, start, wire, k) /\ Grown(base, start, wire, k) = f[k]
  BY GrownRuns
<1> DEFINE h == [x \in 0..n |-> f[x + start]]
<1>2. n \in Nat /\ n + start = k
  OBVIOUS
<1>3. \A x \in 0..n : S[x] = {t \in Orders : t[o] = base[o]} /\ h[x] = f[x + start]
  OBVIOUS
<1> HIDE DEF S, h, n
<1>4. h[0] \in S[0]
  BY <1>1, <1>2, <1>3 DEF Grows
<1>5. ASSUME NEW x \in 1..n, h[x - 1] \in S[x - 1] PROVE h[x] \in S[x]
  <2> DEFINE j == x + start
  <2>1. x \in 0..n /\ x - 1 \in 0..n /\ j \in (start + 1)..k /\ (x - 1) + start = j - 1
    BY <1>2
  <2>2. f[j - 1] \in Orders /\ f[j - 1][o] = base[o] /\ wire[j].op \in DeltaOp
    <3>1. f[j - 1] \in Orders /\ f[j - 1][o] = base[o]
      BY <1>3, <1>5, <2>1
    <3>2. j \in 1..Len(wire)
      BY <1>0, <2>1
    <3>3. wire[j] \in Sent
      BY <3>2
    <3> QED BY <3>1, <3>3 DEF Sent
  <2>3. f[j] = After(f[j - 1], wire[j].op) /\ wire[j].op.order # o
    BY <1>1, <2>1 DEF Grows
  <2> HIDE DEF j
  <2>4. f[j] \in Orders /\ f[j][o] = f[j - 1][o]
    BY <2>2, <2>3, AfterTyped
  <2> QED BY <1>3, <2>1, <2>2, <2>4 DEF j
<1>6. \A x \in 0..n : h[x] \in S[x]
  BY ONLY <1>2, <1>4, <1>5, Steps
<1>7. n \in 0..n /\ h[n] = f[k] /\ h[n] \in S[n]
  BY <1>2, <1>3, <1>6
<1> QED BY <1>1, <1>3, <1>7

-----------------------------------------------------------------------------
(* The consumer's book.                                                      *)

Changes == [order : OrderId, qty : Nat]

\* The orders a consumer holds as the changes of a batch reach it, one after the other.
Folds(acc, t, cs) ==
  /\ acc \in [0..Len(cs) -> Orders] /\ acc[0] = t
  /\ \A i \in 1..Len(cs) : acc[i] = [acc[i - 1] EXCEPT ![cs[i].order] = cs[i].qty]

\* Folded is the last of them.
LEMMA FoldedRuns ==
  ASSUME NEW t \in Orders, NEW cs \in Seq(Changes)
  PROVE  \E acc : Folds(acc, t, cs) /\ Folded(t, cs) = acc[Len(cs)]
<1> DEFINE T == Orders
           Step(b, c) == [b EXCEPT ![c.order] = c.qty]
           n == Len(cs)
           Is(g) == g = [i \in 0..n |-> IF i = 0 THEN t ELSE Step(g[i - 1], cs[i])]
           acc == CHOOSE g : Is(g)
<1>1. t \in T /\ n \in Nat /\ \A i \in 1..n : cs[i] \in Changes
  OBVIOUS
<1>2. ASSUME NEW b \in T, NEW c \in Changes PROVE Step(b, c) \in T
  <2>1. c.order \in OrderId /\ c.qty \in Nat
    BY DEF Changes
  <2> QED BY <2>1 DEF Orders
<1>3. Folded(t, cs) = acc[n]
  BY Zenon DEF Folded
<1> HIDE DEF T, Step, n
<1>4. Is(acc)
  <2> DEFINE F == [x \in T \X (1..n) |-> Step(x[1], cs[x[2]])]
  <2>1. F \in [T \X (1..n) -> T]
    BY <1>1, <1>2
  <2>2. PICK g : Runs(g, n, T, t, F)
    <3> HIDE DEF F
    <3> QED BY ONLY <1>1, <2>1, StepsExist
  <2>3. ASSUME NEW i \in 1..n PROVE g[i] = Step(g[i - 1], cs[i])
    <3>1. i - 1 \in 0..n /\ g[i - 1] \in T
      BY <1>1, <2>2 DEF Runs
    <3>2. F[<<g[i - 1], i>>] = Step(g[i - 1], cs[i])
      BY <3>1
    <3> QED BY <2>2, <3>2 DEF Runs
  <2>4. Is(g)
    <3>1. \A i \in 0..n : g[i] = IF i = 0 THEN t ELSE Step(g[i - 1], cs[i])
      BY <1>1, <2>2, <2>3 DEF Runs
    <3> QED BY <2>2, <3>1 DEF Runs
  <2> QED BY <2>4, Zenon
<1> HIDE DEF acc
<1>5. \A i \in 0..n : acc[i] \in T
  <2> DEFINE S == [i \in 0..n |-> T]
  <2>1. acc[0] \in S[0] /\ \A i \in 1..n : acc[i - 1] \in S[i - 1] => acc[i] \in S[i]
    BY <1>1, <1>2, <1>4
  <2>2. \A i \in 0..n : S[i] = T
    OBVIOUS
  <2> HIDE DEF S
  <2>3. \A i \in 0..n : acc[i] \in S[i]
    BY ONLY <1>1, <2>1, Steps
  <2> QED BY <2>2, <2>3
<1>6. acc[0] = t /\ \A i \in 1..n : acc[i] = Step(acc[i - 1], cs[i])
  BY <1>1, <1>4
<1>7. acc \in [0..n -> T]
  BY <1>4, <1>5
<1>8. Folds(acc, t, cs)
  BY <1>6, <1>7 DEF Folds, T, Step, n
<1> QED BY <1>3, <1>8 DEF n

OneMore(t, cs, c) ==
  /\ Folded(t, cs) \in Orders
  /\ Folded(t, Append(cs, c)) = [Folded(t, cs) EXCEPT ![c.order] = c.qty]

\* One more change is one more step.
LEMMA FoldedAppend ==
  ASSUME NEW t \in Orders, NEW cs \in Seq(Changes), NEW c \in Changes
  PROVE  OneMore(t, cs, c)
<1> DEFINE more == Append(cs, c)
           n == Len(cs)
<1>1. more \in Seq(Changes) /\ n \in Nat /\ Len(more) = n + 1 /\ more[n + 1] = c
      /\ \A i \in 1..n : more[i] = cs[i]
  OBVIOUS
<1>2. PICK f : Folds(f, t, cs) /\ Folded(t, cs) = f[n]
  BY FoldedRuns
<1> HIDE DEF more
<1>3. PICK g : Folds(g, t, more) /\ Folded(t, more) = g[Len(more)]
  BY <1>1, FoldedRuns
<1> HIDE DEF n
<1>4. \A i \in 0..n : g[i] = f[i]
  <2> DEFINE S == [i \in 0..n |-> {f[i]}]
  <2>0. \A i \in 0..n : S[i] = {f[i]}
    OBVIOUS
  <2> HIDE DEF S
  <2>1. g[0] \in S[0]
    BY <1>1, <1>2, <1>3, <2>0 DEF Folds
  <2>2. ASSUME NEW i \in 1..n, g[i - 1] \in S[i - 1] PROVE g[i] \in S[i]
    <3>1. i - 1 \in 0..n /\ i \in 0..n /\ i \in 1..(n + 1) /\ more[i] = cs[i]
      BY <1>1
    <3>2. g[i - 1] = f[i - 1]
      BY <2>0, <2>2, <3>1
    <3>3. g[i] = [g[i - 1] EXCEPT ![more[i].order] = more[i].qty]
      BY <1>1, <1>3, <3>1 DEF Folds
    <3>4. f[i] = [f[i - 1] EXCEPT ![cs[i].order] = cs[i].qty]
      BY <1>2 DEF Folds, n
    <3>5. g[i] = f[i]
      BY <3>1, <3>2, <3>3, <3>4, Zenon
    <3> QED BY <2>0, <3>1, <3>5
  <2>3. \A i \in 0..n : g[i] \in S[i]
    BY ONLY <1>1, <2>1, <2>2, Steps
  <2> QED BY <2>0, <2>3
<1>5. g[n + 1] = [g[n] EXCEPT ![c.order] = c.qty]
  <2> DEFINE k == n + 1
  <2>1. k \in 1..Len(more) /\ k - 1 = n /\ more[k] = c
    BY <1>1
  <2> HIDE DEF k
  <2>2. g[k] = [g[k - 1] EXCEPT ![more[k].order] = more[k].qty]
    BY <1>3, <2>1, Zenon DEF Folds
  <2>3. g[k] = [g[n] EXCEPT ![c.order] = c.qty]
    BY <2>1, <2>2, Zenon
  <2> QED BY <2>3 DEF k
<1>6. Folded(t, cs) \in Orders
  BY <1>1, <1>2 DEF Folds, n
<1>7. g[n] = f[n]
  BY <1>1, <1>4
<1>8. Folded(t, more) = [Folded(t, cs) EXCEPT ![c.order] = c.qty]
  BY <1>1, <1>2, <1>3, <1>5, <1>7, Zenon DEF n
<1> QED BY <1>6, <1>8 DEF more, OneMore

\* What a consumer makes of a batch is a population.
LEMMA FoldedTyped ==
  ASSUME NEW t \in Orders, NEW cs \in Seq(Changes)
  PROVE  Folded(t, cs) \in Orders
<1>1. PICK f : Folds(f, t, cs) /\ Folded(t, cs) = f[Len(cs)]
  BY FoldedRuns
<1> QED BY <1>1 DEF Folds

\* Nothing sent changes nothing.
LEMMA FoldedNone ==
  ASSUME NEW t \in Orders
  PROVE  Folded(t, <<>>) = t
<1> DEFINE none == <<>>
<1>1. none \in Seq(Changes) /\ Len(none) = 0
  OBVIOUS
<1> HIDE DEF none
<1>2. PICK f : Folds(f, t, none) /\ Folded(t, none) = f[Len(none)]
  BY <1>1, FoldedRuns
<1>3. Folded(t, none) = t
  BY <1>1, <1>2 DEF Folds
<1> QED BY <1>3 DEF none

-----------------------------------------------------------------------------
(* The methods of the book.                                                  *)

Buildings ==
  [id : Nat, anchor : Nat, total : Nat, received : Nat, last : Nat, orders : Orders, levels : Levels]
Books ==
  [orders : Orders, levels : Levels, synced : BOOLEAN, seq : Nat, mkt : Nat,
   building : Buildings \cup {None}, pending : [1..MaxDeltas -> Nat]]

\* A level to which q is added, or from which no more than is there is taken.
LEMMA LevelAdded ==
  ASSUME NEW l \in Levels, NEW o \in OrderId, NEW q \in Nat, NEW t \in Orders
  PROVE  /\ level_add(l, o, q) \in Levels
         /\ l = Totals(t) /\ t[o] = 0 => level_add(l, o, q) = Totals([t EXCEPT ![o] = q])
<1> DEFINE u == [t EXCEPT ![o] = q]
           v == level_add(l, o, q)
<1>0. PriceOf[o] \in Price
  BY OrderBookConstants DEF Price, Range
<1>1. v \in Levels /\ \A p \in Price : v[p] = IF p = PriceOf[o] THEN l[p] + q ELSE l[p]
  BY <1>0 DEF level_add, Levels
<1>2. ASSUME l = Totals(t), t[o] = 0 PROVE v = Totals(u)
  <2>1. ASSUME NEW p \in Price PROVE v[p] = Totals(u)[p]
    <3> HIDE DEF u, v
    <3>1. /\ Totals(t)[p] \in Nat
          /\ Totals(u)[p] = IF p = PriceOf[o] THEN Totals(t)[p] + q - t[o] ELSE Totals(t)[p]
      BY LevelMoves DEF u
    <3> QED BY <1>1, <1>2, <3>1
  <2>2. Totals(u) = [p \in Price |-> Totals(u)[p]]
    BY DEF Totals
  <2>3. v = [p \in Price |-> v[p]]
    BY <1>1 DEF Levels
  <2> HIDE DEF u, v
  <2> QED BY <2>1, <2>2, <2>3
<1> QED BY <1>1, <1>2

LEMMA LevelRemoved ==
  ASSUME NEW l \in Levels, NEW o \in OrderId, NEW q \in Nat, NEW t \in Orders, NEW r \in Nat
  PROVE  /\ level_remove(l, o, q) \in Levels
         /\ l = Totals(t) /\ t[o] = q + r => level_remove(l, o, q) = Totals([t EXCEPT ![o] = r])
<1> DEFINE u == [t EXCEPT ![o] = r]
           v == level_remove(l, o, q)
<1>0. PriceOf[o] \in Price
  BY OrderBookConstants DEF Price, Range
<1>1. /\ v \in Levels
      /\ \A p \in Price : v[p] = IF p = PriceOf[o] THEN IF l[p] > q THEN l[p] - q ELSE 0 ELSE l[p]
  BY <1>0 DEF level_remove, Levels
<1>2. ASSUME l = Totals(t), t[o] = q + r PROVE v = Totals(u)
  <2>1. ASSUME NEW p \in Price PROVE v[p] = Totals(u)[p]
    <3> HIDE DEF u, v
    <3>1. /\ Totals(t)[p] \in Nat /\ Totals(u)[p] \in Nat
          /\ Totals(u)[p] = IF p = PriceOf[o] THEN Totals(t)[p] + r - t[o] ELSE Totals(t)[p]
      BY LevelMoves DEF u
    <3> QED BY <1>1, <1>2, <3>1
  <2>2. Totals(u) = [p \in Price |-> Totals(u)[p]]
    BY DEF Totals
  <2>3. v = [p \in Price |-> v[p]]
    BY <1>1 DEF Levels
  <2> HIDE DEF u, v
  <2> QED BY <2>1, <2>2, <2>3
<1> QED BY <1>1, <1>2

\* A change of one order is reported, or there is none.
Reported(t, u, out) ==
  \/ out = <<>> /\ u = t
  \/ \E c \in Changes : out = <<c>> /\ u = [t EXCEPT ![c.order] = c.qty]

\* What a delta in sequence does to the book: an order has changed as the publisher says,
\* or the book is dropped.
Applied(b, d, r) ==
  /\ r.book \in Books /\ r.book.building = b.building /\ r.book.seq = b.seq
  /\ r.took = TRUE /\ r.out \in Seq(Changes)
  /\ r.book.synced => /\ b.synced /\ r.book.orders = After(b.orders, d)
                      /\ Reported(b.orders, r.book.orders, r.out)
  /\ r.book.synced /\ b.levels = Totals(b.orders)
     /\ (d.kind = "add" => b.orders[d.order] = 0)
     /\ (d.kind = "execute" /\ d.full => b.orders[d.order] <= d.qty)
     => r.book.levels = Totals(r.book.orders)

LEMMA AddApplied ==
  ASSUME NEW b \in Books, NEW d \in DeltaOp, d.kind = "add"
  PROVE  Applied(b, d, Add(b, d))
<1> DEFINE o == d.order
           q == d.qty
           c == [order |-> o, qty |-> q]
           u == [b.orders EXCEPT ![o] = q]
           v == level_add(b.levels, o, q)
<1>1. o \in OrderId /\ q \in Nat /\ b.orders \in Orders /\ b.levels \in Levels
  BY DEF DeltaOp, Books
<1>2. v \in Levels /\ u \in Orders /\ c \in Changes
  BY <1>1, LevelAdded DEF Orders, Changes
<1>3. After(b.orders, d) = u
  BY DEF After
<1>4. CASE Add(b, d) = Took(Dropped(b), <<>>)
  <2> DEFINE f == Dropped(b)
  <2>1. f \in Books /\ f.synced = FALSE /\ f.building = b.building /\ f.seq = b.seq
    BY LevelsEmpty DEF Dropped, Books
  <2> HIDE DEF f
  <2>2. /\ Add(b, d).book = f /\ Add(b, d).took = TRUE /\ Add(b, d).out = <<>>
        /\ Add(b, d).out \in Seq(Changes)
    BY <1>4 DEF Took, f
  <2> QED BY <2>1, <2>2 DEF Applied
<1>5. CASE Add(b, d) = Took([b EXCEPT !.orders[o] = q, !.levels = v], Change(o, q))
  <2> DEFINE f == [b EXCEPT !.orders[o] = q, !.levels = v]
  <2>1. f \in Books /\ f.orders = u /\ f.levels = v /\ f.synced = b.synced /\ f.building = b.building /\ f.seq = b.seq
    <3> HIDE DEF v, o, q
    <3> QED BY <1>1, <1>2 DEF Books
  <2> HIDE DEF f
  <2>2. Add(b, d).book = f /\ Add(b, d).took = TRUE /\ Add(b, d).out = <<c>> /\ <<c>> \in Seq(Changes)
    <3> HIDE DEF o, q
    <3> QED BY <1>2, <1>5 DEF Took, f, Change
  <2>3. Reported(b.orders, u, <<c>>)
    BY <1>2 DEF Reported
  <2>4. b.levels = Totals(b.orders) /\ b.orders[o] = 0 => v = Totals(u)
    BY <1>1, LevelAdded
  <2> HIDE DEF c, u, v
  <2> QED BY <1>3, <2>1, <2>2, <2>3, <2>4 DEF Applied
<1> QED BY <1>4, <1>5 DEF Add

LEMMA CancelApplied ==
  ASSUME NEW b \in Books, NEW d \in DeltaOp, d.kind = "cancel"
  PROVE  Applied(b, d, Cancel(b, d))
<1> DEFINE o == d.order
           c == [order |-> o, qty |-> 0]
           u == [b.orders EXCEPT ![o] = 0]
           v == level_remove(b.levels, o, b.orders[o])
<1>1. o \in OrderId /\ b.orders \in Orders /\ b.levels \in Levels /\ b.orders[o] \in Nat
  BY DEF DeltaOp, Books, Orders
<1>2. v \in Levels /\ u \in Orders /\ c \in Changes
  BY <1>1, LevelRemoved DEF Orders, Changes
<1>3. After(b.orders, d) = u
  BY DEF After
<1>4. CASE b.orders[o] = 0
  <2>1. Cancel(b, d).book = b /\ Cancel(b, d).took = TRUE /\ Cancel(b, d).out = <<>> /\ <<>> \in Seq(Changes)
    BY <1>4 DEF Cancel, Took
  <2>2. u = b.orders
    BY <1>1, <1>4 DEF Orders
  <2> QED BY <1>3, <2>1, <2>2 DEF Applied, Reported
<1>5. CASE b.orders[o] # 0
  <2> DEFINE f == Fill(b, o, b.orders[o], 0)
  <2>1. f \in Books /\ f.orders = u /\ f.levels = v /\ f.synced = b.synced /\ f.building = b.building /\ f.seq = b.seq
    <3> HIDE DEF v, o
    <3> QED BY <1>1, <1>2 DEF Books, Fill, v
  <2> HIDE DEF f
  <2>2. /\ Cancel(b, d).book = f /\ Cancel(b, d).took = TRUE /\ Cancel(b, d).out = <<c>>
        /\ <<c>> \in Seq(Changes)
    <3>1. Cancel(b, d) = Took(f, Change(o, 0))
      BY <1>5 DEF Cancel, f
    <3> QED BY <1>2, <3>1 DEF Took, Change
  <2>3. Reported(b.orders, u, <<c>>)
    BY <1>2 DEF Reported
  <2>4. b.levels = Totals(b.orders) => v = Totals(u)
    BY <1>1, LevelRemoved
  <2> HIDE DEF c, u, v
  <2> QED BY <1>3, <2>1, <2>2, <2>3, <2>4 DEF Applied
<1> QED BY <1>4, <1>5

\* The smaller of two.
LEMMA Smallest ==
  ASSUME NEW x \in Nat, NEW y \in Nat
  PROVE  Min({x, y}) = IF x <= y THEN x ELSE y
<1>1. \E z \in {x, y} : \A w \in {x, y} : z <= w
  OBVIOUS
<1>2. Min({x, y}) \in {x, y} /\ \A w \in {x, y} : Min({x, y}) <= w
  BY <1>1 DEF Min
<1> QED BY <1>2

LEMMA ExecuteApplied ==
  ASSUME NEW b \in Books, NEW d \in DeltaOp, d.kind = "execute"
  PROVE  Applied(b, d, Execute(b, d))
<1> DEFINE o == d.order
           x == b.orders[o]
           filled == Min({d.qty, x})
           rest == IF d.full THEN 0 ELSE x - filled
           c == [order |-> o, qty |-> rest]
           u == [b.orders EXCEPT ![o] = rest]
           v == level_remove(b.levels, o, filled)
<1>1. o \in OrderId /\ b.orders \in Orders /\ b.levels \in Levels /\ x \in Nat /\ d.qty \in Nat
  BY DEF DeltaOp, Books, Orders
<1>2. filled = IF d.qty <= x THEN d.qty ELSE x
  BY <1>1, Smallest
<1> HIDE DEF filled
<1>3. filled \in Nat /\ rest \in Nat /\ rest = (IF d.full \/ x <= d.qty THEN 0 ELSE x - d.qty)
  <2> HIDE DEF x, o
  <2> QED BY <1>1, <1>2
<1>4. v \in Levels /\ u \in Orders /\ c \in Changes
  <2> HIDE DEF rest
  <2> QED BY <1>1, <1>3, LevelRemoved DEF Orders, Changes
<1>5. After(b.orders, d) = u
  <2> HIDE DEF rest
  <2>1. After(b.orders, d) = [b.orders EXCEPT ![o] = IF d.full \/ x <= d.qty THEN 0 ELSE x - d.qty]
    BY DEF After
  <2> QED BY <1>3, <2>1
<1>6. CASE x = 0
  <2>1. /\ Execute(b, d).book = b /\ Execute(b, d).took = TRUE /\ Execute(b, d).out = <<>>
        /\ <<>> \in Seq(Changes)
    BY <1>6 DEF Execute, Took
  <2>2. rest = 0
    <3> HIDE DEF x
    <3> QED BY <1>1, <1>3, <1>6
  <2> HIDE DEF rest
  <2>3. u = b.orders
    BY <1>1, <1>6, <2>2 DEF Orders
  <2> QED BY <1>5, <2>1, <2>3 DEF Applied, Reported
<1>7. CASE x # 0
  <2>0. Execute(b, d) = Took(Fill(b, o, filled, rest), Change(o, rest))
    BY <1>7 DEF Execute, filled
  <2> DEFINE f == Fill(b, o, filled, rest)
  <2> HIDE DEF rest
  <2>1. f \in Books /\ f.orders = u /\ f.levels = v /\ f.synced = b.synced /\ f.building = b.building /\ f.seq = b.seq
    <3> HIDE DEF v, o
    <3> QED BY <1>1, <1>4 DEF Books, Fill, v
  <2> HIDE DEF f
  <2>2. /\ Execute(b, d).book = f /\ Execute(b, d).took = TRUE /\ Execute(b, d).out = <<c>>
        /\ <<c>> \in Seq(Changes)
    BY <1>4, <2>0 DEF Took, Change, f
  <2>3. Reported(b.orders, u, <<c>>)
    BY <1>4 DEF Reported
  <2>4. b.levels = Totals(b.orders) /\ (d.full => x <= d.qty) => v = Totals(u)
    <3>1. ASSUME d.full => x <= d.qty PROVE x = filled + rest
      <4> HIDE DEF x
      <4> QED BY <1>1, <1>2, <1>3, <3>1 DEF rest
    <3> HIDE DEF x
    <3> QED BY <1>1, <1>3, <3>1, LevelRemoved DEF x
  <2> HIDE DEF c, u, v
  <2> QED BY <1>5, <2>1, <2>2, <2>3, <2>4 DEF Applied
<1> QED BY <1>6, <1>7

\* One delta.
LEMMA DeltaApplied ==
  ASSUME NEW b \in Books, NEW d \in DeltaOp
  PROVE  Applied(b, d, apply(b, d))
<1>1. d.kind \in {"add", "cancel", "execute"}
  BY DEF DeltaOp
<1>2. CASE d.kind = "add"
  <2>1. apply(b, d) = Add(b, d)
    BY <1>2 DEF apply
  <2> QED BY <1>2, <2>1, AddApplied
<1>3. CASE d.kind = "cancel"
  <2>1. apply(b, d) = Cancel(b, d)
    BY <1>3 DEF apply
  <2> QED BY <1>3, <2>1, CancelApplied
<1>4. CASE d.kind = "execute"
  <2>1. apply(b, d) = Execute(b, d)
    BY <1>4 DEF apply
  <2> QED BY <1>4, <2>1, ExecuteApplied
<1> QED BY <1>1, <1>2, <1>3, <1>4

-----------------------------------------------------------------------------
(* The publisher, and what the book has of it.                               *)

Epochs == [base : Orders, start : Nat, anchor : Nat]
Snaps == [id : Nat, anchor : Nat, orders : Orders, total : Nat, last : Nat, epoch : Nat]

PubType ==
  /\ sent \in Seq(Sent) /\ Len(sent) <= MaxDeltas /\ chan \in Nat /\ src \in SourceId
  /\ epochs \in Seq(Epochs) /\ Len(epochs) > 0 /\ snaps \in Seq(Snaps) /\ heard \in 1..Len(epochs)
  /\ \A e \in 1..Len(epochs) : epochs[e].start <= Len(sent)

\* Delta k, seen from epoch e: an order is added where none is, and a full fill is of no
\* less than what rests, unless a reset came in between.
Sensible(e, k) ==
  LET d == sent[k].op
      q == Truth(e, k - 1)[d.order]
  IN  /\ d.kind = "add" => q = 0
      /\ d.kind = "execute" /\ d.full => Crossed(e, k) \/ q <= d.qty

\* Rotation s is the publisher's book as it was.
Rotation(s) ==
  LET x == snaps[s]
  IN  /\ x.id = s /\ x.epoch \in 1..Len(epochs) /\ x.last \in epochs[x.epoch].start..Len(sent)
      /\ x.orders = Truth(x.epoch, x.last) /\ x.total = Cardinality(Resting(x.orders))
      /\ ~Crossed(x.epoch, x.last)

PubInv ==
  /\ PubType
  /\ \A k \in 1..Len(sent), e \in 1..Len(epochs) : epochs[e].start < k => Sensible(e, k)
  /\ \A s \in 1..Len(snaps) : Rotation(s)

\* Book b is what epoch e's became.
Matches(b, e) ==
  /\ e \in 1..Len(epochs) /\ b.seq \in epochs[e].start..Len(sent) /\ b.orders = Truth(e, b.seq)
  /\ Crossed(e, b.seq) \/ b.levels = Totals(b.orders)

\* A delta leaves a synced book with what it changed, or unsynced.
Moved(b, r) ==
  /\ r.book \in Books /\ r.book.building = b.building /\ r.out \in Seq(Changes)
  /\ r.book.synced => /\ b.synced /\ Reported(b.orders, r.book.orders, r.out)
                      /\ r.took \/ (r.book.orders = b.orders /\ r.book.levels = b.levels /\ r.out = <<>>)

\* A delta in sequence, of before, or past a gap.
LEMMA RecoverMoves ==
  ASSUME PubType, NEW b \in Books, NEW k \in 1..Len(sent)
  PROVE  Moved(b, apply_or_recover(b, k, sent))
<1> DEFINE r == apply_or_recover(b, k, sent)
<1>0. b.seq \in Nat /\ k \in Nat /\ sent[k] \in Sent /\ k \in 1..MaxDeltas /\ MaxDeltas \in Nat
  BY OrderBookConstants DEF Books, PubType
<1>1. CASE k <= b.seq
  <2>1. r = Left(b)
    BY <1>0, <1>1 DEF apply_or_recover
  <2>2. r.book = b /\ r.out = <<>> /\ r.out \in Seq(Changes)
    BY <2>1 DEF Left
  <2> QED BY <2>2 DEF Moved, Reported
<1>2. CASE k > b.seq + 1
  <2> DEFINE f == [b EXCEPT !.synced = FALSE, !.pending = [NoPending EXCEPT ![k] = 1]]
  <2>1. r = Left(f)
    BY <1>0, <1>2 DEF apply_or_recover
  <2>2. [NoPending EXCEPT ![k] = 1] \in [1..MaxDeltas -> Nat]
    BY <1>0 DEF NoPending
  <2>3. f \in Books /\ f.building = b.building /\ f.synced = FALSE
    BY <2>2 DEF Books
  <2> HIDE DEF f
  <2>4. r.book = f /\ r.out = <<>> /\ r.out \in Seq(Changes)
    BY <2>1 DEF Left
  <2> QED BY <2>3, <2>4 DEF Moved
<1>3. CASE k = b.seq + 1
  <2> DEFINE f == [b EXCEPT !.seq = k, !.mkt = sent[k].mkt]
             d == sent[k].op
  <2>1. r = apply(f, d)
    BY <1>0, <1>3 DEF apply_or_recover
  <2>2. f \in Books /\ f.building = b.building /\ f.synced = b.synced /\ f.orders = b.orders /\ d \in DeltaOp
    BY <1>0 DEF Books, Sent
  <2> HIDE DEF f, d
  <2>3. Applied(f, d, r)
    BY <2>1, <2>2, DeltaApplied
  <2> HIDE DEF r
  <2>4. r.took
    BY <2>3, Zenon DEF Applied
  <2>5. r.book.synced => b.synced /\ Reported(b.orders, r.book.orders, r.out)
    BY <2>2, <2>3, Zenon DEF Applied
  <2>6. r.book \in Books /\ r.book.building = b.building /\ r.out \in Seq(Changes)
    BY <2>2, <2>3, Zenon DEF Applied
  <2> QED BY <2>4, <2>5, <2>6, Zenon DEF Moved, r
<1> QED BY <1>0, <1>1, <1>2, <1>3

\* A synced book stays the publisher's.
LEMMA RecoverMatches ==
  ASSUME PubInv, NEW b \in Books, b.synced, NEW e, Matches(b, e), NEW k \in 1..Len(sent),
         apply_or_recover(b, k, sent).book.synced
  PROVE  Matches(apply_or_recover(b, k, sent).book, e)
<1> DEFINE r == apply_or_recover(b, k, sent)
<1>0. b.seq \in Nat /\ k \in Nat /\ sent[k] \in Sent /\ Len(sent) \in Nat /\ PubType
  BY DEF Books, PubInv, PubType
<1>1. CASE k <= b.seq
  <2>1. r.book = b
    BY <1>0, <1>1 DEF apply_or_recover, Left
  <2> QED BY <2>1
<1>2. CASE k > b.seq + 1
  <2>1. r.book.synced = FALSE
    BY <1>0, <1>2 DEF apply_or_recover, Left, Books
  <2> QED BY <2>1
<1>3. CASE k = b.seq + 1
  <2> DEFINE f == [b EXCEPT !.seq = k, !.mkt = sent[k].mkt]
             d == sent[k].op
             start == epochs[e].start
             base == epochs[e].base
             j == b.seq
  <2>1. r = apply(f, d)
    BY <1>0, <1>3 DEF apply_or_recover
  <2>2. /\ f \in Books /\ f.seq = k /\ f.synced = b.synced /\ f.orders = b.orders /\ f.levels = b.levels
        /\ d \in DeltaOp
    BY <1>0 DEF Books, Sent
  <2>3. Applied(f, d, r)
    <3> HIDE DEF f, d, r
    <3> QED BY <2>1, <2>2, DeltaApplied
  <2>4. e \in 1..Len(epochs) /\ j \in start..Len(sent) /\ epochs[e] \in Epochs
    BY <1>0 DEF Matches, PubType
  <2>5. start \in Nat /\ base \in Orders /\ start < k /\ k - 1 = j /\ j < Len(sent) /\ k \in start..Len(sent)
    BY <1>0, <1>3, <2>4 DEF Epochs
  <2>6. Truth(e, k) = After(Truth(e, j), d)
    <3> HIDE DEF start, base, j
    <3>1. Grown(base, start, sent, j + 1) = After(Grown(base, start, sent, j), sent[j + 1].op)
      BY <1>0, <2>4, <2>5, GrownNext DEF PubType
    <3>2. j + 1 = k
      BY <1>3 DEF j
    <3> QED BY <3>1, <3>2, Zenon DEF Truth, start, base
  <2>7. b.orders = Truth(e, j)
    BY DEF Matches
  <2>8. r.book.orders = Truth(e, k) /\ r.book.seq = k
    BY <2>2, <2>3, <2>6, <2>7 DEF Applied
  <2>9. Crossed(e, j) => Crossed(e, k)
    <3>1. ASSUME NEW g \in DOMAIN epochs, g > e, epochs[g].start < j PROVE epochs[g].start < k
      <4>1. epochs[g] \in Epochs
        BY <1>0 DEF PubType
      <4>2. epochs[g].start \in Nat
        BY <4>1 DEF Epochs
      <4> QED BY <1>0, <1>3, <3>1, <4>2
    <3> HIDE DEF j
    <3> QED BY <3>1 DEF Crossed
  <2>10. Sensible(e, k)
    BY <2>4, <2>5 DEF PubInv
  <2>11. ASSUME ~Crossed(e, k) PROVE r.book.levels = Totals(r.book.orders)
    <3>1. b.levels = Totals(b.orders)
      BY <2>9, <2>11 DEF Matches
    <3>2. d.kind = "add" => b.orders[d.order] = 0
      BY <2>5, <2>7, <2>10 DEF Sensible
    <3>3. d.kind = "execute" /\ d.full => b.orders[d.order] <= d.qty
      BY <2>5, <2>7, <2>10, <2>11 DEF Sensible
    <3> HIDE DEF f, d, r
    <3> QED BY <2>2, <2>3, <3>1, <3>2, <3>3 DEF Applied, r
  <2> HIDE DEF r
  <2>12. Matches(r.book, e)
    BY <2>4, <2>5, <2>8, <2>11 DEF Matches
  <2> QED BY <2>12 DEF r
<1> QED BY <1>0, <1>1, <1>2, <1>3

\* on_delta_reporting: a book that is not synced keeps the delta, or has no room for it.
LEMMA DeltaMoves ==
  ASSUME PubType, NEW b \in Books, NEW k \in 1..Len(sent)
  PROVE  Moved(b, on_delta_reporting(b, k, sent))
<1> DEFINE r == on_delta_reporting(b, k, sent)
<1>1. CASE b.synced
  <2>1. r = apply_or_recover(b, k, sent)
    BY <1>1 DEF on_delta_reporting
  <2> QED BY <2>1, RecoverMoves
<1>2. CASE ~b.synced
  <2>0. k \in 1..MaxDeltas /\ b.pending \in [1..MaxDeltas -> Nat]
    BY OrderBookConstants DEF PubType, Books
  <2>1. PICK f \in {b, [b EXCEPT !.pending[k] = b.pending[k] + 1]} : r = Left(f)
    BY <1>2 DEF on_delta_reporting
  <2>2. f \in Books /\ f.building = b.building /\ f.synced = b.synced
    <3> DEFINE c == [b.pending EXCEPT ![k] = b.pending[k] + 1]
    <3>1. c \in [1..MaxDeltas -> Nat]
      <4> DEFINE q == b.pending
                 D == 1..MaxDeltas
      <4>1. k \in D /\ q \in [D -> Nat]
        BY <2>0
      <4> HIDE DEF q, D
      <4>2. [q EXCEPT ![k] = q[k] + 1] \in [D -> Nat]
        BY <4>1
      <4> QED BY <4>2 DEF q, D
    <3>2. f = b \/ f = [b EXCEPT !.pending = c]
      BY <2>1
    <3> HIDE DEF c
    <3> QED BY <3>1, <3>2 DEF Books
  <2>3. r.book = f /\ r.out = <<>> /\ r.out \in Seq(Changes)
    BY <2>1 DEF Left
  <2> HIDE DEF r
  <2>4. ~r.book.synced
    BY <1>2, <2>2, <2>3
  <2>5. Moved(b, r)
    BY <2>2, <2>3, <2>4, Zenon DEF Moved
  <2> QED BY <2>5 DEF r
<1> QED BY <1>1, <1>2

LEMMA DeltaMatches ==
  ASSUME PubInv, NEW b \in Books, NEW e, Matches(b, e), NEW k \in 1..Len(sent),
         on_delta_reporting(b, k, sent).book.synced
  PROVE  Matches(on_delta_reporting(b, k, sent).book, e)
<1>0. PubType
  BY DEF PubInv
<1>1. b.synced
  <2>1. Moved(b, on_delta_reporting(b, k, sent))
    BY <1>0, DeltaMoves
  <2> QED BY <2>1, Zenon DEF Moved
<1>2. on_delta_reporting(b, k, sent) = apply_or_recover(b, k, sent)
  BY <1>1 DEF on_delta_reporting
<1> QED BY <1>1, <1>2, RecoverMatches

-----------------------------------------------------------------------------
(* The processor.                                                            *)

Memos == [revealed : SourceId \cup {None}, reported : BOOLEAN \cup {None}, recent : BOOLEAN,
          top : Levels \cup {None}, defined : BOOLEAN]
Shows == [synced : BOOLEAN \cup {None}, orders : Orders \cup {None}, depth : Levels \cup {None}]
Logs == [open : BOOLEAN, live : BOOLEAN, bare : SUBSET SourceId, unshown : SUBSET SourceId,
         evicted : BOOLEAN]
Modes == {"delta", "clear", "rebaseline"}
Outcomes ==
  [book : Books, mbo : Memos, told : [SourceId -> Shows], log : Logs,
   touched : BOOLEAN, changed : BOOLEAN, mode : Modes, out : Seq(Changes)]

\* What set_synced leaves alone.
Alike(h, r) ==
  /\ r.book = h.book /\ r.log = h.log /\ r.touched = h.touched /\ r.changed = h.changed
  /\ r.mode = h.mode /\ r.out = h.out
  /\ r.mbo.revealed = h.mbo.revealed /\ r.mbo.top = h.mbo.top /\ r.mbo.defined = h.mbo.defined
  /\ r.mbo.recent = h.mbo.recent
  /\ \A s \in SourceId : r.told[s].orders = h.told[s].orders /\ r.told[s].depth = h.told[s].depth
  /\ \A s \in SourceId : s # h.mbo.revealed => r.told[s] = h.told[s]

\* The sync state is told under the Source ID in use, or was already.
LEMMA SyncedSet ==
  ASSUME NEW h \in Outcomes, NEW v \in BOOLEAN, NEW r, r = set_synced(h, v)
  PROVE  /\ r \in Outcomes /\ Alike(h, r)
         /\ h.mbo.revealed # None =>
              /\ r.mbo.reported = v
              /\ \/ r.told[h.mbo.revealed].synced = v
                 \/ h.mbo.reported = v /\ r.told = h.told
         /\ h.mbo.revealed = None => r = h
<1> DEFINE s == h.mbo.revealed
<1>1. CASE s = None \/ h.mbo.reported = v
  <2>1. r = h
    BY <1>1 DEF set_synced
  <2> QED BY <1>1, <2>1 DEF Alike
<1>2. CASE ~(s = None \/ h.mbo.reported = v)
  <2>0. s \in SourceId /\ h.mbo \in Memos /\ h.told \in [SourceId -> Shows]
    BY <1>2 DEF Outcomes, Memos
  <2> DEFINE m == [h.mbo EXCEPT !.reported = v]
             t == [h.told EXCEPT ![s].synced = v]
  <2>1. r = [h EXCEPT !.mbo = m, !.told = t]
    BY <1>2 DEF set_synced, Outcomes
  <2>2. /\ m \in Memos /\ m.revealed = s /\ m.reported = v /\ m.top = h.mbo.top /\ m.defined = h.mbo.defined
        /\ m.recent = h.mbo.recent
    BY <2>0 DEF Memos
  <2>3. /\ t \in [SourceId -> Shows] /\ t[s].synced = v
        /\ \A x \in SourceId : t[x].orders = h.told[x].orders /\ t[x].depth = h.told[x].depth
        /\ \A x \in SourceId : x # s => t[x] = h.told[x]
    BY <2>0 DEF Shows
  <2> HIDE DEF m, t
  <2>4. r \in Outcomes
    BY <2>1, <2>2, <2>3 DEF Outcomes
  <2>5. Alike(h, r)
    BY <2>1, <2>2, <2>3 DEF Alike, Outcomes
  <2>6. r.mbo = m /\ r.told = t
    BY <2>1 DEF Outcomes
  <2> QED BY <1>2, <2>2, <2>3, <2>4, <2>5, <2>6
<1> QED BY <1>1, <1>2

\* The depth is that of the book.
LEMMA DepthEmitted ==
  ASSUME NEW h \in Outcomes, h.mbo.revealed # None, NEW r, r = emit_depth(h),
         h.mbo.top # None => h.told[h.mbo.revealed].depth = h.mbo.top
  PROVE  /\ r \in Outcomes /\ r.book = h.book /\ r.log = h.log /\ r.mode = h.mode /\ r.out = h.out
         /\ r.mbo.revealed = h.mbo.revealed /\ r.mbo.reported = h.mbo.reported
         /\ r.mbo.top = h.book.levels /\ r.told[h.mbo.revealed].depth = h.book.levels
         /\ \A x \in SourceId : r.told[x].orders = h.told[x].orders /\ r.told[x].synced = h.told[x].synced
<1> DEFINE s == h.mbo.revealed
           l == h.book.levels
<1>0. /\ s \in SourceId /\ l \in Levels /\ h.mbo \in Memos /\ h.told \in [SourceId -> Shows] /\ l # None
  BY MboConstants DEF Outcomes, Memos, Books, Levels
<1>1. CASE h.mbo.top = l
  <2>1. r = h
    BY <1>1 DEF emit_depth
  <2> QED BY <1>0, <1>1, <2>1
<1>2. CASE h.mbo.top # l
  <2> DEFINE m == [h.mbo EXCEPT !.top = l]
             t == [h.told EXCEPT ![s].depth = l]
  <2>1. r = [h EXCEPT !.mbo = m, !.told = t]
    BY <1>2 DEF emit_depth, Outcomes
  <2> HIDE DEF l
  <2>2. m \in Memos /\ m.revealed = s /\ m.reported = h.mbo.reported /\ m.top = l
    BY <1>0 DEF Memos
  <2>3. /\ t \in [SourceId -> Shows] /\ t[s].depth = l
        /\ \A x \in SourceId : t[x].orders = h.told[x].orders /\ t[x].synced = h.told[x].synced
    BY <1>0 DEF Shows
  <2> HIDE DEF m, t
  <2>4. r \in Outcomes
    BY <2>1, <2>2, <2>3 DEF Outcomes
  <2>5. r.mbo = m /\ r.told = t /\ r.book = h.book /\ r.log = h.log /\ r.mode = h.mode /\ r.out = h.out
    BY <2>1 DEF Outcomes
  <2> QED BY <2>2, <2>3, <2>4, <2>5 DEF l
<1> QED BY <1>1, <1>2

\* What a batch leaves alone.
Beside(h, r) ==
  /\ r \in Outcomes /\ r.book = h.book /\ r.mbo = h.mbo
  /\ r.log.open = h.log.open /\ r.log.live = h.log.live /\ r.log.evicted = h.log.evicted
  /\ \A x \in SourceId : r.told[x].synced = h.told[x].synced /\ r.told[x].depth = h.told[x].depth

\* The whole book, a bare clear, or the changes.
LEMMA BookEmitted ==
  ASSUME NEW h \in Outcomes, NEW s \in SourceId, s = h.mbo.revealed, NEW r, r = emit_book(h)
  PROVE  /\ Beside(h, r)
         /\ h.mode = "rebaseline" => r.told[s].orders = h.book.orders
         /\ h.mode = "clear" => s \in r.log.bare
         /\ h.mode = "delta" => r.log = h.log
         /\ h.mode = "delta" /\ h.told[s].orders # None => r.told[s].orders = Folded(h.told[s].orders, h.out)
<1>0. /\ h.book.orders \in Orders /\ h.log \in Logs /\ h.told \in [SourceId -> Shows] /\ h.mode \in Modes
      /\ Empty \in Orders /\ h.out \in Seq(Changes)
  BY LevelsEmpty DEF Outcomes, Books
<1>1. CASE h.mode = "rebaseline"
  <2> DEFINE t == [h.told EXCEPT ![s].orders = h.book.orders]
             g == [h.log EXCEPT !.bare = h.log.bare \ {s}, !.unshown = h.log.unshown \ {s}]
  <2>1. r = [h EXCEPT !.told = t, !.log = g]
    BY <1>1 DEF emit_book, Outcomes
  <2>2. /\ t \in [SourceId -> Shows] /\ t[s].orders = h.book.orders
        /\ \A x \in SourceId : t[x].synced = h.told[x].synced /\ t[x].depth = h.told[x].depth
    BY <1>0 DEF Shows
  <2>3. g \in Logs /\ g.open = h.log.open /\ g.live = h.log.live /\ g.evicted = h.log.evicted
    BY <1>0 DEF Logs
  <2> HIDE DEF t, g
  <2>4. r \in Outcomes /\ r.told = t /\ r.log = g /\ r.book = h.book /\ r.mbo = h.mbo
    BY <2>1, <2>2, <2>3 DEF Outcomes
  <2> QED BY <1>1, <2>2, <2>3, <2>4 DEF Beside
<1>2. CASE h.mode = "clear"
  <2> DEFINE t == [h.told EXCEPT ![s].orders = Empty]
             g == [h.log EXCEPT !.bare = h.log.bare \cup {s}]
  <2>1. r = [h EXCEPT !.told = t, !.log = g]
    BY <1>2 DEF emit_book, Outcomes
  <2>2. /\ t \in [SourceId -> Shows]
        /\ \A x \in SourceId : t[x].synced = h.told[x].synced /\ t[x].depth = h.told[x].depth
    BY <1>0 DEF Shows
  <2>3. /\ g \in Logs /\ g.open = h.log.open /\ g.live = h.log.live /\ g.evicted = h.log.evicted
        /\ s \in g.bare
    BY <1>0 DEF Logs
  <2> HIDE DEF t, g
  <2>4. r \in Outcomes /\ r.told = t /\ r.log = g /\ r.book = h.book /\ r.mbo = h.mbo
    BY <2>1, <2>2, <2>3 DEF Outcomes
  <2> QED BY <1>2, <2>2, <2>3, <2>4 DEF Beside
<1>3. CASE h.mode = "delta" /\ h.told[s].orders = None
  <2>1. r = h
    BY <1>3 DEF emit_book
  <2> QED BY <1>3, <2>1 DEF Beside
<1>4. CASE h.mode = "delta" /\ h.told[s].orders # None
  <2> DEFINE f == Folded(h.told[s].orders, h.out)
             t == [h.told EXCEPT ![s].orders = f]
  <2>0. h.told[s].orders \in Orders
    BY <1>0, <1>4 DEF Shows
  <2>1. f \in Orders
    BY <1>0, <2>0, FoldedTyped
  <2>2. r = [h EXCEPT !.told = t]
    BY <1>4 DEF emit_book, Outcomes
  <2> HIDE DEF f
  <2>3. /\ t \in [SourceId -> Shows] /\ t[s].orders = f
        /\ \A x \in SourceId : t[x].synced = h.told[x].synced /\ t[x].depth = h.told[x].depth
    BY <1>0, <2>1 DEF Shows
  <2> HIDE DEF t
  <2>4. r \in Outcomes /\ r.told = t /\ r.log = h.log /\ r.book = h.book /\ r.mbo = h.mbo
    BY <2>2, <2>3 DEF Outcomes
  <2> QED BY <1>4, <2>3, <2>4 DEF Beside, f
<1> QED BY <1>0, <1>1, <1>2, <1>3, <1>4 DEF Modes

-----------------------------------------------------------------------------
(* What is shown.                                                            *)

\* last_top is the depth shown under the Source ID in use.
Tops(h) == h.mbo.top # None => h.mbo.revealed # None /\ h.told[h.mbo.revealed].depth = h.mbo.top

\* The path is healthy only under the Source ID in use, and then the processor remembers it.
Loud(h) == {s \in SourceId : h.told[s].synced = TRUE}
Voices(h) == h.log.evicted \/ \A s \in Loud(h) : s = h.mbo.revealed /\ h.mbo.reported = TRUE

\* It is healthy only while the book is synced.
Quiet(h) == h.log.evicted \/ h.book.synced \/ Loud(h) = {}

\* The orders and the depth shown are those of the synced book.
Displays(h) ==
  LET s == h.mbo.revealed IN
  s # None /\ h.book.synced =>
    /\ s \notin h.log.bare \cup h.log.unshown => h.told[s].orders = h.book.orders
    /\ s \notin h.log.unshown => h.told[s].depth = h.book.levels

Shown(h) == Tops(h) /\ Voices(h) /\ Quiet(h) /\ Displays(h)

\* The changes a datagram owes turn what is shown into the book, unless the whole book is
\* owed, or a clear.
Owed(h) ==
  LET s == h.mbo.revealed IN
  /\ h.changed /\ s # None /\ h.book.synced /\ h.mode = "delta" /\ s \notin h.log.bare \cup h.log.unshown
       => h.told[s].orders # None /\ Folded(h.told[s].orders, h.out) = h.book.orders
  /\ ~h.changed => Displays(h)

\* An outcome that can be published.
Ready(h) ==
  /\ h \in Outcomes /\ Tops(h) /\ Voices(h) /\ (h.touched \/ Quiet(h))
  /\ (h.changed => h.mbo.defined) /\ Owed(h)

\* What publishing leaves alone.
Kept(h, r) ==
  /\ r \in Outcomes /\ r.book = h.book /\ r.mbo.revealed = h.mbo.revealed
  /\ r.log.open = h.log.open /\ r.log.live = h.log.live /\ r.log.evicted = h.log.evicted

\* The sync state goes out first.
LEMMA SyncedShown ==
  ASSUME NEW h, Ready(h), NEW r, r = IF h.touched THEN set_synced(h, h.book.synced) ELSE h
  PROVE  r \in Outcomes /\ Alike(h, r) /\ Tops(r) /\ Voices(r) /\ Quiet(r)
<1>0. h \in Outcomes /\ Tops(h) /\ Voices(h)
  BY DEF Ready
<1>1. CASE ~h.touched
  <2>1. r = h /\ Quiet(h)
    BY <1>1, Zenon DEF Ready
  <2> QED BY <1>0, <2>1 DEF Alike
<1>2. CASE h.touched
  <2> DEFINE v == h.book.synced
             s == h.mbo.revealed
  <2>1. v \in BOOLEAN
    BY <1>0 DEF Outcomes, Books
  <2>2. r = set_synced(h, v)
    BY <1>2, Zenon
  <2> HIDE DEF v
  <2>3. /\ r \in Outcomes /\ Alike(h, r)
        /\ s # None => /\ r.mbo.reported = v
                       /\ r.told[s].synced = v \/ (h.mbo.reported = v /\ r.told = h.told)
        /\ s = None => r = h
    BY <1>0, <2>1, <2>2, SyncedSet
  <2>4. Tops(r)
    <3>1. s \in SourceId \cup {None}
      BY <1>0 DEF Outcomes, Memos
    <3> QED BY <1>0, <2>3, <3>1 DEF Tops, Alike
  <2>5. ASSUME ~h.log.evicted, NEW x \in SourceId, r.told[x].synced = TRUE
        PROVE  x = s /\ r.mbo.reported = TRUE /\ v = TRUE
    <3>1. CASE s = None
      <4>1. r = h
        BY <2>3, <3>1
      <4>2. x \in Loud(h)
        BY <2>5, <4>1 DEF Loud
      <4>3. x = s
        BY <1>0, <2>5, <4>2 DEF Voices
      <4> QED BY <3>1, <4>3, MboConstants
    <3>2. CASE s # None /\ x # s
      <4>1. r.told[x] = h.told[x]
        BY <2>3, <3>2 DEF Alike
      <4>2. x \in Loud(h)
        BY <2>5, <4>1 DEF Loud
      <4> QED BY <1>0, <2>5, <3>2, <4>2 DEF Voices
    <3>3. CASE s # None /\ x = s
      <4>1. CASE r.told[s].synced = v
        BY <2>3, <2>5, <3>3, <4>1
      <4>2. CASE h.mbo.reported = v /\ r.told = h.told
        <5>1. x \in Loud(h)
          BY <2>5, <4>2 DEF Loud
        <5>2. h.mbo.reported = TRUE
          BY <1>0, <2>5, <5>1 DEF Voices
        <5> QED BY <2>3, <3>3, <4>2, <5>2
      <4> QED BY <2>3, <3>3, <4>1, <4>2
    <3> QED BY <3>1, <3>2, <3>3
  <2>6. r.log.evicted = h.log.evicted /\ r.book.synced = v /\ r.mbo.revealed = s
    BY <2>3 DEF Alike, v
  <2>7. Voices(r)
    BY <2>5, <2>6 DEF Voices, Loud
  <2>8. Quiet(r)
    BY <2>5, <2>6 DEF Quiet, Loud
  <2> QED BY <2>3, <2>4, <2>7, <2>8
<1> QED BY <1>1, <1>2

\* The end of a datagram.
LEMMA PublishedShows ==
  ASSUME NEW h, Ready(h), NEW p, p = Published(h)
  PROVE  Kept(h, p) /\ Shown(p)
<1> DEFINE r == IF h.touched THEN set_synced(h, h.book.synced) ELSE h
           s == h.mbo.revealed
<1>1. r \in Outcomes /\ Alike(h, r) /\ Tops(r) /\ Voices(r) /\ Quiet(r)
  BY SyncedShown
<1>2. (h.changed /\ s # None /\ h.book.synced /\ h.mbo.defined /\ p = emit_book(emit_depth(r)))
      \/ (~(h.changed /\ s # None /\ h.book.synced /\ h.mbo.defined) /\ p = r)
  BY Zenon DEF Published
<1>3. h \in Outcomes /\ Owed(h) /\ (h.changed => h.mbo.defined)
  BY DEF Ready
<1> HIDE DEF r
<1>4. CASE ~(h.changed /\ s # None /\ h.book.synced /\ h.mbo.defined)
  <2>1. p = r
    BY <1>2, <1>4
  <2>2. Displays(h)
    <3>1. CASE ~h.changed
      BY <1>3, <3>1 DEF Owed
    <3>2. CASE h.changed
      BY <1>3, <1>4, <3>2, Zenon DEF Displays
    <3> QED BY <3>1, <3>2
  <2>3. Displays(r)
    <3>1. s \in SourceId \cup {None}
      BY <1>3 DEF Outcomes, Memos
    <3>2. /\ r.mbo.revealed = s /\ r.book = h.book /\ r.log = h.log
          /\ s # None => r.told[s].orders = h.told[s].orders /\ r.told[s].depth = h.told[s].depth
      BY <1>1, <3>1 DEF Alike
    <3> QED BY <2>2, <3>2, Zenon DEF Displays
  <2>4. Kept(h, r)
    BY <1>1 DEF Kept, Alike
  <2> QED BY <1>1, <2>1, <2>3, <2>4 DEF Shown
<1>5. CASE h.changed /\ s # None /\ h.book.synced /\ h.mbo.defined
  <2> DEFINE d == emit_depth(r)
  <2>0. p = emit_book(d) /\ s \in SourceId
    BY <1>2, <1>3, <1>5 DEF Outcomes, Memos
  <2>1. /\ r.mbo.revealed = s /\ r.book = h.book /\ r.log = h.log /\ r.mode = h.mode /\ r.out = h.out
        /\ \A x \in SourceId : r.told[x].orders = h.told[x].orders
    BY <1>1 DEF Alike
  <2>2. r.mbo.top # None => r.told[r.mbo.revealed].depth = r.mbo.top
    BY <1>1 DEF Tops
  <2>3. /\ d \in Outcomes /\ d.book = r.book /\ d.log = r.log /\ d.mode = r.mode /\ d.out = r.out
        /\ d.mbo.revealed = s /\ d.mbo.reported = r.mbo.reported
        /\ d.mbo.top = r.book.levels /\ d.told[s].depth = r.book.levels
        /\ \A x \in SourceId : d.told[x].orders = r.told[x].orders /\ d.told[x].synced = r.told[x].synced
    BY <1>1, <1>5, <2>1, <2>2, DepthEmitted
  <2> HIDE DEF d
  <2>4. /\ Beside(d, p)
        /\ d.mode = "rebaseline" => p.told[s].orders = d.book.orders
        /\ d.mode = "clear" => s \in p.log.bare
        /\ d.mode = "delta" => p.log = d.log
        /\ d.mode = "delta" /\ d.told[s].orders # None => p.told[s].orders = Folded(d.told[s].orders, d.out)
    BY <2>0, <2>3, BookEmitted
  <2>5. Loud(p) = Loud(r)
    BY <2>3, <2>4 DEF Beside, Loud
  <2>6. p.mbo = d.mbo /\ p.book = h.book /\ p.log.evicted = r.log.evicted /\ p.told[s].depth = h.book.levels
    BY <2>0, <2>1, <2>3, <2>4 DEF Beside
  <2>7. Tops(p)
    BY <1>5, <2>1, <2>3, <2>6 DEF Tops
  <2>8. Voices(p) /\ Quiet(p)
    <3>1. p.mbo.revealed = r.mbo.revealed /\ p.mbo.reported = r.mbo.reported /\ p.book = r.book
      BY <2>1, <2>3, <2>6
    <3> QED BY <1>1, <2>5, <2>6, <3>1 DEF Voices, Quiet
  <2>9. ASSUME s \notin p.log.bare \cup p.log.unshown PROVE p.told[s].orders = h.book.orders
    <3>0. h.mode \in Modes
      BY <1>3 DEF Outcomes
    <3>1. CASE h.mode = "rebaseline"
      BY <2>1, <2>3, <2>4, <3>1
    <3>2. CASE h.mode = "clear"
      BY <2>1, <2>3, <2>4, <2>9, <3>2
    <3>3. CASE h.mode = "delta"
      <4>1. s \notin h.log.bare \cup h.log.unshown
        BY <2>1, <2>3, <2>4, <2>9, <3>3
      <4>2. h.told[s].orders # None /\ Folded(h.told[s].orders, h.out) = h.book.orders
        BY <1>3, <1>5, <3>3, <4>1, Zenon DEF Owed
      <4>3. d.told[s].orders = h.told[s].orders /\ d.out = h.out /\ d.mode = h.mode
        BY <2>0, <2>1, <2>3
      <4> QED BY <2>4, <3>3, <4>2, <4>3
    <3> QED BY <3>0, <3>1, <3>2, <3>3 DEF Modes
  <2>10. Displays(p)
    <3>1. p.mbo.revealed = s
      BY <2>3, <2>6
    <3> QED BY <2>6, <2>9, <3>1, Zenon DEF Displays
  <2>11. Kept(h, p)
    BY <2>1, <2>3, <2>4, <2>6 DEF Kept, Beside
  <2> QED BY <2>7, <2>8, <2>10, <2>11 DEF Shown
<1> QED BY <1>4, <1>5

\* What the processor and the arbiter hold, before and after a step.
BookType == book \in Books /\ mbo \in Memos /\ told \in [SourceId -> Shows] /\ log \in Logs

LEMMA HereTyped ==
  /\ BookType => Here \in Outcomes
  /\ Here.book = book /\ Here.mbo = mbo /\ Here.told = told /\ Here.log = log
  /\ Here.touched = FALSE /\ Here.changed = FALSE /\ Here.mode = "delta" /\ Here.out = <<>>
<1>1. <<>> \in Seq(Changes)
  OBVIOUS
<1> QED BY <1>1 DEF Here, BookType, Outcomes, Modes

\* A datagram's outcome becomes the state.
LEMMA LeavesShown ==
  ASSUME NEW h, Ready(h), Leaves(h)
  PROVE  /\ BookType' /\ Shown(Here)' /\ book' = h.book
         /\ log'.open = h.log.open /\ log'.live = h.log.live
<1>1. PICK r \in {Published(h)} :
        /\ book' = r.book /\ mbo' = r.mbo /\ told' = r.told
        /\ log' = [r.log EXCEPT !.bare = {s \in @ : Current(r, s)},
                                !.unshown = {s \in @ : Current(r, s)}]
  BY DEF Leaves
<1>2. r = Published(h)
  OBVIOUS
<1>3. Kept(h, r) /\ Shown(r)
  BY <1>2, PublishedShows
<1>4. r \in Outcomes /\ r.log \in Logs
  BY <1>3 DEF Kept, Outcomes
<1>5. /\ log' \in Logs /\ log'.open = r.log.open /\ log'.live = r.log.live /\ log'.evicted = r.log.evicted
      /\ log'.bare = {s \in r.log.bare : Current(r, s)}
      /\ log'.unshown = {s \in r.log.unshown : Current(r, s)}
  BY <1>1, <1>4 DEF Logs
<1>6. BookType'
  BY <1>1, <1>4, <1>5 DEF BookType, Outcomes
<1> DEFINE g == Here'
<1>7. g.book = r.book /\ g.mbo = r.mbo /\ g.told = r.told /\ g.log = log'
  BY <1>1 DEF Here
<1> HIDE DEF g
<1>8. Loud(g) = Loud(r)
  BY <1>7 DEF Loud
<1>9. Tops(g) /\ Voices(g) /\ Quiet(g)
  BY <1>3, <1>5, <1>7, <1>8 DEF Shown, Tops, Voices, Quiet
<1>10. Displays(g)
  <2> DEFINE s == r.mbo.revealed
  <2>1. Current(r, s)
    BY DEF Current
  <2>2. (s \in g.log.bare <=> s \in r.log.bare) /\ (s \in g.log.unshown <=> s \in r.log.unshown)
    BY <1>5, <1>7, <2>1
  <2> QED BY <1>3, <1>7, <2>2 DEF Shown, Displays
<1>11. Shown(g)
  BY <1>9, <1>10 DEF Shown
<1>12. book' = h.book /\ log'.open = h.log.open /\ log'.live = h.log.live
  BY <1>1, <1>3, <1>5 DEF Kept
<1> QED BY <1>6, <1>11, <1>12 DEF g

\* What a reveal leaves alone.
Reveals(h, r) ==
  /\ r \in Outcomes /\ r.book = h.book /\ r.log = h.log /\ r.out = h.out
  /\ r.touched = h.touched /\ r.mbo.defined = h.mbo.defined
  /\ Tops(r) /\ Voices(r) /\ Loud(r) \subseteq Loud(h)

\* Announcing a Source ID silences the one before.
LEMMA RevealShown ==
  ASSUME NEW h \in Outcomes, Tops(h), Voices(h), NEW s \in SourceId, NEW r, r = reveal_if_needed(h, s)
  PROVE  /\ Reveals(h, r)
         /\ r.changed = h.changed /\ r.mode = h.mode
         /\ r = h \/ (h.mbo.defined /\ r.mbo.revealed = s)
<1>0. /\ h.mbo \in Memos /\ h.told \in [SourceId -> Shows] /\ h.mbo.revealed \in SourceId \cup {None}
      /\ s # None
  BY MboConstants DEF Outcomes, Memos
<1>1. CASE ~h.mbo.defined \/ h.mbo.revealed = s
  <2>1. r = h
    <3> DEFINE c == h.mbo.defined
               x == h.mbo.revealed
    <3>1. ~(c /\ x = None) /\ ~(c /\ x \notin {None, s}) /\ (~c \/ x = s)
      BY <1>0, <1>1
    <3> QED BY <3>1 DEF reveal_if_needed
  <2> QED BY <2>1 DEF Reveals
<1>2. CASE h.mbo.defined /\ h.mbo.revealed = None
  <2> DEFINE m == [h.mbo EXCEPT !.revealed = s]
  <2>1. r = [h EXCEPT !.mbo = m]
    BY <1>0, <1>2 DEF reveal_if_needed, Outcomes
  <2>2. m \in Memos /\ m.revealed = s /\ m.reported = h.mbo.reported /\ m.top = h.mbo.top /\ m.defined = h.mbo.defined
    BY <1>0 DEF Memos
  <2> HIDE DEF m
  <2>3. /\ r \in Outcomes /\ r.mbo = m /\ r.book = h.book /\ r.log = h.log /\ r.out = h.out /\ r.told = h.told
        /\ r.touched = h.touched /\ r.changed = h.changed /\ r.mode = h.mode
    BY <2>1, <2>2 DEF Outcomes
  <2>4. Loud(r) = Loud(h) /\ h.mbo.top = None
    BY <1>2, <2>3 DEF Loud, Tops
  <2>5. Tops(r)
    BY <2>2, <2>3, <2>4 DEF Tops
  <2>6. Voices(r)
    <3>1. ASSUME ~h.log.evicted PROVE Loud(h) = {}
      BY <1>2, <3>1, MboConstants DEF Voices, Loud
    <3> QED BY <2>3, <2>4, <3>1 DEF Voices
  <2> QED BY <1>2, <2>2, <2>3, <2>4, <2>5, <2>6 DEF Reveals
<1>3. CASE h.mbo.defined /\ h.mbo.revealed \notin {None, s}
  <2> DEFINE m == [h.mbo EXCEPT !.revealed = s, !.top = None]
             x == h.mbo.revealed
             t == [h.told EXCEPT ![x] = Nothing]
  <2>0. x \in SourceId /\ Nothing \in Shows /\ Nothing.synced = None
    BY <1>0, <1>3 DEF Nothing, Shows
  <2>1. r = [h EXCEPT !.mbo = m, !.told = t]
    BY <1>0, <1>3 DEF reveal_if_needed, Outcomes
  <2>2. m \in Memos /\ m.revealed = s /\ m.reported = h.mbo.reported /\ m.top = None /\ m.defined = h.mbo.defined
    BY <1>0 DEF Memos
  <2>3. t \in [SourceId -> Shows] /\ t[x].synced = None /\ \A y \in SourceId : y # x => t[y] = h.told[y]
    BY <1>0, <2>0
  <2> HIDE DEF m, t
  <2>4. /\ r \in Outcomes /\ r.mbo = m /\ r.book = h.book /\ r.log = h.log /\ r.out = h.out /\ r.told = t
        /\ r.touched = h.touched /\ r.changed = h.changed /\ r.mode = h.mode
    BY <2>1, <2>2, <2>3 DEF Outcomes
  <2>5. None # TRUE
    BY MboConstants
  <2>6. Loud(r) \subseteq Loud(h) \ {x}
    BY <2>3, <2>4, <2>5 DEF Loud
  <2>7. Tops(r)
    BY <2>2, <2>4 DEF Tops
  <2>8. Voices(r)
    BY <2>4, <2>6 DEF Voices
  <2> QED BY <1>3, <2>2, <2>4, <2>6, <2>7, <2>8 DEF Reveals
<1> QED BY <1>0, <1>1, <1>2, <1>3, Zenon

\* A reveal by a delta-carrying message owes the whole book, or a clear.
LEMMA OnRevealShown ==
  ASSUME NEW h \in Outcomes, Tops(h), Voices(h), NEW s \in SourceId, NEW g, g = on_reveal(h, s)
  PROVE  /\ Reveals(h, g)
         /\ g = h \/ (g.changed = TRUE /\ g.mode # "delta" /\ h.mbo.defined)
<1> DEFINE r == reveal_if_needed(h, s)
<1>1. Reveals(h, r) /\ (r = h \/ (h.mbo.defined /\ r.mbo.revealed = s))
  BY RevealShown
<1>2. CASE r.mbo.revealed = h.mbo.revealed
  <2>1. g = h
    BY <1>2 DEF on_reveal
  <2> QED BY <2>1 DEF Reveals
<1>3. CASE r.mbo.revealed # h.mbo.revealed
  <2> DEFINE m == [r.mbo EXCEPT !.recent = TRUE]
             d == IF r.mbo.recent /\ r.mode # "rebaseline" THEN "clear" ELSE "rebaseline"
  <2>0. r \in Outcomes /\ r.mbo \in Memos
    BY <1>1 DEF Reveals, Outcomes
  <2>1. g = [r EXCEPT !.changed = TRUE, !.mbo = m, !.mode = d]
    <3> HIDE DEF r
    <3> QED BY <1>3, <2>0 DEF on_reveal, r, Outcomes
  <2> HIDE DEF r
  <2>2. /\ m \in Memos /\ m.revealed = r.mbo.revealed /\ m.reported = r.mbo.reported /\ m.top = r.mbo.top
        /\ m.defined = r.mbo.defined
    BY <2>0 DEF Memos
  <2>3. d \in Modes /\ d # "delta"
    BY DEF Modes
  <2> HIDE DEF m, d
  <2>4. /\ g \in Outcomes /\ g.mbo = m /\ g.book = r.book /\ g.log = r.log /\ g.out = r.out /\ g.told = r.told
        /\ g.touched = r.touched /\ g.changed = TRUE /\ g.mode = d
    BY <2>0, <2>1, <2>2, <2>3 DEF Outcomes
  <2>5. Loud(g) = Loud(r)
    BY <2>4 DEF Loud
  <2>6. Tops(g) /\ Voices(g)
    BY <1>1, <2>2, <2>4, <2>5 DEF Reveals, Tops, Voices
  <2>7. Reveals(h, g)
    BY <1>1, <2>2, <2>4, <2>5, <2>6 DEF Reveals
  <2>8. h.mbo.defined
    BY <1>1, <1>3
  <2> QED BY <2>3, <2>4, <2>7, <2>8
<1> QED BY <1>2, <1>3

-----------------------------------------------------------------------------
(* A mktdata datagram.                                                       *)

\* The changes so far are those of the book, as long as nothing else is owed.
Tracks(h) ==
  h.mode = "delta" =>
    /\ h.told = told /\ h.mbo.revealed = mbo.revealed
    /\ h.book.synced =>
         /\ h.book.orders = Folded(book.orders, h.out)
         /\ h.changed \/ (h.book.orders = book.orders /\ h.book.levels = book.levels)

\* What a message of the datagram may have made of the state.
Reached(h) ==
  /\ h \in Outcomes /\ Tops(h) /\ Voices(h)
  /\ h.book.building = book.building /\ h.log = log /\ h.mbo.defined = mbo.defined
  /\ h = Here \/ h.touched
  /\ (h.changed => h.mbo.defined) /\ (h.changed \/ h.mode = "delta")
  /\ Tracks(h)
  /\ h.book.synced => book.synced /\ \A e : Matches(book, e) => Matches(h.book, e)

\* At first it is the state.
LEMMA HereReached ==
  ASSUME BookType, Shown(Here)
  PROVE  Reached(Here)
<1>1. book.orders \in Orders
  BY DEF BookType, Books
<1>2. Folded(book.orders, <<>>) = book.orders
  BY <1>1, FoldedNone
<1>3. Tracks(Here)
  BY <1>2, HereTyped DEF Tracks
<1> QED BY <1>3, HereTyped DEF Reached, Shown

\* One more change, in the book and for the consumers.
LEMMA ChangesTrack ==
  ASSUME NEW t \in Orders, NEW cs \in Seq(Changes), NEW out \in Seq(Changes), NEW u,
         Reported(Folded(t, cs), u, out)
  PROVE  u = Folded(t, cs \o out)
<1>1. CASE out = <<>> /\ u = Folded(t, cs)
  <2>1. cs \o out = cs
    BY <1>1
  <2> QED BY <1>1, <2>1
<1>2. ASSUME NEW c \in Changes, out = <<c>>, u = [Folded(t, cs) EXCEPT ![c.order] = c.qty]
      PROVE  u = Folded(t, cs \o out)
  <2>1. cs \o out = Append(cs, c)
    BY <1>2
  <2>2. OneMore(t, cs, c)
    BY FoldedAppend
  <2>3. Folded(t, Append(cs, c)) = u
    BY <1>2, <2>2, Zenon DEF OneMore
  <2> QED BY <2>1, <2>3
<1> QED BY <1>1, <1>2 DEF Reported

\* apply_delta.
LEMMA DeltaReached ==
  ASSUME PubInv, BookType, NEW h, Reached(h), NEW k \in 1..Len(sent), NEW g, g = apply_delta(h, k)
  PROVE  Reached(g) /\ g.touched
<1>0. h \in Outcomes /\ h.book \in Books /\ PubType /\ h.out \in Seq(Changes) /\ h.changed \in BOOLEAN
  BY DEF Reached, Outcomes, PubInv
<1>1. CASE ~h.mbo.defined
  <2>1. g = [h EXCEPT !.touched = TRUE]
    BY <1>1 DEF apply_delta
  <2>2. /\ g \in Outcomes /\ g.book = h.book /\ g.mbo = h.mbo /\ g.told = h.told /\ g.log = h.log /\ g.out = h.out
        /\ g.touched = TRUE /\ g.changed = h.changed /\ g.mode = h.mode
    BY <1>0, <2>1 DEF Outcomes
  <2>3. Loud(g) = Loud(h)
    BY <2>2 DEF Loud
  <2>4. Tops(g) /\ Voices(g) /\ Tracks(g)
    BY <2>2, <2>3 DEF Reached, Tops, Voices, Tracks
  <2> QED BY <2>2, <2>4, Zenon DEF Reached
<1>2. CASE h.mbo.defined
  <2> DEFINE r == on_delta_reporting(h.book, k, sent)
             c == h.changed \/ r.took
  <2>1. g = [h EXCEPT !.touched = TRUE, !.book = r.book, !.out = @ \o r.out, !.changed = @ \/ r.took]
    BY <1>2, Zenon DEF apply_delta
  <2>2. Moved(h.book, r)
    BY <1>0, DeltaMoves
  <2> HIDE DEF r
  <2>3. r.book \in Books /\ r.book.building = h.book.building /\ r.out \in Seq(Changes)
    BY <2>2 DEF Moved
  <2>4. h.out \o r.out \in Seq(Changes) /\ c \in BOOLEAN
    BY <1>0, <2>3
  <2>5. /\ g \in Outcomes /\ g.book = r.book /\ g.mbo = h.mbo /\ g.told = h.told /\ g.log = h.log
        /\ g.out = h.out \o r.out /\ g.touched = TRUE /\ g.changed = c /\ g.mode = h.mode
    <3>1. g = [h EXCEPT !.touched = TRUE, !.book = r.book, !.out = h.out \o r.out, !.changed = c]
      BY <1>0, <2>1 DEF Outcomes
    <3> HIDE DEF c
    <3> QED BY <1>0, <2>3, <2>4, <3>1 DEF Outcomes
  <2>6. Loud(g) = Loud(h)
    BY <2>5 DEF Loud
  <2>7. Tops(g) /\ Voices(g)
    BY <2>5, <2>6 DEF Reached, Tops, Voices
  <2>8. r.book.synced => /\ h.book.synced /\ Reported(h.book.orders, r.book.orders, r.out)
                         /\ r.took \/ (r.book.orders = h.book.orders /\ r.book.levels = h.book.levels)
    BY <2>2, Zenon DEF Moved
  <2>9. Tracks(g)
    <3>1. ASSUME g.mode = "delta", g.book.synced
          PROVE  /\ g.book.orders = Folded(book.orders, g.out)
                 /\ g.changed \/ (g.book.orders = book.orders /\ g.book.levels = book.levels)
      <4>1. h.mode = "delta" /\ h.book.synced /\ Reported(h.book.orders, r.book.orders, r.out)
        BY <2>5, <2>8, <3>1
      <4>2. /\ h.book.orders = Folded(book.orders, h.out)
            /\ h.changed \/ (h.book.orders = book.orders /\ h.book.levels = book.levels)
        BY <4>1, Zenon DEF Reached, Tracks
      <4>3. book.orders \in Orders
        BY DEF BookType, Books
      <4>4. r.book.orders = Folded(book.orders, h.out \o r.out)
        BY <1>0, <2>3, <4>1, <4>2, <4>3, ChangesTrack
      <4>5. c \/ (r.book.orders = book.orders /\ r.book.levels = book.levels)
        <5>1. r.took \/ (r.book.orders = h.book.orders /\ r.book.levels = h.book.levels)
          BY <2>5, <2>8, <3>1, Zenon
        <5> QED BY <4>2, <5>1
      <4> QED BY <2>5, <4>4, <4>5, Zenon
    <3>2. g.mode = "delta" => g.told = told /\ g.mbo.revealed = mbo.revealed
      BY <2>5 DEF Reached, Tracks
    <3> QED BY <3>1, <3>2, Zenon DEF Tracks
  <2>10. g.book.synced => book.synced /\ \A e : Matches(book, e) => Matches(g.book, e)
    <3> SUFFICES ASSUME r.book.synced PROVE book.synced /\ \A e : Matches(book, e) => Matches(r.book, e)
      BY <2>5
    <3>1. book.synced /\ \A e : Matches(book, e) => Matches(h.book, e)
      BY <2>8, Zenon DEF Reached
    <3>2. ASSUME NEW e, Matches(book, e) PROVE Matches(r.book, e)
      <4>1. Matches(h.book, e)
        BY <3>1, <3>2
      <4> QED BY <1>0, <4>1, DeltaMatches DEF r
    <3> QED BY <3>1, <3>2
  <2>11. /\ g.book.building = book.building /\ g.log = log /\ g.mbo.defined = mbo.defined
    BY <2>3, <2>5 DEF Reached
  <2>12. (g.changed => g.mbo.defined) /\ (g.changed \/ g.mode = "delta")
    BY <1>2, <2>5, Zenon DEF Reached
  <2> QED BY <2>5, <2>7, <2>9, <2>10, <2>11, <2>12, Zenon DEF Reached
<1> QED BY <1>1, <1>2

\* One message of the datagram.
LEMMA MessageReached ==
  ASSUME PubInv, BookType, NEW h, Reached(h), NEW k \in 1..Len(sent), NEW n
  PROVE  Reached(OrderMessage(h, k, n))
<1>1. CASE sent[k].mkt # n
  <2>1. OrderMessage(h, k, n) = h
    BY <1>1 DEF OrderMessage
  <2> QED BY <2>1
<1>2. CASE sent[k].mkt = n
  <2> DEFINE d == apply_delta(h, k)
             s == sent[k].src
             g == on_reveal(d, s)
  <2>1. OrderMessage(h, k, n) = g
    BY <1>2 DEF OrderMessage
  <2>2. Reached(d) /\ d.touched
    BY DeltaReached
  <2>3. sent[k] \in Sent
    BY DEF PubInv, PubType
  <2>4. s \in SourceId /\ d \in Outcomes /\ Tops(d) /\ Voices(d)
    BY <2>2, <2>3 DEF Sent, Reached
  <2> HIDE DEF d, s
  <2>5. Reveals(d, g) /\ (g = d \/ (g.changed = TRUE /\ g.mode # "delta" /\ d.mbo.defined))
    BY <2>4, OnRevealShown
  <2> HIDE DEF g
  <2>6. CASE g = d
    BY <2>1, <2>2, <2>6
  <2>7. CASE g.changed = TRUE /\ g.mode # "delta" /\ d.mbo.defined
    <3>1. Tracks(g)
      BY <2>7 DEF Tracks
    <3>2. /\ g \in Outcomes /\ Tops(g) /\ Voices(g) /\ g.book = d.book /\ g.log = d.log
          /\ g.mbo.defined = d.mbo.defined /\ g.touched = d.touched
      BY <2>5 DEF Reveals
    <3>3. Reached(g)
      BY <2>2, <2>7, <3>1, <3>2, Zenon DEF Reached
    <3> QED BY <2>1, <3>3
  <2> QED BY <2>5, <2>6, <2>7
<1> QED BY <1>1, <1>2

\* The datagram's outcome.
LEMMA MktdataReached ==
  ASSUME PubInv, BookType, Shown(Here), NEW n, Mktdata(n)
  PROVE  \E h : Reached(h) /\ Leaves(h)
<1> DEFINE T == {h \in Outcomes : Reached(h)}
           len == Len(sent)
           Is(g) == g = [k \in 0..len |-> IF k = 0 THEN Here ELSE OrderMessage(g[k - 1], k, n)]
           acc == CHOOSE g : Is(g)
<1>1. Here \in T /\ len \in Nat
  BY HereTyped, HereReached DEF PubInv, PubType
<1>2. ASSUME NEW h \in T, NEW k \in 1..len PROVE OrderMessage(h, k, n) \in T
  <2>1. Reached(OrderMessage(h, k, n))
    BY MessageReached
  <2> QED BY <2>1 DEF Reached
<1>3. Leaves(acc[len])
  BY Zenon DEF Mktdata
<1>4. \A h \in T : Reached(h)
  OBVIOUS
<1> HIDE DEF T, len
<1>5. Is(acc)
  <2> DEFINE F == [x \in T \X (1..len) |-> OrderMessage(x[1], x[2], n)]
  <2>1. F \in [T \X (1..len) -> T]
    BY <1>2
  <2>2. PICK g : Runs(g, len, T, Here, F)
    <3> HIDE DEF F
    <3> QED BY ONLY <1>1, <2>1, StepsExist
  <2>3. ASSUME NEW i \in 1..len PROVE g[i] = OrderMessage(g[i - 1], i, n)
    <3>1. i - 1 \in 0..len /\ g[i - 1] \in T
      BY <1>1, <2>2 DEF Runs
    <3>2. F[<<g[i - 1], i>>] = OrderMessage(g[i - 1], i, n)
      BY <3>1
    <3> QED BY <2>2, <3>2 DEF Runs
  <2>4. Is(g)
    <3>1. \A i \in 0..len : g[i] = IF i = 0 THEN Here ELSE OrderMessage(g[i - 1], i, n)
      BY <1>1, <2>2, <2>3 DEF Runs
    <3> QED BY <2>2, <3>1 DEF Runs
  <2> QED BY <2>4, Zenon
<1> HIDE DEF acc
<1>6. \A i \in 0..len : acc[i] \in T
  <2> DEFINE S == [i \in 0..len |-> T]
  <2>1. acc[0] \in S[0] /\ \A i \in 1..len : acc[i - 1] \in S[i - 1] => acc[i] \in S[i]
    BY <1>1, <1>2, <1>5
  <2>2. \A i \in 0..len : S[i] = T
    OBVIOUS
  <2> HIDE DEF S
  <2>3. \A i \in 0..len : acc[i] \in S[i]
    BY ONLY <1>1, <2>1, Steps
  <2> QED BY <2>2, <2>3
<1>7. acc[len] \in T
  BY <1>1, <1>6
<1> QED BY <1>3, <1>4, <1>7

\* It can be published.
LEMMA ReachedReady ==
  ASSUME BookType, Shown(Here), NEW h, Reached(h)
  PROVE  Ready(h)
<1>1. h.touched \/ Quiet(h)
  BY DEF Reached, Shown
<1>2. Displays(Here) /\ h \in Outcomes
  BY DEF Shown, Reached
<1> DEFINE s == mbo.revealed
<1>3. s # None /\ book.synced =>
        /\ s \notin log.bare \cup log.unshown => told[s].orders = book.orders
        /\ s \notin log.unshown => told[s].depth = book.levels
  BY <1>2, HereTyped DEF Displays
<1>4. book.orders \in Orders /\ book.orders # None
  BY MboConstants DEF BookType, Books, Orders
<1>5. ASSUME h.mode = "delta"
      PROVE  /\ h.told = told /\ h.mbo.revealed = s /\ h.log = log
             /\ h.book.synced => /\ h.book.orders = Folded(book.orders, h.out) /\ book.synced
                                 /\ h.changed \/ (h.book.orders = book.orders /\ h.book.levels = book.levels)
  BY <1>5, Zenon DEF Reached, Tracks
<1>6. Owed(h)
  <2>1. ASSUME h.changed, h.mbo.revealed # None, h.book.synced, h.mode = "delta",
               h.mbo.revealed \notin h.log.bare \cup h.log.unshown
        PROVE  h.told[h.mbo.revealed].orders # None /\ Folded(h.told[h.mbo.revealed].orders, h.out) = h.book.orders
    BY <1>3, <1>4, <1>5, <2>1
  <2>2. ASSUME ~h.changed PROVE Displays(h)
    <3>1. h.mode = "delta"
      BY <2>2, Zenon DEF Reached
    <3> QED BY <1>3, <1>5, <2>2, <3>1, Zenon DEF Displays
  <2> QED BY <2>1, <2>2, Zenon DEF Owed
<1> QED BY <1>1, <1>6, Zenon DEF Ready, Reached

-----------------------------------------------------------------------------
(* A snapshot.                                                               *)

\* Building g has some of rotation t's orders, each once.
Part(g, t) ==
  /\ \A o \in OrderId : g.orders[o] \in {0, t[o]}
  /\ g.received = Cardinality(Resting(g.orders)) /\ g.levels = Totals(g.orders)

\* Building g is of the rotation it names; whole says that none of its orders came twice.
Assembles(g, whole) ==
  g # None =>
    /\ g.id \in 1..Len(snaps) /\ g.total = snaps[g.id].total /\ g.last = snaps[g.id].last
    /\ whole => Part(g, snaps[g.id].orders)

\* The resting orders are finitely many.
LEMMA RestingFinite ==
  ASSUME NEW t
  PROVE  IsFiniteSet(Resting(t)) /\ Cardinality(Resting(t)) \in Nat
<1>1. Resting(t) \subseteq OrderId
  BY DEF Resting
<1> QED BY <1>1, OrderBookConstants, FS_Subset, FS_CardinalityType

\* A building with as many orders as its rotation has them all.
LEMMA PartWhole ==
  ASSUME NEW g \in Buildings, NEW t \in Orders, Part(g, t), g.received = Cardinality(Resting(t))
  PROVE  g.orders = t /\ g.levels = Totals(t)
<1> DEFINE A == Resting(g.orders)
           B == Resting(t)
<1>1. A \subseteq B
  BY DEF Part, Resting, Orders
<1>2. IsFiniteSet(B) /\ Cardinality(A) = Cardinality(B)
  BY RestingFinite DEF Part
<1>3. A = B
  <2> HIDE DEF A, B
  <2> QED BY <1>1, <1>2, FS_Subset
<1>4. ASSUME NEW o \in OrderId PROVE g.orders[o] = t[o]
  <2>1. g.orders[o] \in {0, t[o]} /\ t[o] \in Nat /\ (o \in A <=> o \in B)
    BY <1>3 DEF Part, Orders
  <2> QED BY <2>1 DEF Resting
<1>5. g.orders \in Orders
  BY DEF Buildings
<1>6. g.orders = t
  BY <1>4, <1>5 DEF Orders
<1> QED BY <1>6 DEF Part

\* What the replay of the buffered deltas keeps.
LEMMA ReplayedMatches ==
  ASSUME PubInv, NEW b \in Books, NEW kept, NEW r, r = Replayed(b, kept, sent)
  PROVE  /\ r \in Books /\ r.building = b.building
         /\ r.synced => \A e : Matches(b, e) => Matches(r, e)
<1> DEFINE Good(c) == c.building = b.building /\ (c.synced => \A e : Matches(b, e) => Matches(c, e))
           T == {c \in Books : Good(c)}
           n == Len(sent)
           Is(g) == g = [k \in 0..n |-> IF k = 0 THEN b ELSE Replay(g[k - 1], k, kept, sent)]
           acc == CHOOSE g : Is(g)
<1>0. PubType
  BY DEF PubInv
<1>1. b \in T /\ n \in Nat
  BY <1>0 DEF PubType
<1>2. ASSUME NEW c \in T, NEW k \in 1..n PROVE Replay(c, k, kept, sent) \in T
  <2>1. CASE ~(c.synced /\ k \in kept)
    <3>1. Replay(c, k, kept, sent) = c
      BY <2>1, Zenon DEF Replay
    <3> QED BY <3>1
  <2>2. CASE c.synced /\ k \in kept
    <3> DEFINE p == apply_or_recover(c, k, sent)
    <3>1. Replay(c, k, kept, sent) = p.book
      BY <2>2, Zenon DEF Replay
    <3>2. c \in Books /\ Good(c)
      OBVIOUS
    <3> HIDE DEF T, Good, n
    <3>3. Moved(c, p)
      BY <1>0, <3>2, RecoverMoves DEF n
    <3>4. p.book \in Books /\ p.book.building = c.building
      BY <3>3 DEF Moved
    <3>5. ASSUME p.book.synced, NEW e, Matches(b, e) PROVE Matches(p.book, e)
      <4>1. Matches(c, e)
        BY <2>2, <3>2, <3>5 DEF Good
      <4> QED BY <2>2, <3>2, <3>5, <4>1, RecoverMatches DEF n
    <3> HIDE DEF p
    <3>6. Good(p.book)
      BY <3>2, <3>4, <3>5, Zenon DEF Good
    <3> QED BY <3>1, <3>4, <3>6 DEF T
  <2> QED BY <2>1, <2>2
<1>3. r = acc[n]
  BY Zenon DEF Replayed
<1>4. \A c \in T : c \in Books /\ Good(c)
  OBVIOUS
<1> HIDE DEF T, n
<1>5. Is(acc)
  <2> DEFINE F == [x \in T \X (1..n) |-> Replay(x[1], x[2], kept, sent)]
  <2>1. F \in [T \X (1..n) -> T]
    BY <1>2
  <2>2. PICK g : Runs(g, n, T, b, F)
    <3> HIDE DEF F
    <3> QED BY ONLY <1>1, <2>1, StepsExist
  <2>3. ASSUME NEW i \in 1..n PROVE g[i] = Replay(g[i - 1], i, kept, sent)
    <3>1. i - 1 \in 0..n /\ g[i - 1] \in T
      BY <1>1, <2>2 DEF Runs
    <3>2. F[<<g[i - 1], i>>] = Replay(g[i - 1], i, kept, sent)
      BY <3>1
    <3> QED BY <2>2, <3>2 DEF Runs
  <2>4. Is(g)
    <3>1. \A i \in 0..n : g[i] = IF i = 0 THEN b ELSE Replay(g[i - 1], i, kept, sent)
      BY <1>1, <2>2, <2>3 DEF Runs
    <3> QED BY <2>2, <3>1 DEF Runs
  <2> QED BY <2>4, Zenon
<1> HIDE DEF acc
<1>6. \A i \in 0..n : acc[i] \in T
  <2> DEFINE S == [i \in 0..n |-> T]
  <2>1. acc[0] \in S[0] /\ \A i \in 1..n : acc[i - 1] \in S[i - 1] => acc[i] \in S[i]
    BY <1>1, <1>2, <1>5
  <2>2. \A i \in 0..n : S[i] = T
    OBVIOUS
  <2> HIDE DEF S
  <2>3. \A i \in 0..n : acc[i] \in S[i]
    BY ONLY <1>1, <2>1, Steps
  <2> QED BY <2>2, <2>3
<1>7. acc[n] \in T
  BY <1>1, <1>6
<1> QED BY <1>3, <1>4, <1>7

\* A complete snapshot is installed: with no order repeated it is the publisher's book.
LEMMA InstallMatches ==
  ASSUME PubInv, NEW b \in Books, NEW g, g = b.building, g # None, NEW whole, Assembles(g, whole),
         g.received = g.total, NEW r, r = install(b, sent)
  PROVE  /\ r \in Books /\ r.building = None
         /\ r.synced /\ whole => Matches(r, snaps[g.id].epoch)
<1> DEFINE c == [orders |-> g.orders, levels |-> g.levels, synced |-> TRUE, seq |-> g.last,
                 mkt |-> g.anchor, building |-> None, pending |-> NoPending]
           kept == {k \in DOMAIN sent : b.pending[k] > 0 /\ sent[k].mkt > g.anchor}
           s == g.id
           e == snaps[s].epoch
<1>1. r = Replayed(c, kept, sent)
  BY Zenon DEF install
<1>2. g \in Buildings
  BY DEF Books
<1>3. NoPending \in [1..MaxDeltas -> Nat]
  BY DEF NoPending
<1>4. c \in Books /\ c.building = None /\ c.seq = g.last /\ c.orders = g.orders /\ c.levels = g.levels
  BY <1>2, <1>3 DEF Books, Buildings
<1> HIDE DEF c, kept
<1>5. /\ r \in Books /\ r.building = None
      /\ r.synced => \A f : Matches(c, f) => Matches(r, f)
  BY <1>1, <1>4, ReplayedMatches
<1>6. ASSUME whole PROVE Matches(c, e)
  <2>1. s \in 1..Len(snaps) /\ g.total = snaps[s].total /\ g.last = snaps[s].last /\ Part(g, snaps[s].orders)
    BY <1>6 DEF Assembles
  <2>2. Rotation(s) /\ snaps[s] \in Snaps
    BY <2>1 DEF PubInv, PubType
  <2>3. /\ snaps[s].orders = Truth(e, g.last) /\ g.total = Cardinality(Resting(snaps[s].orders))
        /\ e \in 1..Len(epochs) /\ g.last \in epochs[e].start..Len(sent) /\ snaps[s].orders \in Orders
    BY <2>1, <2>2 DEF Rotation, Snaps
  <2>4. g.orders = snaps[s].orders /\ g.levels = Totals(snaps[s].orders)
    BY <1>2, <2>1, <2>3, PartWhole
  <2> HIDE DEF e
  <2> QED BY <1>4, <2>3, <2>4 DEF Matches
<1> QED BY <1>5, <1>6

-----------------------------------------------------------------------------
(* The inductive invariant.                                                  *)

\* A synced book is the publisher's since one of the resets not yet superseded.
Faithful == book.synced /\ ~log.live => \E e \in heard..Len(epochs) : Matches(book, e)

\* The publisher's side and the types, what is under assembly, the synced book and what is
\* shown of it.
MboInv == PubInv /\ BookType /\ Assembles(book.building, ~log.open) /\ Faithful /\ Shown(Here)

-----------------------------------------------------------------------------
(* The publisher's steps.                                                    *)

\* The publisher has gone on: what it had sent stays sent.
Further ==
  /\ sent' \in Seq(Sent) /\ Len(sent) <= Len(sent') /\ \A j \in 1..Len(sent) : sent'[j] = sent[j]
  /\ epochs' \in Seq(Epochs) /\ Len(epochs) <= Len(epochs')
  /\ \A e \in 1..Len(epochs) : epochs'[e] = epochs[e]
  /\ \A f \in 1..Len(epochs') : f > Len(epochs) => Len(sent) <= epochs'[f].start

\* Its book after an old delta is what it was.
LEMMA TruthStays ==
  ASSUME PubType, Further, NEW e \in 1..Len(epochs), NEW k \in epochs[e].start..Len(sent)
  PROVE  Truth(e, k)' = Truth(e, k) /\ (Crossed(e, k)' <=> Crossed(e, k)) /\ Truth(e, k) \in Orders
<1>0. /\ sent \in Seq(Sent) /\ epochs[e] \in Epochs /\ epochs'[e] = epochs[e]
      /\ Len(sent) \in Nat /\ Len(sent') \in Nat /\ sent' \in Seq(Sent) /\ Len(epochs) \in Nat /\ Len(epochs') \in Nat
  BY DEF PubType, Further
<1>a. DOMAIN epochs = 1..Len(epochs) /\ DOMAIN epochs' = 1..Len(epochs')
  BY DEF PubType, Further
<1>1. epochs[e].base \in Orders /\ epochs[e].start \in Nat /\ k \in Nat /\ k <= Len(sent')
      /\ \A j \in 1..k : sent[j] = sent'[j]
  <2>1. epochs[e].base \in Orders /\ epochs[e].start \in Nat
    BY <1>0 DEF Epochs
  <2>2. k \in Nat /\ k <= Len(sent)
    BY <1>0, <2>1
  <2>3. k <= Len(sent') /\ \A j \in 1..k : j \in 1..Len(sent)
    BY <1>0, <2>2 DEF Further
  <2> QED BY <2>1, <2>2, <2>3 DEF Further
<1>2. Grown(epochs[e].base, epochs[e].start, sent, k) = Grown(epochs[e].base, epochs[e].start, sent', k)
  BY <1>0, <1>1, GrownSame
<1>3. Truth(e, k)' = Truth(e, k)
  BY <1>0, <1>2 DEF Truth
<1>4. ASSUME NEW f \in DOMAIN epochs, f > e, epochs[f].start < k
      PROVE  f \in DOMAIN epochs' /\ epochs'[f].start < k
  <2>1. f \in 1..Len(epochs) /\ Len(epochs) <= Len(epochs')
    BY <1>a DEF Further
  <2>2. f \in 1..Len(epochs') /\ epochs'[f] = epochs[f]
    BY <1>0, <2>1 DEF Further
  <2> QED BY <1>a, <1>4, <2>2
<1>5. ASSUME NEW f \in DOMAIN epochs', f > e, epochs'[f].start < k
      PROVE  f \in DOMAIN epochs /\ epochs[f].start < k
  <2>1. f \in 1..Len(epochs')
    BY <1>a
  <2>2. epochs'[f] \in Epochs
    BY <2>1 DEF Further
  <2>3. epochs'[f].start \in Nat
    BY <2>2 DEF Epochs
  <2>4. f <= Len(epochs)
    BY <1>0, <1>1, <1>5, <2>1, <2>3 DEF Further
  <2>5. f \in 1..Len(epochs) /\ epochs'[f] = epochs[f]
    BY <1>0, <2>1, <2>4 DEF Further
  <2> QED BY <1>a, <1>5, <2>5
<1>6. Crossed(e, k)' <=> Crossed(e, k)
  BY <1>4, <1>5 DEF Crossed
<1>7. Truth(e, k) \in Orders
  BY <1>0, <1>1, GrownNext DEF Truth
<1> QED BY <1>3, <1>6, <1>7

\* A book that was its own still is.
LEMMA MatchesStays ==
  ASSUME PubType, Further, NEW b, NEW e, Matches(b, e)
  PROVE  Matches(b, e)'
<1>1. e \in 1..Len(epochs) /\ b.seq \in epochs[e].start..Len(sent) /\ b.orders = Truth(e, b.seq)
      /\ (Crossed(e, b.seq) \/ b.levels = Totals(b.orders))
  BY DEF Matches
<1>2. Truth(e, b.seq)' = Truth(e, b.seq) /\ (Crossed(e, b.seq)' <=> Crossed(e, b.seq))
  BY <1>1, TruthStays
<1>3. epochs[e] \in Epochs /\ epochs'[e] = epochs[e] /\ e \in 1..Len(epochs') /\ Len(sent) \in Nat /\ Len(sent') \in Nat
  BY <1>1 DEF PubType, Further
<1>4. b.seq \in epochs'[e].start..Len(sent')
  <2>1. epochs[e].start \in Nat
    BY <1>3 DEF Epochs
  <2> QED BY <1>1, <1>3, <2>1 DEF Further
<1> QED BY <1>1, <1>2, <1>3, <1>4 DEF Matches

\* So is a rotation, and so are the deltas.
LEMMA RotationStays ==
  ASSUME PubType, Further, NEW s, snaps'[s] = snaps[s], Rotation(s)
  PROVE  Rotation(s)'
<1>0. PICK x : x = snaps[s]
  OBVIOUS
<1>a. PICK e, k : e = x.epoch /\ k = x.last
  OBVIOUS
<1>1. /\ x.id = s /\ e \in 1..Len(epochs) /\ k \in epochs[e].start..Len(sent)
      /\ x.orders = Truth(e, k) /\ x.total = Cardinality(Resting(x.orders)) /\ ~Crossed(e, k)
  BY <1>0, <1>a DEF Rotation
<1>2. Truth(e, k)' = Truth(e, k) /\ (Crossed(e, k)' <=> Crossed(e, k))
  BY <1>1, TruthStays
<1>3. epochs[e] \in Epochs /\ epochs'[e] = epochs[e] /\ e \in 1..Len(epochs') /\ Len(sent) \in Nat /\ Len(sent') \in Nat
  BY <1>1 DEF PubType, Further
<1>4. k \in epochs'[e].start..Len(sent')
  <2>1. epochs[e].start \in Nat
    BY <1>3 DEF Epochs
  <2> QED BY <1>1, <1>3, <2>1 DEF Further
<1>5. snaps'[s].epoch = e /\ snaps'[s].last = k /\ snaps'[s] = x
  BY <1>0, <1>a
<1> QED BY <1>1, <1>2, <1>3, <1>4, <1>5 DEF Rotation

LEMMA SensibleStays ==
  ASSUME PubType, Further, NEW e \in 1..Len(epochs), NEW k \in 1..Len(sent), epochs[e].start < k, Sensible(e, k)
  PROVE  Sensible(e, k)'
<1>1. epochs[e] \in Epochs /\ Len(sent) \in Nat /\ sent'[k] = sent[k]
  BY DEF PubType, Further
<1>2. k - 1 \in epochs[e].start..Len(sent) /\ k \in epochs[e].start..Len(sent)
  BY <1>1 DEF Epochs
<1>3. Truth(e, k - 1)' = Truth(e, k - 1)
  <2> DEFINE j == k - 1
  <2> HIDE DEF j
  <2>1. Truth(e, j)' = Truth(e, j)
    BY <1>2, TruthStays DEF j
  <2> QED BY <2>1 DEF j
<1>4. Crossed(e, k)' <=> Crossed(e, k)
  BY <1>2, TruthStays
<1> QED BY <1>1, <1>3, <1>4 DEF Sensible

\* A step of the publisher alone.
LEMMA PubMoves ==
  ASSUME MboInv, Further, PubInv', UNCHANGED <<heard, book, mbo, told, log>>,
         \A s \in 1..Len(snaps) : s \in 1..Len(snaps') /\ snaps'[s] = snaps[s]
  PROVE  MboInv'
<1>0. PubType
  BY DEF MboInv, PubInv
<1>1. BookType'
  BY DEF MboInv, BookType
<1>2. Shown(Here)'
  <2>1. Here' = Here
    BY DEF Here
  <2> QED BY <2>1 DEF MboInv
<1>3. Assembles(book.building, ~log.open)'
  <2> DEFINE g == book.building
  <2>1. book' = book /\ log' = log /\ Assembles(g, ~log.open)
    BY DEF MboInv
  <2> HIDE DEF g
  <2>2. g # None => g.id \in 1..Len(snaps') /\ snaps'[g.id] = snaps[g.id]
    BY <2>1 DEF Assembles
  <2>3. Assembles(g, ~log.open)'
    BY <2>1, <2>2 DEF Assembles, g
  <2> QED BY <2>3 DEF g
<1>4. Faithful'
  <2> SUFFICES ASSUME book.synced, ~log.live PROVE \E e \in heard..Len(epochs') : Matches(book, e)'
    BY DEF Faithful
  <2>1. PICK e \in heard..Len(epochs) : Matches(book, e)
    BY DEF MboInv, Faithful
  <2>2. e \in heard..Len(epochs')
    BY <1>0 DEF Further, PubType
  <2> DEFINE b == book
  <2>3. b' = b
    OBVIOUS
  <2> HIDE DEF b
  <2>4. Matches(b, e)
    BY <2>1 DEF b
  <2>5. Matches(b, e)'
    BY <1>0, <2>3, <2>4, MatchesStays
  <2> QED BY <2>2, <2>5 DEF b
<1> QED BY <1>1, <1>2, <1>3, <1>4 DEF MboInv

LEMMA PubDeltaKeeps ==
  ASSUME MboInv, NEW more \in BOOLEAN, PubDelta(more)
  PROVE  MboInv'
<1>0. PubInv /\ PubType
  BY DEF MboInv, PubInv
<1>1. PICK op \in Deltas : /\ Fits(op, Truth(Len(epochs), Len(sent)))
                           /\ sent' = Append(sent, [mkt |-> chan', op |-> op, src |-> src])
  BY DEF PubDelta
<1>2. UNCHANGED <<epochs, snaps, src, heard, book, mbo, told, log>> /\ chan' \in Nat /\ Len(sent) < MaxDeltas
  BY <1>0 DEF PubDelta, PubType
<1>a. PICK n, m, N : n = Len(sent) /\ m = n + 1 /\ N = Len(epochs)
  OBVIOUS
<1>3. m - 1 = n /\ op \in DeltaOp /\ n \in Nat /\ N \in Nat /\ N > 0 /\ N \in 1..N
  BY <1>0, <1>a, MboConstants DEF PubType
<1>4. /\ sent' \in Seq(Sent) /\ Len(sent') = m /\ sent'[m].op = op /\ \A j \in 1..n : sent'[j] = sent[j]
  <2> DEFINE x == [mkt |-> chan', op |-> op, src |-> src]
  <2>1. x \in Sent /\ sent \in Seq(Sent) /\ x.op = op
    BY <1>0, <1>2, <1>3 DEF Sent, PubType
  <2>2. sent' = Append(sent, x)
    BY <1>1
  <2> HIDE DEF x
  <2> QED BY <1>a, <2>1, <2>2
<1>5. \A e \in 1..N : epochs[e] \in Epochs /\ epochs[e].start \in Nat /\ epochs[e].base \in Orders /\ epochs[e].start <= n
  <2>1. \A e \in 1..N : epochs[e] \in Epochs /\ epochs[e].start <= n
    BY <1>0, <1>a DEF PubType
  <2> QED BY <2>1 DEF Epochs
<1>6. Further
  <2>1. epochs' = epochs /\ Len(sent) <= Len(sent')
    BY <1>a, <1>2, <1>3, <1>4
  <2> QED BY <1>0, <1>a, <1>4, <2>1 DEF Further, PubType
<1>7. PubType'
  <2>1. m <= MaxDeltas
    BY <1>a, <1>2, <1>3, OrderBookConstants
  <2>2. \A e \in 1..N : epochs[e].start <= m
    BY <1>a, <1>3, <1>5
  <2> QED BY <1>0, <1>a, <1>2, <1>4, <2>1, <2>2 DEF PubType
<1>8. ASSUME NEW s \in 1..Len(snaps') PROVE Rotation(s)'
  <2>1. s \in 1..Len(snaps) /\ snaps'[s] = snaps[s]
    BY <1>2
  <2> QED BY <1>0, <1>6, <2>1, RotationStays DEF PubInv
<1>9. ASSUME NEW e \in 1..N PROVE Sensible(e, m)'
  <2>1. n \in epochs[e].start..n /\ e \in 1..Len(epochs)
    BY <1>a, <1>3, <1>5
  <2>2. Truth(e, n)' = Truth(e, n)
    BY <1>0, <1>a, <1>6, <2>1, TruthStays
  <2>3. ASSUME op.kind = "add" PROVE Truth(e, n)[op.order] = 0
    <3>1. /\ \A f \in DOMAIN epochs : epochs[f].base[op.order] = 0
          /\ \A k \in DOMAIN sent : sent[k].op.order # op.order
      BY <1>1, <2>3 DEF Fits
    <3>2. op.order \in OrderId /\ sent \in Seq(Sent) /\ e \in DOMAIN epochs /\ DOMAIN sent = 1..n
      BY <1>0, <1>a, <1>3, <2>1 DEF DeltaOp, PubType
    <3>3. \A j \in (epochs[e].start + 1)..n : sent[j].op.order # op.order
      BY <1>3, <1>5, <3>1, <3>2
    <3>4. Grown(epochs[e].base, epochs[e].start, sent, n)[op.order] = epochs[e].base[op.order]
      BY <1>a, <1>5, <2>1, <3>2, <3>3, GrownUntouched
    <3> QED BY <3>1, <3>2, <3>4 DEF Truth
  <2>4. ASSUME op.kind = "execute", op.full
        PROVE  Crossed(e, m)' \/ Truth(e, n)[op.order] <= op.qty
    <3>1. CASE e = N
      <4>1. op.qty = Truth(N, n)[op.order] /\ op.qty \in Nat
        BY <1>a, <1>1, <1>3, <2>4 DEF Fits, DeltaOp
      <4> QED BY <3>1, <4>1
    <3>2. CASE e # N
      <4>1. N \in DOMAIN epochs'
        BY <1>0, <1>a, <1>2, <1>3 DEF PubType
      <4>2. N > e /\ epochs'[N].start < m
        BY <1>a, <1>2, <1>3, <1>5, <3>2
      <4> QED BY <4>1, <4>2 DEF Crossed
    <3> QED BY <3>1, <3>2
  <2>5. /\ op.kind = "add" => Truth(e, m - 1)'[op.order] = 0
        /\ op.kind = "execute" /\ op.full => Crossed(e, m)' \/ Truth(e, m - 1)'[op.order] <= op.qty
    BY <1>3, <2>2, <2>3, <2>4
  <2> QED BY <1>4, <2>5 DEF Sensible
<1>10. ASSUME NEW k \in 1..Len(sent'), NEW e \in 1..Len(epochs'), epochs'[e].start < k PROVE Sensible(e, k)'
  <2>1. e \in 1..N /\ epochs[e].start < k
    BY <1>a, <1>2, <1>10
  <2>2. CASE k \in 1..n
    BY <1>0, <1>a, <1>6, <2>1, <2>2, SensibleStays DEF PubInv
  <2>3. CASE k = m
    BY <1>9, <2>1, <2>3
  <2> QED BY <1>a, <1>3, <1>4, <2>2, <2>3
<1>11. PubInv'
  BY <1>7, <1>8, <1>10 DEF PubInv
<1> QED BY <1>2, <1>6, <1>11, PubMoves

LEMMA PubSnapshotKeeps ==
  ASSUME MboInv, PubSnapshot
  PROVE  MboInv'
<1>0. PubInv /\ PubType
  BY DEF MboInv, PubInv
<1>1. PICK n, N, t, c : n = Len(sent) /\ N = Len(epochs) /\ t = Truth(N, n) /\ c = chan
  OBVIOUS
<1>2. PICK x : x = [id |-> Len(snaps) + 1, anchor |-> c, orders |-> t, total |-> Cardinality(Resting(t)),
                    last |-> n, epoch |-> N]
  OBVIOUS
<1>3. snaps' = Append(snaps, x) /\ UNCHANGED <<sent, chan, epochs, src, heard, book, mbo, told, log>>
  BY <1>1, <1>2 DEF PubSnapshot
<1>4. Further
  BY <1>0, <1>3 DEF Further, PubType
<1>5. N \in 1..N /\ n \in Nat /\ epochs[N] \in Epochs /\ epochs[N].start <= n /\ Len(snaps) \in Nat /\ snaps \in Seq(Snaps)
      /\ c \in Nat /\ N \in Nat
  BY <1>0, <1>1 DEF PubType
<1>6. epochs[N].start \in Nat /\ n \in epochs[N].start..n
  BY <1>5 DEF Epochs
<1>7. t \in Orders
  BY <1>0, <1>1, <1>4, <1>5, <1>6, TruthStays
<1>8. x \in Snaps
  BY <1>2, <1>5, <1>7, RestingFinite DEF Snaps
<1>9. /\ snaps' \in Seq(Snaps) /\ Len(snaps') = Len(snaps) + 1 /\ snaps'[Len(snaps) + 1] = x
      /\ \A s \in 1..Len(snaps) : s \in 1..Len(snaps') /\ snaps'[s] = snaps[s]
  BY <1>3, <1>5, <1>8
<1>10. PubType'
  BY <1>0, <1>3, <1>9 DEF PubType
<1>11. ASSUME NEW s \in 1..Len(snaps') PROVE Rotation(s)'
  <2>1. CASE s \in 1..Len(snaps)
    BY <1>0, <1>4, <1>9, <2>1, RotationStays DEF PubInv
  <2>2. CASE s = Len(snaps) + 1
    <3>1. snaps'[s] = x
      BY <1>9, <2>2
    <3>2. /\ x.id = s /\ x.epoch = N /\ x.last = n /\ x.orders = t /\ x.total = Cardinality(Resting(t))
      BY <1>2, <2>2
    <3>3. N \in 1..Len(epochs') /\ n \in epochs'[N].start..Len(sent') /\ Truth(N, n)' = t
      BY <1>1, <1>3, <1>5, <1>6 DEF Truth
    <3>4. ~Crossed(N, n)'
      <4>1. DOMAIN epochs' = 1..N
        BY <1>0, <1>1, <1>3 DEF PubType
      <4> QED BY <1>5, <4>1 DEF Crossed
    <3> QED BY <3>1, <3>2, <3>3, <3>4 DEF Rotation
  <2> QED BY <1>5, <1>9, <2>1, <2>2
<1>12. PubInv'
  <2>1. \A k \in 1..Len(sent'), e \in 1..Len(epochs') : epochs'[e].start < k => Sensible(e, k)'
    <3> SUFFICES ASSUME NEW k \in 1..Len(sent), NEW e \in 1..Len(epochs), epochs[e].start < k PROVE Sensible(e, k)'
      BY <1>3
    <3> QED BY <1>0, <1>4, SensibleStays DEF PubInv
  <2> QED BY <1>10, <1>11, <2>1 DEF PubInv
<1> QED BY <1>3, <1>4, <1>9, <1>12, PubMoves

LEMMA PubResetKeeps ==
  ASSUME MboInv, PubReset
  PROVE  MboInv'
<1>0. PubInv /\ PubType
  BY DEF MboInv, PubInv
<1>1. PICK n, N : n = Len(sent) /\ N = Len(epochs)
  OBVIOUS
<1>2. PICK x : x = [base |-> ResetBook, start |-> n, anchor |-> chan + 1]
  OBVIOUS
<1>3. epochs' = Append(epochs, x) /\ chan' = chan + 1 /\ UNCHANGED <<sent, snaps, src, heard, book, mbo, told, log>>
  BY <1>1, <1>2 DEF PubReset
<1>4. n \in Nat /\ N \in Nat /\ epochs \in Seq(Epochs) /\ chan \in Nat /\ ResetBook \in Orders /\ sent \in Seq(Sent)
  BY <1>0, <1>1, MboConstants DEF PubType, Orders
<1>5. x \in Epochs /\ x.start = n
  BY <1>2, <1>4 DEF Epochs
<1>6. /\ epochs' \in Seq(Epochs) /\ Len(epochs') = N + 1 /\ epochs'[N + 1] = x
      /\ \A e \in 1..N : epochs'[e] = epochs[e]
  BY <1>1, <1>3, <1>4, <1>5
<1>7. Further
  <2>1. \A f \in 1..Len(epochs') : f > N => f = N + 1
    BY <1>4, <1>6
  <2>2. \A f \in 1..Len(epochs') : f > Len(epochs) => Len(sent) <= epochs'[f].start
    BY <1>1, <1>4, <1>5, <1>6, <2>1
  <2> QED BY <1>1, <1>3, <1>4, <1>6, <2>2 DEF Further
<1>8. PubType'
  <2>1. \A e \in 1..Len(epochs') : epochs'[e].start <= Len(sent')
    <3> SUFFICES ASSUME NEW e \in 1..Len(epochs') PROVE epochs'[e].start <= Len(sent')
      OBVIOUS
    <3>1. CASE e \in 1..N
      BY <1>0, <1>1, <1>3, <1>6, <3>1 DEF PubType
    <3>2. CASE e = N + 1
      BY <1>1, <1>3, <1>4, <1>5, <1>6, <3>2
    <3> QED BY <1>4, <1>6, <3>1, <3>2
  <2>2. heard' \in 1..Len(epochs') /\ Len(epochs') > 0 /\ chan' \in Nat
    BY <1>0, <1>1, <1>3, <1>4, <1>6 DEF PubType
  <2> QED BY <1>0, <1>3, <1>6, <2>1, <2>2 DEF PubType
<1>9. ASSUME NEW s \in 1..Len(snaps') PROVE Rotation(s)'
  <2>1. s \in 1..Len(snaps) /\ snaps'[s] = snaps[s]
    BY <1>3
  <2> QED BY <1>0, <1>7, <2>1, RotationStays DEF PubInv
<1>10. ASSUME NEW k \in 1..Len(sent'), NEW e \in 1..Len(epochs'), epochs'[e].start < k PROVE Sensible(e, k)'
  <2>1. k \in 1..n
    BY <1>1, <1>3
  <2>2. CASE e \in 1..N
    <3>1. epochs[e].start < k /\ k \in 1..Len(sent) /\ e \in 1..Len(epochs)
      BY <1>1, <1>6, <1>10, <2>1, <2>2
    <3> QED BY <1>0, <1>7, <3>1, SensibleStays DEF PubInv
  <2>3. CASE e = N + 1
    BY <1>4, <1>5, <1>6, <1>10, <2>1, <2>3
  <2> QED BY <1>4, <1>6, <2>2, <2>3
<1>11. PubInv'
  BY <1>8, <1>9, <1>10 DEF PubInv
<1> QED BY <1>3, <1>7, <1>11, PubMoves

\* A step that leaves the wire as it is.
LEMMA WireStays ==
  ASSUME PubInv, UNCHANGED <<sent, epochs, snaps>>, chan' \in Nat, src' \in SourceId, heard' \in 1..Len(epochs)
  PROVE  Further /\ PubInv'
<1>0. PubType
  BY DEF PubInv
<1>1. Further
  BY <1>0 DEF Further, PubType
<1>2. PubType'
  BY <1>0 DEF PubType
<1>3. ASSUME NEW s \in 1..Len(snaps') PROVE Rotation(s)'
  <2>1. s \in 1..Len(snaps) /\ snaps'[s] = snaps[s]
    OBVIOUS
  <2> QED BY <1>0, <1>1, <2>1, RotationStays DEF PubInv
<1>4. ASSUME NEW k \in 1..Len(sent'), NEW e \in 1..Len(epochs'), epochs'[e].start < k PROVE Sensible(e, k)'
  <2>1. k \in 1..Len(sent) /\ e \in 1..Len(epochs) /\ epochs[e].start < k
    BY <1>4
  <2> QED BY <1>0, <1>1, <2>1, SensibleStays DEF PubInv
<1> QED BY <1>1, <1>2, <1>3, <1>4 DEF PubInv

LEMMA RenameKeeps ==
  ASSUME MboInv, Rename
  PROVE  MboInv'
<1>1. UNCHANGED <<sent, chan, epochs, snaps, heard, book, mbo, told, log>> /\ src' \in SourceId
  BY DEF Rename
<1>2. PubInv /\ chan' \in Nat /\ heard' \in 1..Len(epochs)
  BY <1>1 DEF MboInv, PubInv, PubType
<1>3. Further /\ PubInv'
  BY <1>1, <1>2, WireStays
<1> QED BY <1>1, <1>3, PubMoves

-----------------------------------------------------------------------------
(* The processor's steps.                                                    *)

\* Alike in all that is shown.
Resembles(h, g) ==
  /\ g.told = h.told /\ g.mbo.revealed = h.mbo.revealed /\ g.mbo.reported = h.mbo.reported
  /\ g.mbo.top = h.mbo.top
  /\ g.book.orders = h.book.orders /\ g.book.levels = h.book.levels /\ g.book.synced = h.book.synced
  /\ g.log.bare = h.log.bare /\ g.log.unshown = h.log.unshown /\ g.log.evicted = h.log.evicted

LEMMA ShownAlike ==
  ASSUME NEW h, NEW g, Shown(h), Resembles(h, g)
  PROVE  Shown(g)
<1>1. Loud(g) = Loud(h)
  BY DEF Loud, Resembles
<1>2. Tops(g)
  BY DEF Tops, Resembles, Shown
<1>3. Voices(g) /\ Quiet(g)
  BY <1>1, Zenon DEF Voices, Quiet, Resembles, Shown
<1>4. Displays(g)
  BY Zenon DEF Displays, Resembles, Shown
<1> QED BY <1>2, <1>3, <1>4 DEF Shown

\* A step of the processor alone, from what it leaves.
LEMMA BookMoves ==
  ASSUME MboInv, UNCHANGED <<sent, chan, epochs, snaps, src>>, heard' \in 1..Len(epochs),
         BookType', Shown(Here)', Assembles(book'.building, ~log'.open),
         book'.synced /\ ~log'.live => \E e \in heard'..Len(epochs) : Matches(book', e)
  PROVE  MboInv'
<1>0. PubInv /\ PubType
  BY DEF MboInv, PubInv
<1>1. Further /\ PubInv'
  BY <1>0, WireStays DEF PubType
<1>2. Assembles(book.building, ~log.open)'
  <2>1. PICK g, w : g = book'.building /\ w = (~log'.open)
    OBVIOUS
  <2>2. Assembles(g, w)
    BY <2>1
  <2>3. Assembles(g, w)'
    BY <2>2 DEF Assembles
  <2> QED BY <2>1, <2>3
<1>3. Faithful'
  <2> SUFFICES ASSUME book'.synced, ~log'.live PROVE \E e \in heard'..Len(epochs') : Matches(book, e)'
    BY DEF Faithful
  <2>1. PICK e \in heard'..Len(epochs) : Matches(book', e)
    OBVIOUS
  <2>2. PICK b : b = book'
    OBVIOUS
  <2>3. Matches(b, e)
    BY <2>1, <2>2
  <2>4. Matches(b, e)'
    BY <1>0, <1>1, <2>3, MatchesStays
  <2>5. Matches(book, e)'
    BY <2>2, <2>4
  <2> QED BY <2>5
<1> QED BY <1>1, <1>2, <1>3 DEF MboInv

\* The same from the outcome of a datagram.
LEMMA LeavesKeeps ==
  ASSUME MboInv, UNCHANGED <<sent, chan, epochs, snaps, src, heard>>, NEW h, Ready(h), Leaves(h),
         Assembles(h.book.building, ~h.log.open),
         h.book.synced /\ ~h.log.live => \E e \in heard..Len(epochs) : Matches(h.book, e)
  PROVE  MboInv'
<1>1. /\ BookType' /\ Shown(Here)' /\ book' = h.book
      /\ log'.open = h.log.open /\ log'.live = h.log.live
  BY LeavesShown
<1>2. heard' \in 1..Len(epochs) /\ heard' = heard
  BY DEF MboInv, PubInv, PubType
<1>3. Assembles(book'.building, ~log'.open)
  BY <1>1
<1>4. book'.synced /\ ~log'.live => \E e \in heard'..Len(epochs) : Matches(book', e)
  BY <1>1, <1>2
<1> QED BY <1>1, <1>2, <1>3, <1>4, BookMoves

LEMMA MktdataKeeps ==
  ASSUME MboInv, NEW n, Mktdata(n)
  PROVE  MboInv'
<1>0. PubInv /\ BookType /\ Shown(Here)
  BY DEF MboInv
<1>1. UNCHANGED <<sent, chan, epochs, snaps, src, heard>>
  BY DEF Mktdata, pub
<1>2. PICK h : Reached(h) /\ Leaves(h)
  BY <1>0, MktdataReached
<1>3. Ready(h)
  BY <1>0, <1>2, ReachedReady
<1>4. h.book.building = book.building /\ h.log = log
  BY <1>2 DEF Reached
<1>5. Assembles(h.book.building, ~h.log.open)
  BY <1>4 DEF MboInv
<1>6. ASSUME h.book.synced, ~h.log.live PROVE \E e \in heard..Len(epochs) : Matches(h.book, e)
  <2>1. book.synced /\ ~log.live /\ \A e : Matches(book, e) => Matches(h.book, e)
    BY <1>2, <1>4, <1>6, Zenon DEF Reached
  <2>2. PICK e \in heard..Len(epochs) : Matches(book, e)
    BY <2>1 DEF MboInv, Faithful
  <2> QED BY <2>1, <2>2
<1> QED BY <1>1, <1>2, <1>3, <1>5, <1>6, LeavesKeeps

\* An outcome with the book and the history as they were.
LEMMA SameBookKeeps ==
  ASSUME MboInv, UNCHANGED <<sent, chan, epochs, snaps, src, heard>>, NEW h, Ready(h), Leaves(h),
         h.book = book, h.log.open = log.open, h.log.live = log.live
  PROVE  MboInv'
<1>1. Assembles(h.book.building, ~h.log.open)
  BY DEF MboInv
<1>2. h.book.synced /\ ~h.log.live => \E e \in heard..Len(epochs) : Matches(h.book, e)
  BY DEF MboInv, Faithful
<1> QED BY <1>1, <1>2, LeavesKeeps

LEMMA TradeKeeps ==
  ASSUME MboInv, Trade
  PROVE  MboInv'
<1>0. Shown(Here) /\ Here \in Outcomes /\ src \in SourceId
  BY HereTyped DEF MboInv, PubInv, PubType
<1>1. UNCHANGED <<sent, chan, epochs, snaps, src, heard>> /\ Leaves(on_reveal(Here, src))
  BY DEF Trade, pub
<1> DEFINE h == on_reveal(Here, src)
<1>2. Reveals(Here, h) /\ (h = Here \/ (h.changed = TRUE /\ h.mode # "delta" /\ Here.mbo.defined))
  BY <1>0, OnRevealShown DEF Shown
<1> HIDE DEF h
<1>3. h \in Outcomes /\ h.book = book /\ h.log = log /\ Tops(h) /\ Voices(h) /\ h.mbo.defined = mbo.defined
      /\ Loud(h) \subseteq Loud(Here)
  BY <1>2, HereTyped DEF Reveals
<1>4. Quiet(h)
  BY <1>0, <1>3, HereTyped DEF Quiet, Shown
<1>5. Owed(h) /\ (h.changed => h.mbo.defined)
  <2>1. CASE h = Here
    <3>1. ~h.changed /\ Displays(h)
      BY <1>0, <2>1, HereTyped DEF Shown
    <3> QED BY <3>1, Zenon DEF Owed
  <2>2. CASE h.changed = TRUE /\ h.mode # "delta" /\ Here.mbo.defined
    BY <1>3, <2>2, HereTyped, Zenon DEF Owed
  <2> QED BY <1>2, <2>1, <2>2
<1>6. Ready(h)
  BY <1>3, <1>4, <1>5, Zenon DEF Ready
<1> QED BY <1>1, <1>3, <1>6, SameBookKeeps DEF h

LEMMA DefinitionKeeps ==
  ASSUME MboInv, NEW eager \in BOOLEAN, Definition(eager)
  PROVE  MboInv'
<1>0. Shown(Here) /\ Here \in Outcomes /\ src \in SourceId /\ mbo \in Memos /\ log \in Logs
  BY HereTyped DEF MboInv, PubInv, PubType, BookType
<1> DEFINE h == [Here EXCEPT !.mbo.defined = TRUE]
           r == reveal_if_needed(h, src)
           u == [r EXCEPT !.log.unshown = IF book.synced THEN @ \cup {src} ELSE @]
           z == IF ~eager \/ r = h THEN h ELSE u
<1>1. UNCHANGED <<sent, chan, epochs, snaps, src, heard>> /\ Leaves(z)
  BY Zenon DEF Definition, pub
<1> DEFINE m == [mbo EXCEPT !.defined = TRUE]
<1>2. /\ m \in Memos /\ m.revealed = mbo.revealed /\ m.reported = mbo.reported /\ m.top = mbo.top
  BY <1>0 DEF Memos
<1>3. h = [Here EXCEPT !.mbo = m]
  BY <1>0, HereTyped DEF Outcomes
<1> HIDE DEF m
<1>4. /\ h \in Outcomes /\ h.book = book /\ h.log = log /\ h.told = told /\ h.mbo = m /\ h.changed = FALSE
  BY <1>0, <1>2, <1>3, HereTyped DEF Outcomes
<1> HIDE DEF h
<1>5. Shown(h)
  <2>1. Resembles(Here, h)
    BY <1>2, <1>4, HereTyped DEF Resembles
  <2> QED BY <1>0, <2>1, ShownAlike
<1>6. CASE z = h
  <2>1. Ready(h)
    <3>1. Owed(h) /\ ~h.changed
      BY <1>4, <1>5, Zenon DEF Owed, Shown
    <3> QED BY <1>4, <1>5, <3>1, Zenon DEF Ready, Shown
  <2> QED BY <1>1, <1>4, <1>6, <2>1, SameBookKeeps
<1>7. CASE z = u /\ r # h
  <2>1. Reveals(h, r) /\ r.changed = h.changed /\ r.mbo.revealed = src
    BY <1>0, <1>4, <1>5, <1>7, RevealShown DEF Shown
  <2> HIDE DEF r
  <2>2. r \in Outcomes /\ r.book = book /\ r.log = log /\ Tops(r) /\ Voices(r) /\ Loud(r) \subseteq Loud(h)
    BY <1>4, <2>1 DEF Reveals
  <2> DEFINE w == IF book.synced THEN log.unshown \cup {src} ELSE log.unshown
             g == [log EXCEPT !.unshown = w]
  <2>3. w \in SUBSET SourceId /\ (book.synced => src \in w)
    BY <1>0 DEF Logs
  <2>4. u = [r EXCEPT !.log = g]
    BY <2>2 DEF Outcomes, Logs
  <2> HIDE DEF w
  <2>5. g \in Logs /\ g.open = log.open /\ g.live = log.live /\ g.evicted = log.evicted /\ g.unshown = w
    BY <1>0, <2>3 DEF Logs
  <2> HIDE DEF u, g
  <2>6. u \in Outcomes /\ u.book = book /\ u.log = g /\ u.told = r.told /\ u.mbo = r.mbo /\ u.changed = FALSE
    BY <1>4, <2>1, <2>2, <2>4, <2>5 DEF Outcomes
  <2>7. Loud(u) = Loud(r)
    BY <2>6 DEF Loud
  <2>8. Tops(u) /\ Voices(u)
    BY <2>2, <2>5, <2>6, <2>7 DEF Tops, Voices
  <2>9. Quiet(u)
    BY <1>4, <1>5, <2>2, <2>5, <2>6, <2>7 DEF Quiet, Shown
  <2>10. Displays(u)
    BY <2>1, <2>3, <2>5, <2>6 DEF Displays
  <2>11. Ready(u)
    BY <2>6, <2>8, <2>9, <2>10, Zenon DEF Ready, Owed
  <2>12. u.log.open = log.open /\ u.log.live = log.live /\ Leaves(u)
    BY <1>1, <1>7, <2>5, <2>6
  <2> HIDE DEF z
  <2> QED BY <1>1, <2>6, <2>11, <2>12, SameBookKeeps
<1> QED BY <1>6, <1>7, Zenon

\* A change of the memos that shows nothing.
LEMMA MemoKeeps ==
  ASSUME MboInv, UNCHANGED <<sent, chan, epochs, snaps, src, heard, book, told, log>>, mbo' \in Memos,
         mbo'.revealed = mbo.revealed, mbo'.reported = mbo.reported, mbo'.top = mbo.top
  PROVE  MboInv'
<1>1. BookType'
  BY DEF MboInv, BookType
<1>2. Shown(Here)'
  <2>1. Resembles(Here, Here')
    BY DEF Resembles, Here
  <2>2. PICK h, g : h = Here /\ g = Here'
    OBVIOUS
  <2>3. Shown(g)
    BY <2>1, <2>2, ShownAlike DEF MboInv
  <2> QED BY <2>2, <2>3
<1>3. heard' \in 1..Len(epochs)
  BY DEF MboInv, PubInv, PubType
<1>4. Assembles(book'.building, ~log'.open)
  BY DEF MboInv
<1>5. book'.synced /\ ~log'.live => \E e \in heard'..Len(epochs) : Matches(book', e)
  BY DEF MboInv, Faithful
<1> QED BY <1>1, <1>2, <1>3, <1>4, <1>5, BookMoves

LEMMA UndefineKeeps ==
  ASSUME MboInv, Undefine
  PROVE  MboInv'
<1>1. UNCHANGED <<sent, chan, epochs, snaps, src, heard, book, told, log>> /\ mbo' = [mbo EXCEPT !.defined = FALSE]
  BY DEF Undefine, pub
<1>2. mbo \in Memos
  BY DEF MboInv, BookType
<1>3. mbo' \in Memos /\ mbo'.revealed = mbo.revealed /\ mbo'.reported = mbo.reported /\ mbo'.top = mbo.top
  BY <1>1, <1>2 DEF Memos
<1> QED BY <1>1, <1>3, MemoKeeps

LEMMA IntervalKeeps ==
  ASSUME MboInv, IntervalPasses
  PROVE  MboInv'
<1>1. UNCHANGED <<sent, chan, epochs, snaps, src, heard, book, told, log>> /\ mbo' = [mbo EXCEPT !.recent = FALSE]
  BY DEF IntervalPasses, pub
<1>2. mbo \in Memos
  BY DEF MboInv, BookType
<1>3. mbo' \in Memos /\ mbo'.revealed = mbo.revealed /\ mbo'.reported = mbo.reported /\ mbo'.top = mbo.top
  BY <1>1, <1>2 DEF Memos
<1> QED BY <1>1, <1>3, MemoKeeps

\* A book that is empty and not synced.
LEMMA NewTyped == new \in Books /\ new.synced = FALSE /\ new.building = None
<1>1. NoPending \in [1..MaxDeltas -> Nat]
  BY DEF NoPending
<1> QED BY <1>1, LevelsEmpty DEF new, Books

\* Once told that the book is not synced, no one takes the path for healthy.
LEMMA Silenced ==
  ASSUME NEW h \in Outcomes, Voices(h), NEW r, r = set_synced(h, FALSE)
  PROVE  r \in Outcomes /\ Alike(h, r) /\ (h.log.evicted \/ Loud(r) = {})
<1> DEFINE s == h.mbo.revealed
<1>1. /\ r \in Outcomes /\ Alike(h, r)
      /\ s # None => /\ r.mbo.reported = FALSE
                     /\ r.told[s].synced = FALSE \/ (h.mbo.reported = FALSE /\ r.told = h.told)
      /\ s = None => r = h
  BY SyncedSet
<1>2. ASSUME ~h.log.evicted, NEW x \in SourceId, r.told[x].synced = TRUE PROVE FALSE
  <2>0. \A y \in Loud(h) : y = s /\ h.mbo.reported = TRUE
    BY <1>2 DEF Voices
  <2>1. CASE s = None
    <3>1. x \in Loud(h)
      BY <1>1, <1>2, <2>1 DEF Loud
    <3> QED BY <2>0, <2>1, <3>1, MboConstants
  <2>2. CASE s # None /\ x # s
    <3>1. r.told[x] = h.told[x]
      BY <1>1, <2>2 DEF Alike
    <3>2. x \in Loud(h)
      BY <1>2, <3>1 DEF Loud
    <3> QED BY <2>0, <2>2, <3>2
  <2>3. CASE s # None /\ x = s
    <3>1. h.mbo.reported = FALSE /\ r.told = h.told
      BY <1>1, <1>2, <2>3
    <3>2. x \in Loud(h)
      BY <1>2, <3>1 DEF Loud
    <3> QED BY <2>0, <3>1, <3>2
  <2> QED BY <2>1, <2>2, <2>3
<1> QED BY <1>1, <1>2 DEF Loud

\* A book that goes, with what is shown of it: nothing more is claimed of the path.
LEMMA GoneShown ==
  ASSUME BookType, Shown(Here), NEW r, r = set_synced(Here, FALSE), log' = log,
         told' = [s \in SourceId |-> IF s = mbo.revealed THEN [r.told[s] EXCEPT !.depth = None] ELSE r.told[s]],
         NEW m \in Memos, mbo' = m, m.top = None, book' \in Books, book'.synced = FALSE
  PROVE  BookType' /\ Shown(Here)'
<1>1. Here \in Outcomes /\ Here.log = log
  BY HereTyped
<1>2. r \in Outcomes /\ Alike(Here, r) /\ (log.evicted \/ Loud(r) = {})
  BY <1>1, Silenced DEF Shown
<1>3. r.told \in [SourceId -> Shows]
  BY <1>2 DEF Outcomes
<1>4. told' \in [SourceId -> Shows] /\ \A s \in SourceId : told'[s].synced = r.told[s].synced
  <2> DEFINE Val(s) == IF s = mbo.revealed THEN [r.told[s] EXCEPT !.depth = None] ELSE r.told[s]
  <2>1. ASSUME NEW s \in SourceId PROVE Val(s) \in Shows /\ Val(s).synced = r.told[s].synced
    <3>1. PICK x \in Shows : x = r.told[s]
      BY <1>3
    <3>2. [x EXCEPT !.depth = None] \in Shows /\ [x EXCEPT !.depth = None].synced = x.synced
      BY DEF Shows
    <3> QED BY <3>1, <3>2
  <2>2. told' = [s \in SourceId |-> Val(s)]
    OBVIOUS
  <2>3. \A s \in SourceId : Val(s) \in Shows /\ Val(s).synced = r.told[s].synced
    BY <2>1
  <2> HIDE DEF Val
  <2>4. PICK t : t = told'
    OBVIOUS
  <2>5. t = [s \in SourceId |-> Val(s)]
    BY <2>2, <2>4
  <2>6. t \in [SourceId -> Shows] /\ \A s \in SourceId : t[s].synced = r.told[s].synced
    BY ONLY <2>3, <2>5
  <2> QED BY <2>4, <2>6
<1>5. BookType'
  BY <1>4 DEF BookType
<1>6. PICK g : g = Here'
  OBVIOUS
<1>7. g.book = book' /\ g.mbo = m /\ g.told = told' /\ g.log = log
  BY <1>6 DEF Here
<1>8. Loud(g) = Loud(r)
  BY <1>4, <1>7 DEF Loud
<1>9. Tops(g) /\ Displays(g)
  BY <1>7 DEF Tops, Displays
<1>10. Voices(g) /\ Quiet(g)
  BY <1>2, <1>7, <1>8 DEF Voices, Quiet
<1>11. Shown(g)
  BY <1>9, <1>10 DEF Shown
<1> QED BY <1>5, <1>6, <1>11

LEMMA ResetKeeps ==
  ASSUME MboInv, NEW e \in DOMAIN epochs, InstrumentReset(e)
  PROVE  MboInv'
<1>0. PubType /\ BookType /\ Shown(Here)
  BY DEF MboInv, PubInv
<1>1. UNCHANGED <<sent, chan, epochs, snaps, src, log>> /\ heard' = e
  BY DEF InstrumentReset, pub
<1>2. PICK r : /\ r = set_synced(Here, FALSE)
               /\ told' = [s \in SourceId |->
                     IF s = mbo.revealed THEN [r.told[s] EXCEPT !.depth = None] ELSE r.told[s]]
               /\ mbo' = [r.mbo EXCEPT !.revealed = None, !.recent = FALSE, !.top = None]
  BY DEF InstrumentReset
<1>3. book' \in Books /\ book'.synced = FALSE /\ book'.building = None
  <2> DEFINE p == [k \in 1..MaxDeltas |->
                     IF k <= Len(sent) /\ sent[k].mkt > epochs[e].anchor THEN book.pending[k] ELSE 0]
  <2>1. book \in Books /\ book.pending \in [1..MaxDeltas -> Nat]
    BY <1>0 DEF BookType, Books
  <2>2. p \in [1..MaxDeltas -> Nat]
    BY <2>1
  <2>3. book' = [Dropped(book) EXCEPT !.building = None, !.pending = p]
    BY Zenon DEF InstrumentReset, on_instrument_reset
  <2>4. Dropped(book) \in Books /\ Dropped(book).synced = FALSE
    BY <2>1, LevelsEmpty DEF Dropped, Books
  <2> HIDE DEF p
  <2> QED BY <2>2, <2>3, <2>4 DEF Books
<1>4. r.mbo \in Memos
  <2>1. r \in Outcomes
    BY <1>0, <1>2, HereTyped, Silenced DEF Shown
  <2> QED BY <2>1 DEF Outcomes
<1>5. PICK m : m = [r.mbo EXCEPT !.revealed = None, !.recent = FALSE, !.top = None]
  OBVIOUS
<1>6. m \in Memos /\ m.top = None /\ mbo' = m
  BY <1>2, <1>4, <1>5 DEF Memos
<1>7. BookType' /\ Shown(Here)'
  BY <1>0, <1>1, <1>2, <1>3, <1>6, GoneShown
<1>8. heard' \in 1..Len(epochs)
  BY <1>0, <1>1 DEF PubType
<1>9. Assembles(book'.building, ~log'.open) /\ ~book'.synced
  BY <1>3 DEF Assembles
<1> QED BY <1>1, <1>7, <1>8, <1>9, BookMoves

\* A session begins with nothing sent.
Fresh ==
  /\ sent = <<>> /\ chan = 0 /\ snaps = <<>> /\ src \in SourceId /\ heard = 1
  /\ epochs = <<[base |-> FirstBook, start |-> 0, anchor |-> 0]>>

LEMMA FirstEpoch == Fresh => PubInv
<1> SUFFICES ASSUME Fresh PROVE PubInv
  OBVIOUS
<1> DEFINE x == [base |-> FirstBook, start |-> 0, anchor |-> 0]
<1>1. x \in Epochs /\ x.start = 0
  BY MboConstants DEF Epochs, Orders
<1> HIDE DEF x
<1>2. epochs = <<x>> /\ sent = <<>> /\ snaps = <<>> /\ chan = 0 /\ src \in SourceId /\ heard = 1
  BY DEF x, Fresh
<1>3. epochs \in Seq(Epochs) /\ Len(epochs) = 1 /\ epochs[1] = x
  BY <1>1, <1>2
<1>4. sent \in Seq(Sent) /\ Len(sent) = 0 /\ snaps \in Seq(Snaps) /\ Len(snaps) = 0 /\ 0 <= MaxDeltas
  BY <1>2, OrderBookConstants
<1>5. \A e \in 1..Len(epochs) : epochs[e].start <= Len(sent)
  BY <1>1, <1>3, <1>4
<1>6. PubType
  BY <1>2, <1>3, <1>4, <1>5 DEF PubType
<1> QED BY <1>4, <1>6 DEF PubInv

LEMMA SessionKeeps ==
  ASSUME MboInv, EndOfSession
  PROVE  MboInv'
<1>0. PubType /\ BookType /\ Shown(Here)
  BY DEF MboInv, PubInv
<1>1. PICK r : /\ r = set_synced(Here, FALSE)
               /\ told' = [s \in SourceId |->
                     IF s = mbo.revealed THEN [r.told[s] EXCEPT !.depth = None] ELSE r.told[s]]
               /\ mbo' = [r.mbo EXCEPT !.top = None]
  BY DEF EndOfSession
<1>2. book' \in Books /\ book'.synced = FALSE /\ book'.building = None
  BY NewTyped DEF EndOfSession, on_end_of_session
<1>3. r.mbo \in Memos
  <2>1. r \in Outcomes
    BY <1>0, <1>1, HereTyped, Silenced DEF Shown
  <2> QED BY <2>1 DEF Outcomes
<1>4. PICK m : m = [r.mbo EXCEPT !.top = None]
  OBVIOUS
<1>5. m \in Memos /\ m.top = None /\ mbo' = m
  BY <1>1, <1>3, <1>4 DEF Memos
<1>6. log' = log
  BY DEF EndOfSession
<1>7. BookType' /\ Shown(Here)'
  BY <1>0, <1>1, <1>2, <1>5, <1>6, GoneShown
<1>8. Fresh'
  BY <1>0 DEF EndOfSession, PubType, Fresh
<1>9. PubInv'
  BY <1>8, FirstEpoch, PTL
<1>10. Assembles(book.building, ~log.open)' /\ Faithful'
  BY <1>2 DEF Assembles, Faithful
<1> QED BY <1>7, <1>9, <1>10 DEF MboInv

LEMMA EvictKeeps ==
  ASSUME MboInv, Evict
  PROVE  MboInv'
<1>0. PubType /\ BookType
  BY DEF MboInv, PubInv
<1>1. /\ UNCHANGED <<sent, chan, epochs, snaps, src, heard>> /\ book' = new
      /\ mbo' = [NoMemos EXCEPT !.defined = mbo.defined] /\ log' = [log EXCEPT !.evicted = TRUE]
      /\ told' = [s \in SourceId |-> IF s = mbo.revealed /\ mbo.defined
                                       THEN [told[s] EXCEPT !.depth = None] ELSE told[s]]
  BY DEF Evict, pub
<1>2. mbo' \in Memos /\ mbo'.revealed = None /\ mbo'.top = None
  BY <1>0, <1>1 DEF NoMemos, Memos, BookType
<1>3. log' \in Logs /\ log'.evicted = TRUE
  BY <1>0, <1>1 DEF Logs, BookType
<1>4. told' \in [SourceId -> Shows]
  <2>1. told \in [SourceId -> Shows]
    BY <1>0 DEF BookType
  <2> QED BY <1>1, <2>1 DEF Shows
<1>5. BookType'
  BY <1>1, <1>2, <1>3, <1>4, NewTyped DEF BookType
<1>6. Shown(Here)'
  <2>1. PICK g : g = Here'
    OBVIOUS
  <2>2. g.mbo = mbo' /\ g.log = log'
    BY <2>1 DEF Here
  <2>3. Shown(g)
    BY <1>2, <1>3, <2>2 DEF Shown, Tops, Voices, Quiet, Displays
  <2> QED BY <2>1, <2>3
<1>7. heard' \in 1..Len(epochs)
  BY <1>0, <1>1 DEF PubType
<1>8. Assembles(book'.building, ~log'.open) /\ ~book'.synced
  BY <1>1, NewTyped DEF Assembles
<1> QED BY <1>1, <1>5, <1>6, <1>7, <1>8, BookMoves

\* A book in which only what is under assembly differs.
Otherwise(b, c) ==
  c \in Books /\ c.orders = b.orders /\ c.levels = b.levels /\ c.synced = b.synced /\ c.seq = b.seq

LEMMA OtherwiseFaithful ==
  ASSUME Faithful, NEW c, Otherwise(book, c), c.synced, ~log.live
  PROVE  \E e \in heard..Len(epochs) : Matches(c, e)
<1>1. PICK e \in heard..Len(epochs) : Matches(book, e)
  BY DEF Faithful, Otherwise
<1>2. Matches(c, e)
  BY <1>1 DEF Matches, Otherwise
<1> QED BY <1>2

\* SnapshotBegin: what is begun has nothing of its rotation yet.
LEMMA BeginAssembles ==
  ASSUME PubInv, NEW b \in Books, NEW s \in 1..Len(snaps), NEW c, c = on_snapshot_begin(b, snaps[s])
  PROVE  Otherwise(b, c) /\ Assembles(c.building, TRUE)
<1>1. CASE c = [b EXCEPT !.building = None]
  <2>1. Otherwise(b, c) /\ c.building = None
    BY <1>1 DEF Otherwise, Books
  <2> QED BY <2>1 DEF Assembles
<1> DEFINE x == snaps[s]
           g == [id |-> x.id, anchor |-> x.anchor, total |-> x.total, received |-> 0, last |-> x.last,
                 orders |-> Empty, levels |-> Flat]
<1>2. CASE c = [b EXCEPT !.building = g]
  <2>1. x \in Snaps /\ x.id = s
    BY DEF PubInv, PubType, Rotation
  <2>2. g \in Buildings
    BY <2>1, LevelsEmpty DEF Snaps, Buildings
  <2>3. g.id = s /\ g.total = x.total /\ g.last = x.last /\ g.received = 0 /\ g.orders = Empty /\ g.levels = Flat
    BY <2>1
  <2> HIDE DEF g
  <2>4. Otherwise(b, c) /\ c.building = g
    BY <1>2, <2>2 DEF Otherwise, Books
  <2>5. Part(g, x.orders)
    <3>1. \A o \in OrderId : g.orders[o] = 0
      BY <2>3 DEF Empty
    <3>2. Resting(g.orders) = {}
      BY <3>1 DEF Resting
    <3>3. Cardinality({}) = 0
      BY FS_EmptySet
    <3> QED BY <2>3, <3>1, <3>2, <3>3, LevelsEmpty DEF Part
  <2>6. Assembles(g, TRUE)
    BY <2>3, <2>5 DEF Assembles
  <2> QED BY <2>4, <2>6
<1> QED BY <1>1, <1>2, Zenon DEF on_snapshot_begin

\* An outcome of a book in which only what is under assembly differs can be published.
LEMMA OtherwiseReady ==
  ASSUME BookType, Shown(Here), NEW h \in Outcomes, Otherwise(book, h.book), h.mbo = mbo, h.told = told,
         h.log.bare = log.bare, h.log.unshown = log.unshown, h.log.evicted = log.evicted, h.changed = FALSE
  PROVE  Ready(h)
<1>1. Resembles(Here, h)
  BY HereTyped DEF Resembles, Otherwise
<1>2. Shown(h)
  BY <1>1, ShownAlike
<1>3. Owed(h)
  BY <1>2, Zenon DEF Owed, Shown
<1> QED BY <1>2, <1>3, Zenon DEF Ready, Shown

LEMMA BeginKeeps ==
  ASSUME MboInv, NEW s \in DOMAIN snaps, SnapshotBegin(s)
  PROVE  MboInv'
<1>0. PubInv /\ PubType /\ BookType /\ Shown(Here) /\ Faithful /\ s \in 1..Len(snaps) /\ Here \in Outcomes
      /\ book \in Books /\ log \in Logs
  BY HereTyped DEF MboInv, PubInv, PubType, BookType
<1> DEFINE c == IF mbo.defined THEN on_snapshot_begin(book, snaps[s]) ELSE book
           w == IF mbo.defined THEN FALSE ELSE log.open
           g == [log EXCEPT !.open = w]
           h == [Here EXCEPT !.touched = TRUE,
                   !.book = IF mbo.defined THEN on_snapshot_begin(@, snaps[s]) ELSE @,
                   !.log.open = IF mbo.defined THEN FALSE ELSE @]
<1>1. UNCHANGED <<sent, chan, epochs, snaps, src, heard>> /\ Leaves(h)
  BY Zenon DEF SnapshotBegin, pub
<1>2. h = [Here EXCEPT !.touched = TRUE, !.book = c, !.log = g]
  BY <1>0, HereTyped DEF Outcomes, Logs
<1>3. Otherwise(book, c) /\ w \in BOOLEAN /\ Assembles(c.building, ~w)
  <2>1. CASE mbo.defined
    <3>1. Otherwise(book, c) /\ Assembles(c.building, TRUE)
      BY <1>0, <2>1, BeginAssembles
    <3> QED BY <2>1, <3>1
  <2>2. CASE ~mbo.defined
    BY <1>0, <2>2 DEF Otherwise, MboInv, Logs
  <2> QED BY <2>1, <2>2
<1> HIDE DEF c, w
<1>4. /\ g \in Logs /\ g.open = w /\ g.live = log.live /\ g.evicted = log.evicted /\ g.bare = log.bare
      /\ g.unshown = log.unshown
  BY <1>0, <1>3 DEF Logs
<1>5. c \in Books
  BY <1>3 DEF Otherwise
<1> HIDE DEF g, h
<1>6. h \in Outcomes /\ h.book = c /\ h.log = g /\ h.mbo = mbo /\ h.told = told /\ h.changed = FALSE
  BY <1>0, <1>2, <1>4, <1>5, HereTyped DEF Outcomes
<1>7. Ready(h)
  BY <1>0, <1>3, <1>4, <1>6, OtherwiseReady
<1>8. Assembles(h.book.building, ~h.log.open)
  BY <1>3, <1>4, <1>6
<1>9. h.book.synced /\ ~h.log.live => \E e \in heard..Len(epochs) : Matches(h.book, e)
  BY <1>0, <1>3, <1>4, <1>6, OtherwiseFaithful
<1> QED BY <1>1, <1>7, <1>8, <1>9, LeavesKeeps

\* SnapshotOrder: an order of the rotation that was not there yet.
LEMMA OrderPart ==
  ASSUME NEW g \in Buildings, NEW t \in Orders, Part(g, t), NEW o \in Resting(t), g.orders[o] = 0,
         NEW f \in Buildings, f.orders = [g.orders EXCEPT ![o] = t[o]], f.received = g.received + 1,
         f.levels = level_add(g.levels, o, t[o])
  PROVE  Part(f, t)
<1>1. o \in OrderId /\ t[o] \in Nat /\ t[o] > 0 /\ g.orders \in Orders /\ g.levels \in Levels
  BY DEF Resting, Orders, Buildings
<1>2. \A x \in OrderId : f.orders[x] \in {0, t[x]}
  BY <1>1 DEF Part, Orders
<1>3. f.levels = Totals(f.orders)
  BY <1>1, LevelAdded DEF Part
<1>4. Resting(f.orders) = Resting(g.orders) \cup {o} /\ o \notin Resting(g.orders)
  BY <1>1 DEF Resting, Orders
<1>5. IsFiniteSet(Resting(g.orders)) /\ Cardinality(Resting(g.orders)) \in Nat
  BY RestingFinite
<1>6. Cardinality(Resting(f.orders)) = Cardinality(Resting(g.orders)) + 1
  BY <1>4, <1>5, FS_AddElement
<1> QED BY <1>2, <1>3, <1>6 DEF Part

LEMMA OrderKeeps ==
  ASSUME MboInv, NEW s \in DOMAIN snaps, NEW o \in Resting(snaps[s].orders), SnapshotOrder(s, o)
  PROVE  MboInv'
<1>0. PubInv /\ PubType /\ BookType /\ Shown(Here) /\ Faithful /\ s \in 1..Len(snaps)
      /\ book \in Books /\ log \in Logs /\ Assembles(book.building, ~log.open)
  BY DEF MboInv, PubInv, PubType, BookType
<1> DEFINE g == book.building
           x == snaps[s]
           q == x.orders[o]
<1>1. /\ UNCHANGED <<sent, chan, epochs, snaps, src, heard, mbo, told>> /\ book' = on_snapshot_order(book, x.id, o, q)
      /\ log' = [log EXCEPT !.open = @ \/ (book' # book /\ book.building.orders[o] > 0)]
  BY DEF SnapshotOrder, pub
<1>2. /\ log' \in Logs /\ log'.live = log.live /\ log'.evicted = log.evicted /\ log'.bare = log.bare
      /\ log'.unshown = log.unshown /\ (log'.open <=> log.open \/ (book' # book /\ g.orders[o] > 0))
  <2> DEFINE w == log.open \/ (book' # book /\ g.orders[o] > 0)
  <2>1. w \in BOOLEAN /\ log' = [log EXCEPT !.open = w]
    BY <1>0, <1>1 DEF Logs
  <2> HIDE DEF w
  <2>2. /\ log' \in Logs /\ log'.live = log.live /\ log'.evicted = log.evicted /\ log'.bare = log.bare
        /\ log'.unshown = log.unshown /\ log'.open = w
    BY <1>0, <2>1 DEF Logs
  <2> QED BY <2>2 DEF w
<1>3. x \in Snaps /\ x.id = s /\ x.orders \in Orders /\ o \in OrderId /\ q \in Nat /\ q > 0
  <2>1. x \in Snaps /\ Rotation(s)
    BY <1>0 DEF PubInv, PubType
  <2>2. x.orders \in Orders /\ o \in OrderId /\ x.id = s
    BY <2>1 DEF Snaps, Resting, Rotation
  <2> HIDE DEF x
  <2> QED BY <2>1, <2>2 DEF Resting, Orders, x
<1>4. Otherwise(book, book') /\ Assembles(book'.building, ~log'.open)
  <2>1. CASE book' = book
    BY <1>0, <1>2, <2>1 DEF Otherwise, Assembles
  <2>2. CASE book' # book
    <3> DEFINE f == [g EXCEPT !.orders[o] = q, !.received = g.received + 1, !.levels = level_add(g.levels, o, q)]
    <3>1. book' = [book EXCEPT !.building = f] /\ g # None /\ g.id = s
      <4>1. x.id = s
        BY <1>3
      <4> HIDE DEF x, q
      <4> QED BY <1>1, <2>2, <4>1, Zenon DEF on_snapshot_order
    <3>2. g \in Buildings
      BY <1>0, <3>1 DEF Books
    <3>3. g.orders \in Orders /\ g.levels \in Levels /\ g.received \in Nat
      BY <3>2 DEF Buildings
    <3>4. level_add(g.levels, o, q) \in Levels /\ [g.orders EXCEPT ![o] = q] \in Orders
      BY <1>3, <3>3, LevelAdded DEF Orders
    <3> HIDE DEF q, x, g
    <3>5. /\ f \in Buildings /\ f.orders = [g.orders EXCEPT ![o] = q] /\ f.received = g.received + 1
          /\ f.levels = level_add(g.levels, o, q) /\ f.id = g.id /\ f.total = g.total /\ f.last = g.last
      <4>1. PICK u, v, n : u = [g.orders EXCEPT ![o] = q] /\ v = level_add(g.levels, o, q) /\ n = g.received + 1
        OBVIOUS
      <4>2. f = [g EXCEPT !.orders = u, !.received = n, !.levels = v]
        BY <3>2, <4>1 DEF Buildings
      <4>3. u \in Orders /\ v \in Levels /\ n \in Nat
        BY <3>3, <3>4, <4>1
      <4> HIDE DEF f
      <4>4. /\ f \in Buildings /\ f.orders = u /\ f.received = n /\ f.levels = v
            /\ f.id = g.id /\ f.total = g.total /\ f.last = g.last
        BY <3>2, <4>2, <4>3 DEF Buildings
      <4> QED BY <4>1, <4>4
    <3> HIDE DEF f
    <3>6. Otherwise(book, book') /\ book'.building = f
      BY <1>0, <3>1, <3>5 DEF Otherwise, Books
    <3>7. g.total = x.total /\ g.last = x.last /\ (~log.open => Part(g, x.orders))
      BY <1>0, <3>1 DEF Assembles, g, x
    <3>8. ASSUME ~log'.open PROVE Part(f, x.orders)
      <4>1. ~log.open /\ g.orders[o] = 0
        BY <1>2, <1>3, <2>2, <3>3, <3>8 DEF Orders, g
      <4>2. Part(g, x.orders) /\ o \in Resting(x.orders) /\ q = x.orders[o]
        BY <3>7, <4>1 DEF x, q
      <4> QED BY <1>3, <3>2, <3>5, <4>1, <4>2, OrderPart
    <3>9. Assembles(f, ~log'.open)
      BY <1>0, <3>1, <3>5, <3>7, <3>8 DEF Assembles, x
    <3> QED BY <3>6, <3>9
  <2> QED BY <2>1, <2>2
<1>5. BookType'
  BY <1>0, <1>1, <1>2, <1>4 DEF BookType, Otherwise
<1>6. Shown(Here)'
  <2>1. PICK y, z : y = Here /\ z = Here'
    OBVIOUS
  <2>2. Resembles(y, z)
    BY <1>1, <1>2, <1>4, <2>1 DEF Resembles, Here, Otherwise
  <2>3. Shown(z)
    BY <1>0, <2>1, <2>2, ShownAlike
  <2> QED BY <2>1, <2>3
<1>7. heard' \in 1..Len(epochs) /\ heard' = heard
  BY <1>0, <1>1 DEF PubType
<1>8. book'.synced /\ ~log'.live => \E e \in heard'..Len(epochs) : Matches(book', e)
  BY <1>0, <1>2, <1>4, <1>7, OtherwiseFaithful
<1> QED BY <1>1, <1>4, <1>5, <1>6, <1>7, <1>8, BookMoves

\* SnapshotEnd: what it makes of the book, when it installs what was assembled and when not.
LEMMA EndMoves ==
  ASSUME PubInv, NEW b \in Books, NEW whole, Assembles(b.building, whole),
         NEW s \in 1..Len(snaps), NEW r, r = on_snapshot_end(b, snaps[s].anchor, snaps[s].id, sent)
  PROVE  /\ r.book \in Books /\ r.took \in BOOLEAN
         /\ r.took => /\ r.book.building = None
                      /\ r.book.synced /\ whole => Matches(r.book, snaps[s].epoch)
         /\ ~r.took => /\ r.book = b \/ (r.book.building = None /\ r.book.synced = FALSE)
<1>0. Rotation(s)
  BY DEF PubInv
<1>1. snaps[s].id = s
  BY <1>0 DEF Rotation
<1> DEFINE g == b.building
<1>2. CASE g = None
  <2>1. r = Left(b)
    BY <1>2 DEF on_snapshot_end
  <2>2. r.book = b /\ r.took = FALSE
    BY <2>1 DEF Left
  <2> QED BY <2>2
<1>3. CASE g # None /\ Complete(b, snaps[s].anchor, snaps[s].id)
  <2> DEFINE c == install(b, sent)
  <2>1. r = Took(c, <<>>)
    BY <1>3, Zenon DEF on_snapshot_end
  <2>2. r.book = c /\ r.took = TRUE
    BY <2>1 DEF Took
  <2>3. g.id = s /\ g.received = g.total
    BY <1>1, <1>3 DEF Complete
  <2>4. c \in Books /\ c.building = None /\ (c.synced /\ whole => Matches(c, snaps[g.id].epoch))
    BY <1>3, <2>3, InstallMatches
  <2> HIDE DEF c, g
  <2> QED BY <2>2, <2>3, <2>4
<1>4. CASE g # None /\ ~Complete(b, snaps[s].anchor, snaps[s].id)
  <2> DEFINE c == [b EXCEPT !.building = None, !.synced = FALSE]
  <2>1. r = Left(c)
    BY <1>4, Zenon DEF on_snapshot_end
  <2>2. r.book = c /\ r.took = FALSE
    BY <2>1 DEF Left
  <2>3. c \in Books /\ c.building = None /\ c.synced = FALSE
    BY DEF Books
  <2> HIDE DEF c
  <2> QED BY <2>2, <2>3
<1> QED BY <1>2, <1>3, <1>4

LEMMA EndKeeps ==
  ASSUME MboInv, NEW s \in DOMAIN snaps, SnapshotEnd(s)
  PROVE  MboInv'
<1>0. PubInv /\ PubType /\ BookType /\ Shown(Here) /\ Faithful /\ s \in 1..Len(snaps)
      /\ book \in Books /\ log \in Logs /\ Here \in Outcomes /\ Assembles(book.building, ~log.open)
  BY HereTyped DEF MboInv, PubInv, PubType, BookType
<1> DEFINE r == on_snapshot_end(book, snaps[s].anchor, snaps[s].id, sent)
           d == [Here EXCEPT !.touched = TRUE]
           u == [Here EXCEPT !.touched = TRUE, !.book = r.book,
                   !.changed = r.took, !.mode = IF r.took THEN "rebaseline" ELSE "delta",
                   !.log.live = IF r.took THEN log.open \/ snaps[s].epoch < heard ELSE @]
           h == IF ~mbo.defined THEN d ELSE u
<1>1. UNCHANGED <<sent, chan, epochs, snaps, src, heard>> /\ Leaves(h)
  BY Zenon DEF SnapshotEnd, pub
<1>2. /\ r.book \in Books /\ r.took \in BOOLEAN
      /\ r.took => /\ r.book.building = None
                   /\ r.book.synced /\ ~log.open => Matches(r.book, snaps[s].epoch)
      /\ ~r.took => /\ r.book = book \/ (r.book.building = None /\ r.book.synced = FALSE)
  BY <1>0, EndMoves
<1> HIDE DEF r
<1>3. CASE ~mbo.defined
  <2>1. h = d
    BY <1>3
  <2>2. d \in Outcomes /\ d.book = book /\ d.log = log /\ d.mbo = mbo /\ d.told = told /\ d.changed = FALSE
    BY <1>0, HereTyped DEF Outcomes
  <2> HIDE DEF d, h
  <2>3. Ready(d)
    BY <1>0, <2>2, OtherwiseReady DEF Otherwise
  <2> QED BY <1>1, <2>1, <2>2, <2>3, SameBookKeeps
<1>4. CASE mbo.defined
  <2> DEFINE v == IF r.took THEN log.open \/ snaps[s].epoch < heard ELSE log.live
             g == [log EXCEPT !.live = v]
             md == IF r.took THEN "rebaseline" ELSE "delta"
  <2>1. h = u
    BY <1>4
  <2>2. u = [Here EXCEPT !.touched = TRUE, !.book = r.book, !.changed = r.took, !.mode = md, !.log = g]
    BY <1>0, HereTyped DEF Outcomes, Logs
  <2>3. v \in BOOLEAN /\ md \in Modes
    BY <1>0 DEF Logs, Modes
  <2>4. /\ r.took => md = "rebaseline" /\ (v <=> log.open \/ snaps[s].epoch < heard)
        /\ ~r.took => v = log.live
    OBVIOUS
  <2> HIDE DEF v, md
  <2>5. /\ g \in Logs /\ g.open = log.open /\ g.live = v /\ g.evicted = log.evicted /\ g.bare = log.bare
        /\ g.unshown = log.unshown
    BY <1>0, <2>3 DEF Logs
  <2> HIDE DEF g, u, h
  <2>6. /\ u \in Outcomes /\ u.book = r.book /\ u.log = g /\ u.mbo = mbo /\ u.told = told
        /\ u.changed = r.took /\ u.mode = md /\ u.touched = TRUE
    BY <1>0, <1>2, <2>2, <2>3, <2>5, HereTyped DEF Outcomes
  <2>7. CASE r.took
    <3>1. Loud(u) = Loud(Here)
      BY <2>6, HereTyped DEF Loud
    <3>2. Tops(u) /\ Voices(u)
      BY <1>0, <2>5, <2>6, <3>1, HereTyped DEF Tops, Voices, Shown
    <3>3. Owed(u) /\ (u.changed => u.mbo.defined)
      BY <1>4, <2>4, <2>6, <2>7, Zenon DEF Owed
    <3>4. Ready(u)
      BY <2>6, <3>2, <3>3, Zenon DEF Ready
    <3>5. Assembles(u.book.building, ~u.log.open)
      BY <1>2, <2>6, <2>7 DEF Assembles
    <3>6. ASSUME u.book.synced, ~u.log.live PROVE \E e \in heard..Len(epochs) : Matches(u.book, e)
      <4>1. ~log.open /\ ~(snaps[s].epoch < heard)
        BY <2>4, <2>5, <2>6, <2>7, <3>6
      <4>2. Matches(u.book, snaps[s].epoch)
        BY <1>2, <2>6, <2>7, <3>6, <4>1
      <4>3. PICK e : e = snaps[s].epoch
        OBVIOUS
      <4>4. e \in 1..Len(epochs) /\ heard \in Nat /\ Len(epochs) \in Nat
        BY <1>0, <4>2, <4>3 DEF Matches, PubType
      <4>5. e \in heard..Len(epochs)
        BY <4>1, <4>3, <4>4
      <4> QED BY <4>2, <4>3, <4>5
    <3> QED BY <1>1, <2>1, <3>4, <3>5, <3>6, LeavesKeeps
  <2>8. CASE ~r.took /\ r.book = book
    <3>0. Otherwise(book, u.book) /\ u.changed = FALSE
      BY <1>0, <1>2, <2>6, <2>8 DEF Otherwise
    <3>1. Ready(u)
      BY <1>0, <2>5, <2>6, <3>0, OtherwiseReady
    <3>2. u.book = book /\ u.log.open = log.open /\ u.log.live = log.live
      BY <2>4, <2>5, <2>6, <2>8
    <3> QED BY <1>1, <2>1, <3>1, <3>2, SameBookKeeps
  <2>9. CASE ~r.took /\ r.book.building = None /\ r.book.synced = FALSE
    <3>1. Loud(u) = Loud(Here)
      BY <2>6, HereTyped DEF Loud
    <3>2. Tops(u) /\ Voices(u)
      BY <1>0, <2>5, <2>6, <3>1, HereTyped DEF Tops, Voices, Shown
    <3>3. Displays(u)
      BY <2>6, <2>9 DEF Displays
    <3>4. Owed(u) /\ ~u.changed
      BY <2>6, <2>9, <3>3, Zenon DEF Owed
    <3>5. Ready(u)
      BY <2>6, <3>2, <3>4, Zenon DEF Ready
    <3>6. Assembles(u.book.building, ~u.log.open) /\ ~u.book.synced
      BY <2>6, <2>9 DEF Assembles
    <3> QED BY <1>1, <2>1, <3>5, <3>6, LeavesKeeps
  <2> QED BY <1>2, <2>7, <2>8, <2>9
<1> QED BY <1>3, <1>4

-----------------------------------------------------------------------------
(* The theorems.                                                             *)

LEMMA MboInit == Init => MboInv
<1> SUFFICES ASSUME Init PROVE MboInv
  OBVIOUS
<1>1. Fresh
  BY DEF Init, Fresh
<1>2. PubInv
  BY <1>1, FirstEpoch
<1>3. mbo = [NoMemos EXCEPT !.defined = TRUE] /\ book = new /\ told = [s \in SourceId |-> Nothing]
      /\ log = [open |-> FALSE, live |-> FALSE, bare |-> {}, unshown |-> {}, evicted |-> FALSE]
  BY DEF Init
<1>4. mbo \in Memos /\ mbo.revealed = None /\ mbo.top = None
  BY <1>3 DEF NoMemos, Memos
<1>5. told \in [SourceId -> Shows] /\ \A s \in SourceId : told[s].synced = None
  BY <1>3 DEF Nothing, Shows
<1>6. log \in Logs
  BY <1>3 DEF Logs
<1>7. BookType
  BY <1>3, <1>4, <1>5, <1>6, NewTyped DEF BookType
<1>8. Shown(Here)
  <2>1. None # TRUE
    BY MboConstants
  <2>2. Loud(Here) = {}
    BY <1>5, <2>1, HereTyped DEF Loud
  <2> QED BY <1>4, <2>2, HereTyped DEF Shown, Tops, Voices, Quiet, Displays
<1>9. ~book.synced /\ book.building = None
  BY <1>3, NewTyped
<1>10. Assembles(book.building, ~log.open) /\ Faithful
  BY <1>9 DEF Assembles, Faithful
<1> QED BY <1>2, <1>7, <1>8, <1>10 DEF MboInv

LEMMA MboNext == MboInv /\ [Next]_vars => MboInv'
<1> SUFFICES ASSUME MboInv, [Next]_vars PROVE MboInv'
  OBVIOUS
<1>1. CASE UNCHANGED vars
  <2>1. UNCHANGED <<sent, chan, epochs, snaps, src, heard, book, mbo, told, log>>
    BY <1>1 DEF vars, pub
  <2>2. mbo' \in Memos
    BY <2>1 DEF MboInv, BookType
  <2> QED BY <2>1, <2>2, MemoKeeps
<1>2. CASE \E more \in BOOLEAN : PubDelta(more)
  BY <1>2, PubDeltaKeeps
<1>3. CASE PubSnapshot \/ PubReset \/ Rename
  BY <1>3, PubSnapshotKeeps, PubResetKeeps, RenameKeeps
<1>4. CASE \E n \in 1..chan : Mktdata(n)
  BY <1>4, MktdataKeeps
<1>5. CASE Trade \/ Undefine \/ EndOfSession \/ Evict \/ IntervalPasses
  BY <1>5, TradeKeeps, UndefineKeeps, SessionKeeps, EvictKeeps, IntervalKeeps
<1>6. CASE \E eager \in BOOLEAN : Definition(eager)
  BY <1>6, DefinitionKeeps
<1>7. ASSUME NEW s \in DOMAIN snaps, SnapshotBegin(s) \/ SnapshotEnd(s)
      PROVE  MboInv'
  BY <1>7, BeginKeeps, EndKeeps
<1>8. ASSUME NEW s \in DOMAIN snaps, NEW o \in Resting(snaps[s].orders), SnapshotOrder(s, o)
      PROVE  MboInv'
  BY <1>8, OrderKeeps
<1>9. CASE \E e \in DOMAIN epochs : e > 1 /\ InstrumentReset(e)
  BY <1>9, ResetKeeps
<1> QED BY <1>1, <1>2, <1>3, <1>4, <1>5, <1>6, <1>7, <1>8, <1>9 DEF Next

\* MboInv is an invariant of the publisher, the network and the processor together: every
\* rotation is the publisher's book as it was, a snapshot under assembly has only orders of
\* the rotation it names, a synced book is the publisher's, and what is shown is the book.
THEOREM MboSafe == Spec => []MboInv
BY MboInit, MboNext, PTL DEF Spec

\* BookState (apply_or_recover, install, on_snapshot_*): a synced book is the publisher's
\* after the last delta applied, order by order and level by level, whatever is lost, repeated
\* or reordered, apart from a rotation with a repeated order, one older than a reset already
\* heard, and the levels past a reset not heard.
THEOREM SyncedBookIsTruth == Spec => []SyncedIsTruth
<1>1. MboInv => SyncedIsTruth
  <2> SUFFICES ASSUME MboInv, book.synced, ~log.live
               PROVE  \E e \in heard..Len(epochs) :
                        /\ epochs[e].start <= book.seq /\ book.orders = Truth(e, book.seq)
                        /\ Crossed(e, book.seq) \/ book.levels = Totals(book.orders)
    BY DEF SyncedIsTruth
  <2>1. PICK e \in heard..Len(epochs) : Matches(book, e)
    BY DEF MboInv, Faithful
  <2>2. epochs[e] \in Epochs /\ Len(sent) \in Nat
    BY <2>1 DEF MboInv, PubInv, PubType, Matches
  <2>3. epochs[e].start <= book.seq
    BY <2>1, <2>2 DEF Matches, Epochs
  <2> QED BY <2>1, <2>3 DEF Matches
<1> QED BY <1>1, MboSafe, PTL

\* MboProcessor (set_synced, on_reveal, emit_book, emit_depth): under the Source ID in use the
\* orders and the depth the consumers hold are those of the synced book, and the arbiter takes
\* the path for healthy only while the book is synced, through gaps, resets, renames, lost
\* definitions and ends of session, with the exceptions ShownIsBook names.
THEOREM ShownBook == Spec => []ShownIsBook
<1>1. MboInv => ShownIsBook
  <2> SUFFICES ASSUME MboInv PROVE ShownIsBook
    OBVIOUS
  <2>1. Quiet(Here) /\ Displays(Here) /\ mbo.revealed \in SourceId \cup {None}
    BY DEF MboInv, Shown, BookType, Memos
  <2>2. mbo.revealed # None =>
          /\ book.synced /\ mbo.revealed \notin log.bare \cup log.unshown => told[mbo.revealed].orders = book.orders
          /\ book.synced /\ mbo.revealed \notin log.unshown => told[mbo.revealed].depth = book.levels
    BY <2>1, HereTyped DEF Displays
  <2>3. mbo.revealed # None /\ told[mbo.revealed].synced = TRUE => book.synced \/ log.evicted
    BY <2>1, HereTyped DEF Quiet, Loud
  <2> QED BY <2>2, <2>3 DEF ShownIsBook
<1> QED BY <1>1, MboSafe, PTL
=============================================================================
