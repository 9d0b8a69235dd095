----------------------------- MODULE LaneProofs -----------------------------
(* What the machines that stand by themselves keep.  For every number of    *)
(* paths, every window and every interleaving of the copies, the races of   *)
(* the first copy: the orders of a market (OrderRace), the shred forwarder, *)
(* the venue clock of a channel, the tape of a symbol.  For every buffer    *)
(* and every loss, the order channel of the Hyperliquid sink (OrderSink).   *)
(* In the order race each loop of the code is a fold; what a fold does is   *)
(* shown by an induction over its steps, stated with sets (Steps) because   *)
(* an operator cannot be a lemma's parameter.                               *)
EXTENDS OrderRace, VenueClock, TapeGate, ShredForwarder, OrderSink,
        FiniteSetTheorems, NaturalsInduction, WellFoundedInduction, TLAPS

-----------------------------------------------------------------------------
(* Folds.                                                                   *)

\* A set of natural numbers that is not empty has a least one.
LEMMA LeastExists ==
  ASSUME NEW S \in SUBSET Nat, S # {}
  PROVE  \E i \in S : \A j \in S : i <= j
<1> DEFINE R == OpToRel(<, Nat)
<1>1. IsWellFoundedOn(R, Nat)
  BY NatLessThanWellFounded, Zenon DEF R, OpToRel
<1>2. \A i \in Nat, j \in Nat : i < j => <<i, j>> \in R
  BY DEF OpToRel
<1> HIDE DEF R
<1>3. PICK x \in S : \A y \in S : ~(<<y, x>> \in R)
  BY <1>1, WFMin
<1>4. ASSUME NEW j \in S PROVE x <= j
  <2>1. x \in Nat /\ j \in Nat /\ ~(<<j, x>> \in R)
    BY <1>3
  <2> QED BY <1>2, <2>1
<1> QED BY <1>4

\* What holds first and goes on from each step to the next holds at the end: S[i] is what
\* holds after i steps.
LEMMA Steps ==
  ASSUME NEW n \in Nat, NEW S, NEW f, f[0] \in S[0],
         \A i \in 1..n : f[i - 1] \in S[i - 1] => f[i] \in S[i]
  PROVE  \A i \in 0..n : f[i] \in S[i]
<1> DEFINE B == {i \in 0..n : f[i] \notin S[i]}
<1> SUFFICES ASSUME B # {} PROVE FALSE
  OBVIOUS
<1>0. B \in SUBSET Nat
  OBVIOUS
<1>1. PICK i \in B : \A j \in B : i <= j
  <2> HIDE DEF B
  <2> QED BY <1>0, LeastExists
<1>2. i \in 1..n /\ i - 1 \in 0..n /\ i - 1 \notin B
  BY <1>1
<1> QED BY <1>1, <1>2

\* f is what n steps of F make of base, one after the other.
Runs(f, n, T, base, F) ==
  f \in [0..n -> T] /\ f[0] = base /\ \A i \in 1..n : f[i] = F[<<f[i - 1], i>>]

\* There is such a function when the steps stay in a set T.
LEMMA StepsExist ==
  ASSUME NEW n \in Nat, NEW T, NEW base \in T, NEW F, F \in [T \X (1..n) -> T]
  PROVE  \E f : Runs(f, n, T, base, F)
<1> DEFINE Upto(k, f) == /\ f \in [0..n -> T] /\ f[0] = base
                         /\ \A i \in 1..k : f[i] = F[<<f[i - 1], i>>]
           B == {k \in 0..n : ~\E f \in [0..n -> T] : Upto(k, f)}
<1>1. ASSUME B # {} PROVE FALSE
  <2>0. B \in SUBSET Nat
    OBVIOUS
  <2>1. PICK k \in B : \A j \in B : k <= j
    <3> HIDE DEF B
    <3> QED BY <1>1, <2>0, LeastExists
  <2>2. CASE k = 0
    <3> DEFINE f == [i \in 0..n |-> base]
    <3>1. f \in [0..n -> T] /\ f[0] = base
      OBVIOUS
    <3> HIDE DEF f
    <3>2. Upto(k, f)
      BY <2>2, <3>1
    <3> QED BY <3>1, <3>2, <2>1
  <2>3. CASE k # 0
    <3>0. k \in 0..n
      OBVIOUS
    <3>1. k - 1 \in 0..n /\ k - 1 \notin B /\ k \in 1..n /\ k - 1 \in 0..(k - 1)
      <4> HIDE DEF B
      <4> QED BY <2>1, <2>3, <3>0
    <3>2. PICK f \in [0..n -> T] : Upto(k - 1, f)
      BY <3>1
    <3> DEFINE g == [f EXCEPT ![k] = F[<<f[k - 1], k>>]]
    <3>3. F[<<f[k - 1], k>>] \in T
      BY <3>1
    <3>4. g \in [0..n -> T] /\ g[k] = F[<<f[k - 1], k>>] /\ \A i \in 0..(k - 1) : g[i] = f[i]
      BY <3>1, <3>3
    <3> HIDE DEF g
    <3>5. g[0] = base
      BY <3>1, <3>2, <3>4
    <3>6. \A i \in 1..k : g[i] = F[<<g[i - 1], i>>]
      <4> SUFFICES ASSUME NEW i \in 1..k PROVE g[i] = F[<<g[i - 1], i>>]
        OBVIOUS
      <4>1. CASE i = k
        BY <3>1, <3>4, <4>1
      <4>2. CASE i # k
        <5>1. i \in 1..(k - 1) /\ i - 1 \in 0..(k - 1) /\ i \in 0..(k - 1)
          BY <3>1, <4>2
        <5> QED BY <3>2, <3>4, <5>1
      <4> QED BY <4>1, <4>2
    <3> QED BY <2>1, <3>4, <3>5, <3>6
  <2> QED BY <2>2, <2>3
<1>2. n \notin B
  BY <1>1
<1>3. PICK f \in [0..n -> T] : Upto(n, f)
  BY <1>2
<1> QED BY <1>3 DEF Runs

-----------------------------------------------------------------------------
(* The race state of a market whose orders are those of O.                  *)
Owners == Path \cup {None}
Slots == [last_ts : Nat, size : Nat, owner : Owners]
Rests(O) == UNION {[D -> Slots] : D \in SUBSET O}
OrderEvents(O) == [o : O, size : Nat]
Seens(O) == Seq([ev : OrderEvents(O), at : Nat])
Events(O) ==
  [seen : Seens(O), resting : Rests(O),
   live : Seq(O), dead : Seq(O), n_live : Int, n_dead : Int, forced : BOOLEAN]

\* The orders that are removed, and those that rest.
Gone(r) == {o \in DOMAIN r : r[o].size = 0}
Kept(r) == {o \in DOMAIN r : r[o].size # 0}

\* The counts and the queues of a race state are those of its slots; n is how many may rest.
Counted(e, n) ==
  /\ e.n_live = Cardinality(Kept(e.resting)) /\ e.n_dead = Cardinality(Gone(e.resting))
  /\ e.n_live <= n
  /\ Gone(e.resting) \subseteq Range(e.dead) /\ Kept(e.resting) \subseteq Range(e.live)
  /\ \A o \in Gone(e.resting) : e.resting[o].owner = None

Sound(O, e) == e \in Events(O) /\ Counted(e, MAX_GUARDED_ORDERS)

\* A slot is set.
LEMMA SlotSet ==
  ASSUME NEW O, NEW r \in Rests(O), NEW o \in O, NEW slot \in Slots, NEW t, t = SetSlot(r, o, slot)
  PROVE  /\ t \in Rests(O) /\ t[o] = slot /\ o \in DOMAIN t
         /\ \A x \in DOMAIN r \ {o} : x \in DOMAIN t /\ t[x] = r[x]
         /\ Gone(t) = IF slot.size = 0 THEN Gone(r) \cup {o} ELSE Gone(r) \ {o}
         /\ Kept(t) = IF slot.size = 0 THEN Kept(r) \ {o} ELSE Kept(r) \cup {o}
<1>1. PICK D \in SUBSET O : r \in [D -> Slots]
  BY DEF Rests
<1>2. /\ DOMAIN t = D \cup {o} /\ t[o] = slot /\ t \in [D \cup {o} -> Slots]
      /\ \A x \in D \ {o} : t[x] = r[x]
  BY <1>1 DEF SetSlot
<1>3. t \in Rests(O)
  BY <1>1, <1>2 DEF Rests
<1> QED BY <1>1, <1>2, <1>3 DEF Gone, Kept

\* A slot is dropped.
LEMMA SlotDropped ==
  ASSUME NEW O, NEW r \in Rests(O), NEW o, NEW t, t = DropSlot(r, o)
  PROVE  /\ t \in Rests(O) /\ Gone(t) = Gone(r) \ {o} /\ Kept(t) = Kept(r) \ {o}
         /\ \A x \in DOMAIN r \ {o} : x \in DOMAIN t /\ t[x] = r[x]
<1>1. PICK D \in SUBSET O : r \in [D -> Slots]
  BY DEF Rests
<1>2. DOMAIN t = D \ {o} /\ (\A x \in D \ {o} : t[x] = r[x]) /\ t \in [D \ {o} -> Slots]
  BY <1>1 DEF DropSlot
<1>3. t \in Rests(O)
  BY <1>1, <1>2 DEF Rests
<1> QED BY <1>1, <1>2, <1>3 DEF Gone, Kept

\* The orders of a slot map are orders of the market, finitely many.
LEMMA SlotSets ==
  ASSUME NEW O, IsFiniteSet(O), NEW r \in Rests(O)
  PROVE  /\ Gone(r) \subseteq O /\ Kept(r) \subseteq O /\ IsFiniteSet(Gone(r)) /\ IsFiniteSet(Kept(r))
         /\ Cardinality(Gone(r)) \in Nat /\ Cardinality(Kept(r)) \in Nat
         /\ \A o \in DOMAIN r : r[o] \in Slots
<1>1. Gone(r) \subseteq O /\ Kept(r) \subseteq O /\ \A o \in DOMAIN r : r[o] \in Slots
  BY DEF Gone, Kept, Rests
<1>2. IsFiniteSet(Gone(r)) /\ IsFiniteSet(Kept(r))
  BY <1>1, FS_Subset
<1> QED BY <1>1, <1>2, FS_CardinalityType

\* The stamp an order's removal is recorded at, -1 for none; the events in a window.
Tomb(r, o) == IF o \in Gone(r) THEN r[o].last_ts ELSE -1
Evs(q) == {q[i].ev : i \in DOMAIN q}

\* A slot that is set, for the removals.
LEMMA TombSet ==
  ASSUME NEW O, NEW r \in Rests(O), NEW o \in O, NEW slot \in Slots
  PROVE  \A x : Tomb(SetSlot(r, o, slot), x) =
                  IF x = o THEN IF slot.size = 0 THEN slot.last_ts ELSE -1 ELSE Tomb(r, x)
<1> DEFINE t == SetSlot(r, o, slot)
<1>1. /\ t[o] = slot /\ (\A x \in DOMAIN r \ {o} : x \in DOMAIN t /\ t[x] = r[x])
      /\ Gone(t) = IF slot.size = 0 THEN Gone(r) \cup {o} ELSE Gone(r) \ {o}
  BY SlotSet
<1>2. Gone(r) \subseteq DOMAIN r
  BY DEF Gone
<1> HIDE DEF t
<1>3. ASSUME NEW x PROVE Tomb(t, x) = IF x = o THEN IF slot.size = 0 THEN slot.last_ts ELSE -1 ELSE Tomb(r, x)
  <2>1. CASE x = o
    BY <1>1, <2>1 DEF Tomb
  <2>2. CASE x # o
    <3>1. x \in Gone(t) <=> x \in Gone(r)
      BY <1>1, <2>2
    <3>2. x \in Gone(r) => t[x] = r[x]
      BY <1>1, <1>2, <2>2
    <3> QED BY <2>2, <3>1, <3>2 DEF Tomb
  <2> QED BY <2>1, <2>2
<1> QED BY <1>3 DEF t

\* A slot that is dropped.
LEMMA TombDropped ==
  ASSUME NEW O, NEW r \in Rests(O), NEW o
  PROVE  \A x : Tomb(DropSlot(r, o), x) = IF x = o THEN -1 ELSE Tomb(r, x)
<1> DEFINE t == DropSlot(r, o)
<1>1. Gone(t) = Gone(r) \ {o} /\ \A x \in DOMAIN r \ {o} : x \in DOMAIN t /\ t[x] = r[x]
  BY SlotDropped
<1>2. Gone(r) \subseteq DOMAIN r
  BY DEF Gone
<1> HIDE DEF t
<1>3. ASSUME NEW x PROVE Tomb(t, x) = IF x = o THEN -1 ELSE Tomb(r, x)
  <2>1. CASE x = o
    BY <1>1, <2>1 DEF Tomb
  <2>2. CASE x # o
    BY <1>1, <1>2, <2>2 DEF Tomb
  <2> QED BY <2>1, <2>2
<1> QED BY <1>3 DEF t

\* What is in a queue after its head was taken.
LEMMA TailRange ==
  ASSUME NEW O, NEW q \in Seq(O), q # <<>>
  PROVE  /\ Head(q) \in O /\ Head(q) \in Range(q) /\ Tail(q) \in Seq(O)
         /\ Range(q) \subseteq Range(Tail(q)) \cup {Head(q)}
<1>1. Len(q) \in Nat /\ Len(q) > 0 /\ DOMAIN q = 1..Len(q) /\ Head(q) = q[1]
  OBVIOUS
<1>2. Tail(q) \in Seq(O) /\ DOMAIN Tail(q) = 1..(Len(q) - 1)
      /\ \A i \in 1..(Len(q) - 1) : Tail(q)[i] = q[i + 1]
  BY <1>1
<1>3. ASSUME NEW i \in 1..Len(q), i # 1 PROVE q[i] \in Range(Tail(q))
  <2>1. i - 1 \in 1..(Len(q) - 1) /\ Tail(q)[i - 1] = q[i]
    BY <1>1, <1>2, <1>3
  <2> QED BY <1>2, <2>1 DEF Range
<1> QED BY <1>1, <1>2, <1>3 DEF Range

\* What is in a queue after something was put last.
LEMMA AppendRange ==
  ASSUME NEW O, NEW q \in Seq(O), NEW o \in O
  PROVE  Append(q, o) \in Seq(O) /\ Range(q) \subseteq Range(Append(q, o)) /\ o \in Range(Append(q, o))
<1> DEFINE t == Append(q, o)
<1>1. t \in Seq(O) /\ DOMAIN q = 1..Len(q) /\ DOMAIN t = 1..(Len(q) + 1) /\ Len(q) \in Nat
      /\ t[Len(q) + 1] = o /\ \A i \in 1..Len(q) : t[i] = q[i]
  OBVIOUS
<1> HIDE DEF t
<1>2. Range(q) \subseteq Range(t) /\ o \in Range(t)
  BY <1>1 DEF Range
<1> QED BY <1>1, <1>2 DEF t

\* MarketEvents::pop skips what is stale and nothing else.
LEMMA Skipped ==
  ASSUME NEW O, NEW q \in Seq(O), NEW W, NEW t, t = SkipTo(q, W)
  PROVE  /\ t \in Seq(O) /\ Range(q) \cap W \subseteq Range(t)
         /\ t # <<>> => Head(t) \in W
<1> DEFINE hits == {i \in 1..Len(q) : q[i] \in W}
           k == CHOOSE i \in hits : \A j \in hits : i <= j
<1>1. t = IF hits = {} THEN <<>> ELSE SubSeq(q, k, Len(q))
  BY DEF SkipTo
<1>2. hits \in SUBSET Nat /\ Len(q) \in Nat
  OBVIOUS
<1>3. CASE hits = {}
  BY <1>1, <1>3 DEF Range
<1>4. CASE hits # {}
  <2>1. k \in hits /\ \A j \in hits : k <= j
    <3> HIDE DEF hits
    <3> QED BY <1>2, <1>4, LeastExists
  <2> HIDE DEF k
  <2>2. k \in 1..Len(q) /\ q[k] \in W /\ t = SubSeq(q, k, Len(q))
    BY <1>1, <1>4, <2>1
  <2>3. t \in Seq(O) /\ DOMAIN t = 1..(Len(q) - k + 1)
        /\ \A i \in 1..(Len(q) - k + 1) : t[i] = q[i + k - 1]
    BY <1>2, <2>2
  <2>4. Head(t) = q[k]
    BY <2>2, <2>3
  <2>5. ASSUME NEW i \in 1..Len(q), q[i] \in W PROVE q[i] \in Range(t)
    <3>1. k <= i /\ i - k + 1 \in 1..(Len(q) - k + 1) /\ t[i - k + 1] = q[i]
      BY <1>2, <2>1, <2>2, <2>3, <2>5
    <3> QED BY <2>3, <3>1 DEF Range
  <2>6. Range(q) \cap W \subseteq Range(t)
    <3> SUFFICES ASSUME NEW w \in Range(q), w \in W PROVE w \in Range(t)
      OBVIOUS
    <3>1. PICK i \in 1..Len(q) : q[i] = w
      BY DEF Range
    <3> QED BY <2>5, <3>1
  <2> QED BY <2>2, <2>3, <2>4, <2>6
<1> QED BY <1>3, <1>4
\* bound_live: the oldest floor goes when there is one too many, and no removal is touched.
LEMMA LiveBounded ==
  ASSUME NEW O, IsFiniteSet(O), NEW e \in Events(O), Counted(e, MAX_GUARDED_ORDERS + 1),
         NEW f, f = bound_live(e)
  PROVE  Sound(O, f) /\ Gone(f.resting) = Gone(e.resting)
<1> DEFINE W == {o \in DOMAIN e.resting : Floored(e, o)}
           q == SkipTo(e.live, W)
           r == DropSlot(e.resting, Head(q))
           n == e.n_live - 1
<1>1. W = Kept(e.resting)
  BY DEF Floored, Known, Kept
<1>2. /\ e.resting \in Rests(O) /\ e.live \in Seq(O) /\ e.n_live \in Int /\ e.n_dead \in Int
      /\ MAX_GUARDED_ORDERS \in Nat
  BY GuardAssumption DEF Events
<1>3. f = IF e.n_live > MAX_GUARDED_ORDERS /\ q # <<>>
          THEN [e EXCEPT !.live = Tail(q), !.resting = r, !.n_live = n] ELSE e
  BY <1>2, Zenon DEF bound_live
<1>4. q \in Seq(O) /\ Range(e.live) \cap W \subseteq Range(q) /\ (q # <<>> => Head(q) \in W)
  BY <1>2, Skipped
<1> HIDE DEF q
<1>5. Kept(e.resting) \subseteq Range(q)
  BY <1>1, <1>4 DEF Counted
<1> HIDE DEF W
<1>6. IsFiniteSet(Kept(e.resting)) /\ e.n_live = Cardinality(Kept(e.resting))
      /\ e.n_dead = Cardinality(Gone(e.resting))
  BY <1>2, SlotSets DEF Counted
<1>7. CASE ~(e.n_live > MAX_GUARDED_ORDERS)
  BY <1>2, <1>3, <1>7 DEF Sound, Counted
<1>8. CASE e.n_live > MAX_GUARDED_ORDERS
  <2>1. Kept(e.resting) # {} /\ q # <<>>
    <3>1. Kept(e.resting) # {}
      BY <1>2, <1>6, <1>8, FS_EmptySet
    <3>2. Range(<<>>) = {}
      BY DEF Range
    <3> QED BY <1>5, <3>1, <3>2
  <2>2. Head(q) \in Kept(e.resting) /\ Head(q) \notin Gone(e.resting)
    BY <1>1, <1>4, <2>1 DEF Gone, Kept
  <2>3. /\ Tail(q) \in Seq(O) /\ Range(q) \subseteq Range(Tail(q)) \cup {Head(q)}
    BY <1>4, <2>1, TailRange
  <2>4. /\ r \in Rests(O) /\ Gone(r) = Gone(e.resting) /\ Kept(r) = Kept(e.resting) \ {Head(q)}
        /\ \A x \in Gone(r) : r[x] = e.resting[x]
    <3>1. /\ r \in Rests(O) /\ Gone(r) = Gone(e.resting) \ {Head(q)}
          /\ Kept(r) = Kept(e.resting) \ {Head(q)}
          /\ \A x \in DOMAIN e.resting \ {Head(q)} : x \in DOMAIN r /\ r[x] = e.resting[x]
      BY <1>2, SlotDropped
    <3> QED BY <2>2, <3>1 DEF Gone
  <2> HIDE DEF r
  <2>5. Cardinality(Kept(r)) = n
    BY <1>6, <2>2, <2>4, FS_RemoveElement
  <2>6. f = [e EXCEPT !.live = Tail(q), !.resting = r, !.n_live = n] /\ n \in Int
    BY <1>2, <1>3, <1>8, <2>1
  <2>7. n <= MAX_GUARDED_ORDERS
    BY <1>2 DEF Counted
  <2> HIDE DEF n
  <2>8. /\ f \in Events(O) /\ f.live = Tail(q) /\ f.resting = r /\ f.n_live = n /\ f.n_dead = e.n_dead
        /\ f.dead = e.dead
    BY <2>3, <2>4, <2>6 DEF Events
  <2>9. Counted(f, MAX_GUARDED_ORDERS)
    <3>1. Kept(r) \subseteq Range(Tail(q))
      BY <1>5, <2>3, <2>4
    <3>2. Gone(r) \subseteq Range(e.dead) /\ \A x \in Gone(r) : r[x].owner = None
      BY <2>4 DEF Counted
    <3> QED BY <1>6, <2>4, <2>5, <2>7, <2>8, <3>1, <3>2 DEF Counted
  <2> QED BY <2>4, <2>8, <2>9 DEF Sound
<1> QED BY <1>7, <1>8

\* e became f, and the orders that are removed became G.
Became(O, G, f) == Sound(O, f) /\ Gone(f.resting) = G

\* track_floor: the order rests, or was too many, and is not removed any more.
LEMMA FloorTracked ==
  ASSUME NEW O, IsFiniteSet(O), NEW e, Sound(O, e), NEW o \in O, NEW size \in Nat, size # 0,
         NEW by \in Owners, NEW ts \in Nat, NEW f, f = track_floor(e, o, size, by, ts)
  PROVE  Became(O, Gone(e.resting) \ {o}, f)
<1> DEFINE slot == [last_ts |-> ts, size |-> size, owner |-> by]
           r == SetSlot(e.resting, o, slot)
           nd == e.n_dead - (IF Removed(e, o) THEN 1 ELSE 0)
           nl == e.n_live + 1
           lv == Append(e.live, o)
           g == IF Floored(e, o) THEN [e EXCEPT !.resting = r]
                ELSE [e EXCEPT !.resting = r, !.n_dead = nd, !.n_live = nl, !.live = lv]
<1>1. e \in Events(O) /\ Counted(e, MAX_GUARDED_ORDERS)
  BY DEF Sound
<1>2. /\ e.resting \in Rests(O) /\ e.live \in Seq(O) /\ e.n_live \in Int /\ e.n_dead \in Int
      /\ MAX_GUARDED_ORDERS \in Nat
  BY <1>1, GuardAssumption DEF Events
<1>3. f = bound_live(g)
  <2>1. f = bound_live(IF Floored(e, o) THEN [e EXCEPT !.resting = r]
              ELSE [[e EXCEPT !.resting = r] EXCEPT !.n_dead = @ - (IF Removed(e, o) THEN 1 ELSE 0),
                                !.n_live = @ + 1, !.live = Append(@, o)])
    BY Zenon DEF track_floor
  <2>2. [[e EXCEPT !.resting = r] EXCEPT !.n_dead = @ - (IF Removed(e, o) THEN 1 ELSE 0),
                                !.n_live = @ + 1, !.live = Append(@, o)]
        = [e EXCEPT !.resting = r, !.n_dead = nd, !.n_live = nl, !.live = lv]
    <3> HIDE DEF r
    <3> QED BY <1>1 DEF Events
  <2> QED BY <2>1, <2>2
<1>4. slot \in Slots /\ slot.size = size /\ size # 0
  BY DEF Slots
<1> HIDE DEF slot
<1>5. /\ r \in Rests(O) /\ Gone(r) = Gone(e.resting) \ {o} /\ Kept(r) = Kept(e.resting) \cup {o}
      /\ \A x \in Gone(r) : r[x] = e.resting[x]
  <2>1. /\ r \in Rests(O) /\ r[o] = slot
        /\ \A x \in DOMAIN e.resting \ {o} : x \in DOMAIN r /\ r[x] = e.resting[x]
        /\ Gone(r) = Gone(e.resting) \ {o} /\ Kept(r) = Kept(e.resting) \cup {o}
    BY <1>2, <1>4, SlotSet
  <2> QED BY <2>1 DEF Gone
<1> HIDE DEF r
<1>6. /\ (Removed(e, o) <=> o \in Gone(e.resting)) /\ (Floored(e, o) <=> o \in Kept(e.resting))
      /\ ~(o \in Gone(e.resting) /\ o \in Kept(e.resting))
  BY DEF Removed, Floored, Known, Gone, Kept
<1>7. /\ IsFiniteSet(Gone(e.resting)) /\ IsFiniteSet(Kept(e.resting))
      /\ e.n_live = Cardinality(Kept(e.resting)) /\ e.n_dead = Cardinality(Gone(e.resting))
  BY <1>1, <1>2, SlotSets DEF Counted
<1>8. lv \in Seq(O) /\ Range(e.live) \subseteq Range(lv) /\ o \in Range(lv)
  BY <1>2, AppendRange
<1> HIDE DEF lv
<1>9. g \in Events(O) /\ Counted(g, MAX_GUARDED_ORDERS + 1) /\ g.resting = r /\ g.forced = e.forced
  <2>1. CASE Floored(e, o)
    <3>1. g = [e EXCEPT !.resting = r]
      BY <2>1
    <3> HIDE DEF g
    <3>2. /\ g \in Events(O) /\ g.resting = r /\ g.live = e.live /\ g.dead = e.dead
          /\ g.n_live = e.n_live /\ g.n_dead = e.n_dead /\ g.forced = e.forced
      BY <1>1, <1>5, <3>1 DEF Events
    <3>3. Kept(r) = Kept(e.resting) /\ Gone(r) = Gone(e.resting)
      BY <1>5, <1>6, <2>1
    <3> QED BY <1>1, <1>2, <1>5, <3>2, <3>3 DEF Counted
  <2>2. CASE ~Floored(e, o)
    <3>1. g = [e EXCEPT !.resting = r, !.n_dead = nd, !.n_live = nl, !.live = lv]
      BY <2>2
    <3>2. nd = Cardinality(Gone(r)) /\ nd \in Int
      <4>1. Cardinality(Gone(e.resting) \ {o})
              = IF o \in Gone(e.resting) THEN Cardinality(Gone(e.resting)) - 1
                ELSE Cardinality(Gone(e.resting))
        BY <1>7, FS_RemoveElement
      <4>2. CASE Removed(e, o)
        BY <1>2, <1>5, <1>6, <1>7, <4>1, <4>2
      <4>3. CASE ~Removed(e, o)
        BY <1>2, <1>5, <1>6, <1>7, <4>1, <4>3
      <4> QED BY <4>2, <4>3
    <3>3. nl = Cardinality(Kept(r)) /\ nl \in Int /\ nl <= MAX_GUARDED_ORDERS + 1
      <4>1. Cardinality(Kept(e.resting) \cup {o}) = Cardinality(Kept(e.resting)) + 1
        BY <1>6, <1>7, <2>2, FS_AddElement
      <4> QED BY <1>1, <1>2, <1>5, <1>7, <4>1 DEF Counted
    <3> HIDE DEF g, nd, nl
    <3>4. /\ g \in Events(O) /\ g.resting = r /\ g.live = lv /\ g.dead = e.dead
          /\ g.n_live = nl /\ g.n_dead = nd /\ g.forced = e.forced
      BY <1>1, <1>5, <1>8, <3>1, <3>2, <3>3 DEF Events
    <3>5. Kept(r) \subseteq Range(lv) /\ Gone(r) \subseteq Range(e.dead)
          /\ \A x \in Gone(r) : r[x].owner = None
      BY <1>1, <1>5, <1>8 DEF Counted
    <3> QED BY <3>2, <3>3, <3>4, <3>5 DEF Counted
  <2> QED BY <2>1, <2>2
<1> HIDE DEF g
<1> QED BY <1>3, <1>5, <1>9, LiveBounded DEF Became

\* remove_order: the order is removed.
LEMMA OrderRemoved ==
  ASSUME NEW O, IsFiniteSet(O), NEW e, Sound(O, e), NEW o \in O, NEW ts \in Nat,
         NEW f, f = remove_order(e, o, ts)
  PROVE  Became(O, Gone(e.resting) \cup {o}, f)
<1> DEFINE slot == [last_ts |-> ts, size |-> 0, owner |-> None]
           r == SetSlot(e.resting, o, slot)
           nl == e.n_live - (IF Known(e, o) THEN 1 ELSE 0)
           nd == e.n_dead + 1
           dd == Append(e.dead, o)
<1>1. e \in Events(O) /\ Counted(e, MAX_GUARDED_ORDERS)
  BY DEF Sound
<1>2. /\ e.resting \in Rests(O) /\ e.dead \in Seq(O) /\ e.n_live \in Int /\ e.n_dead \in Int
      /\ MAX_GUARDED_ORDERS \in Nat
  BY <1>1, GuardAssumption DEF Events
<1>3. f = IF Removed(e, o) THEN e
          ELSE [e EXCEPT !.resting = r, !.n_live = nl, !.n_dead = nd, !.dead = dd]
  BY Zenon DEF remove_order
<1>4. slot \in Slots /\ slot.size = 0 /\ slot.owner = None
  BY DEF Slots, Owners
<1> HIDE DEF slot
<1>5. /\ r \in Rests(O) /\ Gone(r) = Gone(e.resting) \cup {o} /\ Kept(r) = Kept(e.resting) \ {o}
      /\ \A x \in Gone(r) : x = o \/ r[x] = e.resting[x]
      /\ r[o] = slot
  <2>1. /\ r \in Rests(O) /\ r[o] = slot
        /\ \A x \in DOMAIN e.resting \ {o} : x \in DOMAIN r /\ r[x] = e.resting[x]
        /\ Gone(r) = Gone(e.resting) \cup {o} /\ Kept(r) = Kept(e.resting) \ {o}
    BY <1>2, <1>4, SlotSet
  <2> QED BY <2>1 DEF Gone
<1> HIDE DEF r
<1>6. /\ (Removed(e, o) <=> o \in Gone(e.resting))
      /\ (Known(e, o) <=> o \in Gone(e.resting) \cup Kept(e.resting))
  BY DEF Removed, Known, Gone, Kept
<1>7. /\ IsFiniteSet(Gone(e.resting)) /\ IsFiniteSet(Kept(e.resting))
      /\ e.n_live = Cardinality(Kept(e.resting)) /\ e.n_dead = Cardinality(Gone(e.resting))
  BY <1>1, <1>2, SlotSets DEF Counted
<1>8. dd \in Seq(O) /\ Range(e.dead) \subseteq Range(dd) /\ o \in Range(dd)
  BY <1>2, AppendRange
<1> HIDE DEF dd
<1>9. CASE Removed(e, o)
  BY <1>3, <1>6, <1>9 DEF Became
<1>10. CASE ~Removed(e, o)
  <2>1. f = [e EXCEPT !.resting = r, !.n_live = nl, !.n_dead = nd, !.dead = dd]
    BY <1>3, <1>10
  <2>2. nd = Cardinality(Gone(r)) /\ nd \in Int
    <3>1. Cardinality(Gone(e.resting) \cup {o}) = Cardinality(Gone(e.resting)) + 1
      BY <1>6, <1>7, <1>10, FS_AddElement
    <3> QED BY <1>2, <1>5, <1>7, <3>1
  <2>3. nl = Cardinality(Kept(r)) /\ nl \in Int /\ nl <= MAX_GUARDED_ORDERS
    <3>1. Cardinality(Kept(e.resting) \ {o})
            = IF o \in Kept(e.resting) THEN Cardinality(Kept(e.resting)) - 1
              ELSE Cardinality(Kept(e.resting))
      BY <1>7, FS_RemoveElement
    <3> QED BY <1>1, <1>2, <1>5, <1>6, <1>7, <1>10, <3>1 DEF Counted
  <2> HIDE DEF nd, nl
  <2>4. /\ f \in Events(O) /\ f.resting = r /\ f.live = e.live /\ f.dead = dd
        /\ f.n_live = nl /\ f.n_dead = nd
    BY <1>1, <1>5, <1>8, <2>1, <2>2, <2>3 DEF Events
  <2>5. Kept(r) \subseteq Range(e.live) /\ Gone(r) \subseteq Range(dd)
        /\ \A x \in Gone(r) : r[x].owner = None
    BY <1>1, <1>4, <1>5, <1>8 DEF Counted
  <2>6. Counted(f, MAX_GUARDED_ORDERS)
    BY <2>2, <2>3, <2>4, <2>5 DEF Counted
  <2> QED BY <1>5, <2>4, <2>6 DEF Sound, Became
<1> QED BY <1>9, <1>10
\* What a market remembers of delivered events has no part in the counts.
LEMMA SeenSet ==
  ASSUME NEW O, NEW e, Sound(O, e), NEW q \in Seens(O),
         NEW f, f = [e EXCEPT !.seen = q]
  PROVE  Sound(O, f) /\ f.resting = e.resting
<1>1. e \in Events(O) /\ Counted(e, MAX_GUARDED_ORDERS)
  BY DEF Sound
<1>2. /\ f \in Events(O) /\ f.resting = e.resting /\ f.live = e.live /\ f.dead = e.dead
      /\ f.n_live = e.n_live /\ f.n_dead = e.n_dead
  BY <1>1 DEF Events
<1>3. Counted(f, MAX_GUARDED_ORDERS)
  BY <1>1, <1>2 DEF Counted
<1> QED BY <1>2, <1>3 DEF Sound

\* Nor has the flag that a disagreement raises.
LEMMA ForcedSet ==
  ASSUME NEW O, NEW e, Sound(O, e), NEW b \in BOOLEAN, NEW f, f = [e EXCEPT !.forced = b]
  PROVE  Sound(O, f) /\ f.resting = e.resting
<1>1. e \in Events(O) /\ Counted(e, MAX_GUARDED_ORDERS)
  BY DEF Sound
<1>2. /\ f \in Events(O) /\ f.resting = e.resting /\ f.live = e.live /\ f.dead = e.dead
      /\ f.n_live = e.n_live /\ f.n_dead = e.n_dead
  BY <1>1 DEF Events
<1>3. Counted(f, MAX_GUARDED_ORDERS)
  BY <1>1, <1>2 DEF Counted
<1> QED BY <1>2, <1>3 DEF Sound

\* expire only shortens what is remembered.
LEMMA Expired ==
  ASSUME NEW O, NEW e, Sound(O, e), NEW t \in Nat, NEW f, f = expire(e, t)
  PROVE  Sound(O, f) /\ f.resting = e.resting
<1> DEFINE keep == {i \in 1..Len(e.seen) : t - e.seen[i].at <= book_dedup_window_ns}
           from == IF keep = {} THEN Len(e.seen) + 1 ELSE CHOOSE i \in keep : \A j \in keep : i <= j
           q == SubSeq(e.seen, from, Len(e.seen))
<1>1. e.seen \in Seq([ev : OrderEvents(O), at : Nat]) /\ Len(e.seen) \in Nat /\ e \in Events(O)
  BY DEF Sound, Events, Seens
<1>2. f = [e EXCEPT !.seen = q]
  BY Zenon DEF expire
<1>3. keep \in SUBSET Nat /\ keep \subseteq 1..Len(e.seen)
  BY <1>1
<1>4. from \in 1..(Len(e.seen) + 1)
  <2>1. CASE keep = {}
    BY <1>1, <2>1
  <2>2. CASE keep # {}
    <3>1. from \in keep
      <4> HIDE DEF keep
      <4> QED BY <1>3, <2>2, LeastExists
    <3>2. from \in 1..Len(e.seen)
      <4> HIDE DEF keep, from
      <4> QED BY <1>3, <3>1
    <3> HIDE DEF from
    <3> QED BY <1>1, <3>2
  <2> QED BY <2>1, <2>2
<1> HIDE DEF from
<1>5. q \in Seq([ev : OrderEvents(O), at : Nat])
  <2> DEFINE S == [ev : OrderEvents(O), at : Nat]
  <2> HIDE DEF keep
  <2>1. e.seen \in Seq(S)
    BY <1>1
  <2> HIDE DEF S
  <2>2. q \in Seq(S)
    BY <1>1, <1>4, <2>1
  <2> QED BY <2>2 DEF S
<1> HIDE DEF q
<1> QED BY <1>2, <1>5, SeenSet DEF Seens

\* Remember adds to what is remembered.
LEMMA SeenGrows ==
  ASSUME NEW O, NEW e, Sound(O, e), NEW c \in OrderEvents(O), NEW t \in Nat,
         NEW f, f = Remember(e, c, t)
  PROVE  Sound(O, f) /\ f.resting = e.resting
<1> DEFINE S == [ev : OrderEvents(O), at : Nat]
           q == Append(e.seen, [ev |-> c, at |-> t])
           r == IF Len(q) > MAX_SEEN_ORDER_EVENTS THEN Tail(q) ELSE q
<1>1. e.seen \in Seq(S) /\ e \in Events(O) /\ [ev |-> c, at |-> t] \in S
  BY DEF Sound, Events, Seens
<1>2. f = [e EXCEPT !.seen = r]
  BY Zenon DEF Remember
<1>3. q \in Seq(S) /\ q # <<>>
  <2> HIDE DEF S
  <2> QED BY <1>1
<1>4. r \in Seq(S)
  <2> HIDE DEF S, q
  <2> QED BY <1>3
<1> HIDE DEF r
<1> QED BY <1>2, <1>4, SeenSet DEF Seens

\* Restated: an order that rests goes on resting.
LEMMA RestatedRests ==
  ASSUME NEW O, IsFiniteSet(O), NEW e, Sound(O, e), NEW c \in OrderEvents(O), Floored(e, c.o),
         c.size # 0, NEW by \in Path, NEW ts \in Nat, NEW f, f = Restated(e, c, by, ts)
  PROVE  Sound(O, f) /\ Gone(f.resting) = Gone(e.resting)
<1> DEFINE old == e.resting[c.o]
           new == IF c.size < old.size THEN [last_ts |-> ts, size |-> c.size, owner |-> by]
                  ELSE [old EXCEPT !.last_ts = ts]
           r == SetSlot(e.resting, c.o, new)
<1>1. e \in Events(O) /\ Counted(e, MAX_GUARDED_ORDERS) /\ e.resting \in Rests(O)
  BY DEF Sound, Events
<1>2. f = [e EXCEPT !.resting = r]
  BY Zenon DEF Restated
<1>3. c.o \in O /\ c.size \in Nat /\ c.o \in DOMAIN e.resting /\ old \in Slots /\ old.size # 0
  BY <1>1, SlotSets DEF OrderEvents, Floored, Known
<1>4. new \in Slots /\ new.size # 0
  <2> HIDE DEF old
  <2> QED BY <1>3 DEF Slots, Owners
<1> HIDE DEF new
<1>5. /\ r \in Rests(O) /\ Gone(r) = Gone(e.resting) \ {c.o} /\ Kept(r) = Kept(e.resting) \cup {c.o}
      /\ \A x \in DOMAIN e.resting \ {c.o} : x \in DOMAIN r /\ r[x] = e.resting[x]
  BY <1>1, <1>3, <1>4, SlotSet
<1> HIDE DEF r
<1>6. c.o \in Kept(e.resting) /\ c.o \notin Gone(e.resting)
  BY <1>3 DEF Kept, Gone
<1>7. Gone(r) = Gone(e.resting) /\ Kept(r) = Kept(e.resting) /\ \A x \in Gone(r) : r[x] = e.resting[x]
  BY <1>5, <1>6 DEF Gone
<1>8. /\ f \in Events(O) /\ f.resting = r /\ f.live = e.live /\ f.dead = e.dead
      /\ f.n_live = e.n_live /\ f.n_dead = e.n_dead
  BY <1>1, <1>2, <1>5 DEF Events
<1>9. Counted(f, MAX_GUARDED_ORDERS)
  BY <1>1, <1>7, <1>8 DEF Counted
<1> QED BY <1>7, <1>8, <1>9 DEF Sound
\* Removals and window are as they were.
Alike(f, e) == f.seen = e.seen /\ \A x : Tomb(f.resting, x) = Tomb(e.resting, x)

\* bound_live drops no removal.
LEMMA LiveTomb ==
  ASSUME NEW O, NEW e \in Events(O), NEW f, f = bound_live(e)
  PROVE  Alike(f, e)
<1> DEFINE W == {o \in DOMAIN e.resting : Floored(e, o)}
           q == SkipTo(e.live, W)
           r == DropSlot(e.resting, Head(q))
           n == e.n_live - 1
<1>1. e.resting \in Rests(O) /\ e.live \in Seq(O)
  BY DEF Events
<1>2. f = IF e.n_live > MAX_GUARDED_ORDERS /\ q # <<>>
          THEN [e EXCEPT !.live = Tail(q), !.resting = r, !.n_live = n] ELSE e
  BY Zenon DEF bound_live
<1>3. q # <<>> => Head(q) \in W
  BY <1>1, Skipped
<1>4. CASE e.n_live > MAX_GUARDED_ORDERS /\ q # <<>>
  <2>1. Head(q) \notin Gone(e.resting)
    BY <1>3, <1>4 DEF Floored, Known, Gone
  <2>2. \A x : Tomb(r, x) = Tomb(e.resting, x)
    <3>1. \A x : Tomb(r, x) = IF x = Head(q) THEN -1 ELSE Tomb(e.resting, x)
      BY <1>1, TombDropped
    <3> QED BY <2>1, <3>1 DEF Tomb
  <2> HIDE DEF r, n, q
  <2>3. f.seen = e.seen /\ f.resting = r
    BY <1>2, <1>4 DEF Events
  <2> QED BY <2>2, <2>3 DEF Alike
<1>5. CASE ~(e.n_live > MAX_GUARDED_ORDERS /\ q # <<>>)
  <2>1. f = e
    BY <1>2, <1>5
  <2> QED BY <2>1 DEF Alike
<1> QED BY <1>4, <1>5

\* One order's removal goes, the others' stay.
Unburied(f, e, o) ==
  f.seen = e.seen /\ \A x : Tomb(f.resting, x) = IF x = o THEN -1 ELSE Tomb(e.resting, x)

\* track_floor: the order's removal goes.
LEMMA FloorTomb ==
  ASSUME NEW O, NEW e \in Events(O), NEW o \in O, NEW size \in Nat, size # 0,
         NEW by \in Owners, NEW ts \in Nat, NEW f, f = track_floor(e, o, size, by, ts)
  PROVE  Unburied(f, e, o)
<1> DEFINE slot == [last_ts |-> ts, size |-> size, owner |-> by]
           r == SetSlot(e.resting, o, slot)
           nd == e.n_dead - (IF Removed(e, o) THEN 1 ELSE 0)
           nl == e.n_live + 1
           lv == Append(e.live, o)
           g == IF Floored(e, o) THEN [e EXCEPT !.resting = r]
                ELSE [e EXCEPT !.resting = r, !.n_dead = nd, !.n_live = nl, !.live = lv]
<1>1. e.resting \in Rests(O) /\ e.live \in Seq(O) /\ e.n_live \in Int /\ e.n_dead \in Int
  BY DEF Events
<1>2. f = bound_live(g)
  <2>1. f = bound_live(IF Floored(e, o) THEN [e EXCEPT !.resting = r]
              ELSE [[e EXCEPT !.resting = r] EXCEPT !.n_dead = @ - (IF Removed(e, o) THEN 1 ELSE 0),
                                                    !.n_live = @ + 1, !.live = Append(@, o)])
    BY Zenon DEF track_floor
  <2>2. [[e EXCEPT !.resting = r] EXCEPT !.n_dead = @ - (IF Removed(e, o) THEN 1 ELSE 0),
                                         !.n_live = @ + 1, !.live = Append(@, o)]
          = [e EXCEPT !.resting = r, !.n_dead = nd, !.n_live = nl, !.live = lv]
    <3> HIDE DEF r
    <3> QED BY DEF Events
  <2> QED BY <2>1, <2>2, Zenon
<1>3. slot \in Slots /\ slot.size # 0
  BY DEF Slots
<1>4. r \in Rests(O)
  <2> HIDE DEF slot
  <2> QED BY <1>1, <1>3, SlotSet
<1>5. \A x : Tomb(r, x) = IF x = o THEN -1 ELSE Tomb(e.resting, x)
  <2> HIDE DEF slot
  <2>1. \A x : Tomb(r, x) = IF x = o THEN IF slot.size = 0 THEN slot.last_ts ELSE -1 ELSE Tomb(e.resting, x)
    BY <1>1, <1>3, TombSet
  <2> QED BY <1>3, <2>1
<1> HIDE DEF r
<1>6. nd \in Int /\ nl \in Int /\ lv \in Seq(O)
  BY <1>1
<1> HIDE DEF nd, nl, lv
<1>7. g \in Events(O) /\ g.seen = e.seen /\ g.resting = r
  BY <1>4, <1>6 DEF Events
<1> HIDE DEF g
<1>8. Alike(f, g)
  BY <1>2, <1>7, LiveTomb
<1> QED BY <1>5, <1>7, <1>8 DEF Alike, Unburied

\* One order is removed, at its first removal's stamp.
Buried(f, e, o, ts) ==
  /\ f.seen = e.seen
  /\ \A x : Tomb(f.resting, x) = IF x = o /\ Tomb(e.resting, o) = -1 THEN ts ELSE Tomb(e.resting, x)

\* remove_order: the order is removed.
LEMMA RemoveTomb ==
  ASSUME NEW O, NEW e \in Events(O), NEW o \in O, NEW ts \in Nat, NEW f, f = remove_order(e, o, ts)
  PROVE  Buried(f, e, o, ts)
<1> DEFINE slot == [last_ts |-> ts, size |-> 0, owner |-> None]
           r == SetSlot(e.resting, o, slot)
           nl == e.n_live - (IF Known(e, o) THEN 1 ELSE 0)
           nd == e.n_dead + 1
           dd == Append(e.dead, o)
<1>1. e.resting \in Rests(O) /\ (Removed(e, o) <=> Tomb(e.resting, o) # -1)
  <2>1. e.resting \in Rests(O) /\ (Removed(e, o) <=> o \in Gone(e.resting))
    BY DEF Events, Removed, Known, Gone
  <2>2. o \in Gone(e.resting) => e.resting[o].last_ts \in Nat
    BY <2>1 DEF Gone, Rests, Slots
  <2> QED BY <2>1, <2>2 DEF Tomb
<1>2. f = IF Removed(e, o) THEN e
          ELSE [e EXCEPT !.resting = r, !.n_live = nl, !.n_dead = nd, !.dead = dd]
  BY Zenon DEF remove_order
<1>3. slot \in Slots /\ slot.size = 0 /\ slot.last_ts = ts
  BY DEF Slots, Owners
<1> HIDE DEF slot
<1>4. \A x : Tomb(r, x) = IF x = o THEN ts ELSE Tomb(e.resting, x)
  <2>1. \A x : Tomb(r, x) = IF x = o THEN IF slot.size = 0 THEN slot.last_ts ELSE -1 ELSE Tomb(e.resting, x)
    BY <1>1, <1>3, TombSet
  <2> QED BY <1>3, <2>1
<1> HIDE DEF r, nl, nd, dd
<1>5. CASE Removed(e, o)
  BY <1>1, <1>2, <1>5 DEF Buried
<1>6. CASE ~Removed(e, o)
  <2>1. f.seen = e.seen /\ f.resting = r
    BY <1>2, <1>6 DEF Events
  <2> QED BY <1>1, <1>4, <1>6, <2>1 DEF Buried
<1> QED BY <1>5, <1>6

\* Restated: an order that rests goes on resting.
LEMMA RestatedTomb ==
  ASSUME NEW O, NEW e \in Events(O), NEW c \in OrderEvents(O), Floored(e, c.o),
         c.size # 0, NEW by \in Path, NEW ts \in Nat, NEW f, f = Restated(e, c, by, ts)
  PROVE  Alike(f, e)
<1> DEFINE old == e.resting[c.o]
           new == IF c.size < old.size THEN [last_ts |-> ts, size |-> c.size, owner |-> by]
                  ELSE [old EXCEPT !.last_ts = ts]
           r == SetSlot(e.resting, c.o, new)
<1>1. e.resting \in Rests(O)
  BY DEF Events
<1>2. f = [e EXCEPT !.resting = r]
  BY Zenon DEF Restated
<1>3. c.o \in O /\ c.size \in Nat /\ c.o \in DOMAIN e.resting /\ old \in Slots /\ old.size # 0
  BY <1>1 DEF Rests, OrderEvents, Floored, Known
<1>4. new \in Slots /\ new.size # 0
  <2> HIDE DEF old
  <2> QED BY <1>3 DEF Slots, Owners
<1> HIDE DEF new
<1>5. \A x : Tomb(r, x) = Tomb(e.resting, x)
  <2>1. \A x : Tomb(r, x) = IF x = c.o THEN IF new.size = 0 THEN new.last_ts ELSE -1 ELSE Tomb(e.resting, x)
    BY <1>1, <1>3, <1>4, TombSet
  <2>2. c.o \notin Gone(e.resting)
    BY <1>3 DEF Gone
  <2> QED BY <1>4, <2>1, <2>2 DEF Tomb
<1> HIDE DEF r
<1>6. f.seen = e.seen /\ f.resting = r
  BY <1>2 DEF Events
<1> QED BY <1>5, <1>6 DEF Alike
\* admit: the orders that are removed gain the order of a removal that is delivered; a
\* change that is delivered is of an order that is not removed.
LEMMA AdmitKeeps ==
  ASSUME NEW O, IsFiniteSet(O), NEW e0, Sound(O, e0), NEW c \in OrderEvents(O), NEW by \in Path,
         NEW t \in Nat, NEW ts \in Nat, NEW f, f = admit(e0, c, by, t, ts),
         NEW v, v = Verdict(expire(e0, t), c, by, ts)
  PROVE  /\ Sound(O, f)
         /\ Gone(f.resting) = IF v = "Deliver" /\ c.size = 0 THEN Gone(e0.resting) \cup {c.o}
                              ELSE Gone(e0.resting)
         /\ v = "Deliver" /\ c.size # 0 => c.o \notin Gone(e0.resting)
<1> DEFINE e == expire(e0, t)
           g == IF c.size = 0 THEN remove_order(e, c.o, ts)
                ELSE IF Known(e, c.o) THEN Restated(e, c, by, ts)
                ELSE track_floor(e, c.o, c.size, by, ts)
<1>1. f = IF v = "Deliver" THEN Remember(g, c, t)
          ELSE IF v = "Disagreement" THEN [e EXCEPT !.forced = TRUE] ELSE e
  BY Zenon DEF admit
<1>2. Sound(O, e) /\ e.resting = e0.resting
  BY Expired
<1>3. v = Verdict(e, c, by, ts)
  OBVIOUS
<1> HIDE DEF e
<1>4. c.o \in O /\ c.size \in Nat
  BY DEF OrderEvents
<1>5. CASE v # "Deliver"
  <2>1. CASE v = "Disagreement"
    <3>1. f = [e EXCEPT !.forced = TRUE]
      BY <1>1, <1>5, <2>1
    <3>2. Sound(O, f) /\ f.resting = e.resting
      BY <1>2, <3>1, ForcedSet
    <3> QED BY <1>2, <1>5, <3>2
  <2>2. CASE v # "Disagreement"
    BY <1>1, <1>2, <1>5, <2>2
  <2> QED BY <2>1, <2>2
<1>6. CASE v = "Deliver"
  <2>1. f = Remember(g, c, t)
    BY <1>1, <1>6
  <2>2. c.size # 0 => ~Removed(e, c.o)
    <3> SUFFICES ASSUME c.size # 0, Removed(e, c.o) PROVE FALSE
      OBVIOUS
    <3>1. v \in {"Duplicate", "Resurrection"}
      BY <1>3, Zenon DEF Verdict
    <3> QED BY <1>6, <3>1
  <2>3. /\ Sound(O, g)
        /\ Gone(g.resting) = IF c.size = 0 THEN Gone(e.resting) \cup {c.o} ELSE Gone(e.resting)
    <3>1. CASE c.size = 0
      <4>1. g = remove_order(e, c.o, ts)
        BY <3>1
      <4> HIDE DEF g
      <4>2. Sound(O, g) /\ Gone(g.resting) = Gone(e.resting) \cup {c.o}
        <5> DEFINE o == c.o
        <5>1. o \in O /\ g = remove_order(e, o, ts)
          BY <1>4, <4>1
        <5> HIDE DEF o
        <5>2. Became(O, Gone(e.resting) \cup {o}, g)
          <6>1. Sound(O, e) /\ IsFiniteSet(O) /\ ts \in Nat
            BY <1>2
          <6> QED BY ONLY <6>1, <5>1, OrderRemoved
        <5> QED BY <5>2 DEF o, Became
      <4> QED BY <3>1, <4>2
    <3>2. CASE c.size # 0 /\ Known(e, c.o)
      <4>1. g = Restated(e, c, by, ts) /\ Floored(e, c.o)
        BY <2>2, <3>2 DEF Removed, Floored
      <4> HIDE DEF g
      <4>2. Sound(O, g) /\ Gone(g.resting) = Gone(e.resting)
        BY <1>2, <3>2, <4>1, RestatedRests
      <4> QED BY <3>2, <4>2
    <3>3. CASE c.size # 0 /\ ~Known(e, c.o)
      <4>1. g = track_floor(e, c.o, c.size, by, ts) /\ c.o \notin Gone(e.resting)
        BY <3>3 DEF Known, Gone
      <4> HIDE DEF g
      <4>2. Sound(O, g) /\ Gone(g.resting) = Gone(e.resting) \ {c.o}
        <5> DEFINE o == c.o
                   size == c.size
        <5>1. o \in O /\ size \in Nat /\ size # 0 /\ g = track_floor(e, o, size, by, ts)
          BY <1>4, <3>3, <4>1
        <5> HIDE DEF o, size
        <5>2. Became(O, Gone(e.resting) \ {o}, g)
          <6>1. Sound(O, e) /\ IsFiniteSet(O) /\ ts \in Nat /\ by \in Owners
            BY <1>2 DEF Owners
          <6> QED BY ONLY <6>1, <5>1, FloorTracked
        <5> QED BY <5>2 DEF o, Became
      <4> QED BY <3>3, <4>1, <4>2
    <3> QED BY <3>1, <3>2, <3>3
  <2> HIDE DEF g
  <2>4. Sound(O, f) /\ f.resting = g.resting
    BY <2>1, <2>3, SeenGrows
  <2>5. c.size # 0 => c.o \notin Gone(e.resting)
    BY <2>2 DEF Removed, Known, Gone
  <2> QED BY <1>2, <1>6, <2>3, <2>4, <2>5
<1> QED BY <1>5, <1>6

\* expire: what is left of the window was in it, and the later the less of it is left.
LEMMA WindowExpires ==
  ASSUME NEW O, NEW e \in Events(O), NEW t \in Nat
  PROVE  /\ Evs(expire(e, t).seen) \subseteq Evs(e.seen)
         /\ \A u \in Nat : t <= u => Evs(expire(e, u).seen) \subseteq Evs(expire(e, t).seen)
<1> DEFINE S == [ev : OrderEvents(O), at : Nat]
           q == e.seen
           n == Len(q)
           keep(u) == {i \in 1..n : u - q[i].at <= book_dedup_window_ns}
           from(u) == IF keep(u) = {} THEN n + 1 ELSE CHOOSE i \in keep(u) : \A j \in keep(u) : i <= j
<1>1. q \in Seq(S) /\ n \in Nat /\ \A i \in 1..n : q[i].at \in Nat
  <2>1. q \in Seq(S)
    BY DEF Events, Seens
  <2>2. ASSUME NEW i \in 1..n PROVE q[i] \in S
    <3> HIDE DEF S, q
    <3> QED BY <2>1
  <2>3. n \in Nat
    <3> HIDE DEF S, q
    <3> QED BY <2>1
  <2> QED BY <2>1, <2>2, <2>3
<1>2. ASSUME NEW u \in Nat
      PROVE  /\ from(u) \in 1..(n + 1) /\ (\A j \in keep(u) : from(u) <= j)
             /\ keep(u) # {} => from(u) \in keep(u)
  <2> HIDE DEF S
  <2>0. keep(u) \in SUBSET Nat /\ keep(u) \subseteq 1..n
    BY <1>1
  <2>1. CASE keep(u) = {}
    BY <1>1, <2>1
  <2>2. CASE keep(u) # {}
    <3> DEFINE K == keep(u)
    <3>1. K \in SUBSET Nat /\ K # {} /\ K \subseteq 1..n
      BY <2>0, <2>2
    <3>2. from(u) = CHOOSE i \in K : \A j \in K : i <= j
      BY <2>2
    <3> HIDE DEF K, from
    <3>3. from(u) \in K /\ \A j \in K : from(u) <= j
      BY <3>1, <3>2, LeastExists
    <3>4. from(u) \in 1..(n + 1)
      <4>1. n \in Nat /\ from(u) \in 1..n
        BY <1>1, <3>1, <3>3
      <4> HIDE DEF n, q
      <4> QED BY <4>1
    <3> QED BY <3>3, <3>4 DEF K
  <2> QED BY <2>1, <2>2
<1>3. ASSUME NEW u \in Nat PROVE Evs(expire(e, u).seen) = {q[i].ev : i \in from(u)..n}
  <2> DEFINE k == from(u)
             r == SubSeq(q, k, n)
  <2>1. expire(e, u) = [e EXCEPT !.seen = r]
    BY Zenon DEF expire
  <2>2. k \in 1..(n + 1)
    BY <1>2
  <2> HIDE DEF k, S
  <2>3. DOMAIN r = 1..(n - k + 1) /\ \A i \in 1..(n - k + 1) : r[i] = q[i + k - 1]
    BY <1>1, <2>2
  <2>4. {r[i].ev : i \in 1..(n - k + 1)} = {q[i].ev : i \in k..n}
    <3>1. ASSUME NEW i \in 1..(n - k + 1) PROVE i + k - 1 \in k..n /\ r[i] = q[i + k - 1]
      BY <1>1, <2>2, <2>3
    <3>2. ASSUME NEW i \in k..n PROVE i - k + 1 \in 1..(n - k + 1) /\ r[i - k + 1] = q[i]
      <4>1. i - k + 1 \in 1..(n - k + 1) /\ (i - k + 1) + k - 1 = i
        BY <1>1, <2>2
      <4> QED BY <2>3, <4>1
    <3> HIDE DEF r, q, n
    <3> QED BY <3>1, <3>2
  <2> HIDE DEF r
  <2>5. expire(e, u).seen = r
    BY <2>1 DEF Events
  <2> QED BY <2>3, <2>4, <2>5 DEF Evs, k
<1>4. Evs(q) = {q[i].ev : i \in 1..n}
  BY <1>1 DEF Evs
<1> DEFINE at(u) == {q[i].ev : i \in from(u)..n}
<1>7. \A u \in Nat : Evs(expire(e, u).seen) = at(u)
  BY <1>3
<1> HIDE DEF from, S, n
<1>5. Evs(expire(e, t).seen) \subseteq Evs(q)
  <2>1. from(t)..n \subseteq 1..n
    <3>1. from(t) \in 1..(n + 1) /\ n \in Nat
      BY <1>1, <1>2
    <3> QED BY <3>1
  <2>2. at(t) \subseteq {q[i].ev : i \in 1..n}
    <3> HIDE DEF q
    <3> QED BY <2>1
  <2> HIDE DEF at
  <2> QED BY <1>4, <1>7, <2>2
<1>6. ASSUME NEW u \in Nat, t <= u PROVE Evs(expire(e, u).seen) \subseteq Evs(expire(e, t).seen)
  <2>1. keep(u) \subseteq keep(t)
    <3> SUFFICES ASSUME NEW i \in 1..n, u - q[i].at <= book_dedup_window_ns
                 PROVE  t - q[i].at <= book_dedup_window_ns
      OBVIOUS
    <3>1. q[i].at \in Nat /\ book_dedup_window_ns \in Nat
      BY <1>1, GuardAssumption
    <3> QED BY <1>6, <3>1
  <2>2. from(t) <= from(u)
    <3>1. CASE keep(u) = {}
      <4>1. from(u) = n + 1
        BY <3>1 DEF from
      <4> HIDE DEF keep
      <4> QED BY <1>1, <1>2, <4>1
    <3>2. CASE keep(u) # {}
      <4> HIDE DEF keep
      <4> QED BY <1>2, <2>1, <3>2
    <3> QED BY <3>1, <3>2
  <2>3. from(u)..n \subseteq from(t)..n
    <3> HIDE DEF keep
    <3>1. from(u) \in 1..(n + 1) /\ from(t) \in 1..(n + 1) /\ n \in Nat
      BY <1>1, <1>2
    <3> QED BY <2>2, <3>1
  <2> HIDE DEF keep
  <2>4. at(u) \subseteq at(t)
    <3> HIDE DEF q
    <3> QED BY <2>3
  <2> HIDE DEF at
  <2> QED BY <1>7, <2>4
<1> QED BY <1>5, <1>6

\* What is in a sequence that c was put last in, or that lost its first as well.
LEMMA SeenEvents ==
  ASSUME NEW O, NEW e \in Events(O), NEW c \in OrderEvents(O), NEW t \in Nat
  PROVE  Evs(Remember(e, c, t).seen) \subseteq Evs(e.seen) \cup {c}
<1> DEFINE S == [ev : OrderEvents(O), at : Nat]
           x == [ev |-> c, at |-> t]
           q == Append(e.seen, x)
           r == IF Len(q) > MAX_SEEN_ORDER_EVENTS THEN Tail(q) ELSE q
           n == Len(e.seen)
<1>1. e.seen \in Seq(S) /\ x \in S /\ n \in Nat /\ x.ev = c
  BY DEF Events, Seens
<1>2. Remember(e, c, t) = [e EXCEPT !.seen = r]
  BY Zenon DEF Remember
<1> HIDE DEF S, x
<1>3. /\ q \in Seq(S) /\ Len(q) = n + 1 /\ DOMAIN q = 1..(n + 1)
      /\ \A i \in 1..n : q[i] = e.seen[i]
      /\ q[n + 1] = x
  BY <1>1
<1> HIDE DEF q
<1>4. ASSUME NEW i \in 1..(n + 1) PROVE q[i].ev \in Evs(e.seen) \cup {c}
  <2>1. i \in 1..n \/ i = n + 1
    BY <1>1
  <2>2. DOMAIN e.seen = 1..n
    BY <1>1
  <2> QED BY <1>1, <1>3, <2>1, <2>2 DEF Evs
<1>5. \A i \in DOMAIN r : \E j \in 1..(n + 1) : r[i] = q[j]
  <2>1. CASE r = q
    BY <1>3, <2>1
  <2>2. CASE r = Tail(q)
    <3>1. q # <<>>
      BY <1>1, <1>3
    <3>2. DOMAIN Tail(q) = 1..n /\ \A i \in 1..n : Tail(q)[i] = q[i + 1]
      BY <1>1, <1>3, <3>1
    <3>3. \A i \in 1..n : i + 1 \in 1..(n + 1)
      BY <1>1
    <3> QED BY <2>2, <3>2, <3>3
  <2> QED BY <2>1, <2>2
<1> HIDE DEF r, n
<1>6. Remember(e, c, t).seen = r
  BY <1>2 DEF Events
<1> QED BY <1>4, <1>5, <1>6 DEF Evs

\* The window is as it was and so is every removal, but those that are forgotten: in Fewer
\* any, in Faded such as were recorded before fr.
Fewer(f, e) == f.seen = e.seen /\ \A x : Tomb(f.resting, x) \in {Tomb(e.resting, x), -1}
Faded(f, e, fr) ==
  /\ f.seen = e.seen
  /\ \A x : \/ Tomb(f.resting, x) = Tomb(e.resting, x)
            \/ Tomb(f.resting, x) = -1 /\ Tomb(e.resting, x) < fr

\* ForgetHead: the head of dead is removed no longer.
LEMMA HeadForgotten ==
  ASSUME NEW O, IsFiniteSet(O), NEW e, Sound(O, e), e.dead # <<>>, NEW f, f = ForgetHead(e)
  PROVE  /\ Sound(O, f) /\ Gone(f.resting) \subseteq Gone(e.resting) /\ Fewer(f, e)
         /\ \A fr : Forgettable(e, Head(e.dead), fr) => Faded(f, e, fr)
<1> DEFINE o == Head(e.dead)
           dd == Tail(e.dead)
           q == [e EXCEPT !.dead = dd]
           r == DropSlot(e.resting, o)
           nd == e.n_dead - 1
<1>1. e \in Events(O) /\ Counted(e, MAX_GUARDED_ORDERS) /\ e.resting \in Rests(O) /\ e.dead \in Seq(O)
      /\ e.n_dead \in Int
  BY DEF Sound, Events
<1>2. dd \in Seq(O) /\ Range(e.dead) \subseteq Range(dd) \cup {o}
  BY <1>1, TailRange
<1>3. f = IF Removed(e, o) THEN [q EXCEPT !.resting = r, !.n_dead = q.n_dead - 1] ELSE q
  BY Zenon DEF ForgetHead
<1> HIDE DEF dd
<1>4. /\ r \in Rests(O) /\ Gone(r) = Gone(e.resting) \ {o} /\ Kept(r) = Kept(e.resting) \ {o}
      /\ \A x \in DOMAIN e.resting \ {o} : x \in DOMAIN r /\ r[x] = e.resting[x]
  BY <1>1, SlotDropped
<1>10. \A x : Tomb(r, x) = IF x = o THEN -1 ELSE Tomb(e.resting, x)
  BY <1>1, TombDropped
<1> HIDE DEF r
<1>5. Removed(e, o) <=> o \in Gone(e.resting)
  BY DEF Removed, Known, Gone
<1>6. /\ IsFiniteSet(Gone(e.resting)) /\ e.n_dead = Cardinality(Gone(e.resting))
  BY <1>1, SlotSets DEF Counted
<1>7. /\ q \in Events(O) /\ q.dead = dd /\ q.resting = e.resting /\ q.live = e.live
      /\ q.n_live = e.n_live /\ q.n_dead = e.n_dead /\ q.forced = e.forced /\ q.seen = e.seen
  BY <1>1, <1>2 DEF Events
<1> HIDE DEF q
<1>8. CASE ~Removed(e, o)
  <2>1. f = q /\ Gone(e.resting) \subseteq Range(dd)
    BY <1>1, <1>2, <1>3, <1>5, <1>8 DEF Counted
  <2>2. Counted(f, MAX_GUARDED_ORDERS)
    BY <1>1, <1>7, <2>1 DEF Counted
  <2>3. Fewer(f, e) /\ \A fr : Faded(f, e, fr)
    BY <1>7, <2>1 DEF Fewer, Faded
  <2> QED BY <1>7, <2>1, <2>2, <2>3 DEF Sound
<1>9. CASE Removed(e, o)
  <2>1. f = [q EXCEPT !.resting = r, !.n_dead = nd] /\ nd \in Int
    BY <1>1, <1>3, <1>7, <1>9
  <2>2. Cardinality(Gone(r)) = nd
    <3>1. Cardinality(Gone(e.resting) \ {o}) = Cardinality(Gone(e.resting)) - 1
      BY <1>5, <1>6, <1>9, FS_RemoveElement
    <3> QED BY <1>4, <1>6, <3>1
  <2> HIDE DEF nd
  <2>3. /\ f \in Events(O) /\ f.resting = r /\ f.live = e.live /\ f.dead = dd
        /\ f.n_live = e.n_live /\ f.n_dead = nd /\ f.seen = e.seen
    BY <1>4, <1>7, <2>1 DEF Events
  <2>4. Kept(r) = Kept(e.resting) /\ Gone(r) \subseteq Range(dd)
        /\ \A x \in Gone(r) : r[x].owner = None
    <3>1. o \notin Kept(e.resting)
      BY <1>5, <1>9 DEF Gone, Kept
    <3>2. \A x \in Gone(r) : x \in Gone(e.resting) /\ x # o /\ r[x] = e.resting[x]
      BY <1>4 DEF Gone
    <3> QED BY <1>1, <1>2, <1>4, <3>1, <3>2 DEF Counted
  <2>5. Counted(f, MAX_GUARDED_ORDERS)
    BY <1>1, <2>2, <2>3, <2>4 DEF Counted
  <2>6. Fewer(f, e)
    BY <1>10, <2>3 DEF Fewer
  <2>7. ASSUME NEW fr, Forgettable(e, o, fr) PROVE Faded(f, e, fr)
    <3>1. Tomb(e.resting, o) < fr
      BY <1>5, <1>9, <2>7 DEF Forgettable, Tomb
    <3> QED BY <1>10, <2>3, <3>1 DEF Faded
  <2> QED BY <1>4, <2>3, <2>5, <2>6, <2>7 DEF Sound
<1> QED BY <1>8, <1>9

\* forget_oldest_removed: the queue of a market with removed orders has one of them.
LEMMA OldestForgotten ==
  ASSUME NEW O, IsFiniteSet(O), NEW e, Sound(O, e), e.n_dead > 0, NEW f, f = forget_oldest_removed(e)
  PROVE  Sound(O, f) /\ Gone(f.resting) \subseteq Gone(e.resting) /\ Fewer(f, e)
<1> DEFINE W == {o \in DOMAIN e.resting : Removed(e, o)}
           dd == SkipTo(e.dead, W)
           q == [e EXCEPT !.dead = dd]
<1>1. e \in Events(O) /\ Counted(e, MAX_GUARDED_ORDERS) /\ e.resting \in Rests(O) /\ e.dead \in Seq(O)
      /\ e.n_dead = Cardinality(Gone(e.resting))
  BY DEF Sound, Events, Counted
<1>2. f = ForgetHead(q)
  BY Zenon DEF forget_oldest_removed
<1>3. W = Gone(e.resting)
  BY DEF Removed, Known, Gone
<1>4. dd \in Seq(O) /\ Range(e.dead) \cap W \subseteq Range(dd)
  BY <1>1, Skipped
<1> HIDE DEF dd, W
<1>5. Gone(e.resting) \subseteq Range(dd)
  BY <1>1, <1>3, <1>4 DEF Counted
<1>6. dd # <<>>
  <2>0. Cardinality({}) = 0
    BY FS_EmptySet
  <2>1. Gone(e.resting) # {}
    <3> SUFFICES ASSUME Gone(e.resting) = {} PROVE FALSE
      OBVIOUS
    <3>1. e.n_dead = 0
      BY <1>1, <2>0, Zenon
    <3> QED BY <3>1
  <2>2. Range(<<>>) = {}
    BY DEF Range
  <2> QED BY <1>5, <2>1, <2>2
<1>7. /\ q \in Events(O) /\ q.dead = dd /\ q.resting = e.resting /\ q.live = e.live
      /\ q.n_live = e.n_live /\ q.n_dead = e.n_dead /\ q.forced = e.forced /\ q.seen = e.seen
  BY <1>1, <1>4 DEF Events
<1> HIDE DEF q
<1>8. Sound(O, q)
  BY <1>1, <1>5, <1>7 DEF Sound, Counted
<1>9. Sound(O, f) /\ Gone(f.resting) \subseteq Gone(q.resting) /\ Fewer(f, q)
  BY <1>2, <1>6, <1>7, <1>8, HeadForgotten
<1> QED BY <1>7, <1>9 DEF Fewer
\* forget_expired: removed orders are forgotten, and that is all.
LEMMA ExpiredForgotten ==
  ASSUME NEW O, IsFiniteSet(O), NEW e, Sound(O, e), NEW fr, NEW f, f = forget_expired(e, fr)
  PROVE  /\ Sound(O, f) /\ Gone(f.resting) \subseteq Gone(e.resting)
         /\ Faded(f, e, fr) /\ (fr = None => f = e)
<1> DEFINE T == {a \in Events(O) : Counted(a, MAX_GUARDED_ORDERS)
                                  /\ Gone(a.resting) \subseteq Gone(e.resting) /\ Faded(a, e, fr)}
           Step(a) == IF a.dead # <<>> /\ Forgettable(a, Head(a.dead), fr) THEN ForgetHead(a) ELSE a
           s == [i \in 1..MAX_FORGOTTEN_PER_BATCH |-> i]
           n == Len(s)
           Is(g) == g = [i \in 0..n |-> IF i = 0 THEN e ELSE Step(g[i - 1])]
           acc == CHOOSE g : Is(g)
<1>1. e \in T /\ n \in Nat
  <2>1. Faded(e, e, fr)
    BY DEF Faded
  <2> QED BY <2>1, GuardAssumption DEF Sound
<1>2. ASSUME NEW a \in T PROVE Step(a) \in T
  <2>1. Sound(O, a) /\ Gone(a.resting) \subseteq Gone(e.resting) /\ Faded(a, e, fr)
    BY DEF Sound
  <2>2. CASE a.dead # <<>> /\ Forgettable(a, Head(a.dead), fr)
    <3>1. Step(a) = ForgetHead(a)
      BY <2>2
    <3> HIDE DEF Step
    <3>2. Sound(O, Step(a)) /\ Gone(Step(a).resting) \subseteq Gone(a.resting) /\ Faded(Step(a), a, fr)
      BY ONLY IsFiniteSet(O), <2>1, <2>2, <3>1, HeadForgotten
    <3>3. Faded(Step(a), e, fr)
      BY <2>1, <3>2 DEF Faded
    <3> QED BY <2>1, <3>2, <3>3 DEF Sound
  <2>3. CASE ~(a.dead # <<>> /\ Forgettable(a, Head(a.dead), fr))
    BY <2>3
  <2> QED BY <2>2, <2>3
<1>3. f = IF fr = None THEN e ELSE acc[n]
  BY Zenon DEF forget_expired, Along
<1> HIDE DEF T, Step, n
<1>4. Is(acc)
  <2> DEFINE F == [x \in T \X (1..n) |-> Step(x[1])]
  <2>1. F \in [T \X (1..n) -> T]
    BY <1>2
  <2>2. PICK g : Runs(g, n, T, e, F)
    <3> HIDE DEF F
    <3> QED BY ONLY <1>1, <2>1, StepsExist
  <2>3. ASSUME NEW i \in 1..n PROVE g[i] = Step(g[i - 1])
    <3>1. i - 1 \in 0..n /\ g[i - 1] \in T
      BY <1>1, <2>2 DEF Runs
    <3>2. F[<<g[i - 1], i>>] = Step(g[i - 1])
      BY <3>1
    <3> QED BY <2>2, <3>2 DEF Runs
  <2>4. Is(g)
    <3>1. \A i \in 0..n : g[i] = IF i = 0 THEN e ELSE Step(g[i - 1])
      BY <1>1, <2>2, <2>3 DEF Runs
    <3> QED BY <2>2, <3>1 DEF Runs
  <2> QED BY <2>4, Zenon
<1> HIDE DEF acc
<1>5. \A i \in 0..n : acc[i] \in T
  <2> DEFINE S == [i \in 0..n |-> T]
  <2>1. acc[0] \in S[0] /\ \A i \in 1..n : acc[i - 1] \in S[i - 1] => acc[i] \in S[i]
    BY <1>1, <1>2, <1>4
  <2>2. \A i \in 0..n : S[i] = T
    OBVIOUS
  <2> HIDE DEF S
  <2>3. \A i \in 0..n : acc[i] \in S[i]
    BY ONLY <1>1, <2>1, Steps
  <2> QED BY <2>2, <2>3
<1>6. f \in T
  BY <1>1, <1>3, <1>5
<1> QED BY <1>3, <1>6 DEF T, Sound
\* shed_over_budget: removed orders are forgotten, and that is all.
LEMMA BudgetShed ==
  ASSUME NEW O, IsFiniteSet(O), NEW e, Sound(O, e), NEW h \in Int, NEW f, f = shed_over_budget(e, h)
  PROVE  Sound(O, f) /\ Gone(f.resting) \subseteq Gone(e.resting) /\ Fewer(f, e)
<1> DEFINE T == {a \in Events(O) : Counted(a, MAX_GUARDED_ORDERS)
                                  /\ Gone(a.resting) \subseteq Gone(e.resting) /\ Fewer(a, e)}
           Step(a) == IF Charged(h, e, a) > MAX_TOMBSTONES_TOTAL /\ a.n_dead > 0
                      THEN forget_oldest_removed(a) ELSE a
           s == [i \in 1..e.n_dead |-> i]
           n == Len(s)
           Is(g) == g = [i \in 0..n |-> IF i = 0 THEN e ELSE Step(g[i - 1])]
           acc == CHOOSE g : Is(g)
<1>0. e \in Events(O) /\ e.resting \in Rests(O) /\ e.n_dead = Cardinality(Gone(e.resting))
  BY DEF Sound, Events, Counted
<1>1. e \in T /\ n \in Nat
  <2>1. e.n_dead \in Nat
    BY <1>0, SlotSets
  <2>2. Fewer(e, e)
    BY DEF Fewer
  <2> QED BY <2>1, <2>2 DEF Sound
<1>2. ASSUME NEW a \in T PROVE Step(a) \in T
  <2>1. Sound(O, a) /\ Gone(a.resting) \subseteq Gone(e.resting) /\ Fewer(a, e)
    BY DEF Sound
  <2>2. CASE Charged(h, e, a) > MAX_TOMBSTONES_TOTAL /\ a.n_dead > 0
    <3>1. Step(a) = forget_oldest_removed(a)
      BY <2>2
    <3> HIDE DEF Step
    <3>2. Sound(O, Step(a)) /\ Gone(Step(a).resting) \subseteq Gone(a.resting) /\ Fewer(Step(a), a)
      BY ONLY IsFiniteSet(O), <2>1, <2>2, <3>1, OldestForgotten
    <3>3. Fewer(Step(a), e)
      BY <2>1, <3>2 DEF Fewer
    <3> QED BY <2>1, <3>2, <3>3 DEF Sound
  <2>3. CASE ~(Charged(h, e, a) > MAX_TOMBSTONES_TOTAL /\ a.n_dead > 0)
    BY <2>3
  <2> QED BY <2>2, <2>3
<1>3. f = acc[n]
  BY Zenon DEF shed_over_budget, Along
<1> HIDE DEF T, Step, n
<1>4. Is(acc)
  <2> DEFINE F == [x \in T \X (1..n) |-> Step(x[1])]
  <2>1. F \in [T \X (1..n) -> T]
    BY <1>2
  <2>2. PICK g : Runs(g, n, T, e, F)
    <3> HIDE DEF F
    <3> QED BY ONLY <1>1, <2>1, StepsExist
  <2>3. ASSUME NEW i \in 1..n PROVE g[i] = Step(g[i - 1])
    <3>1. i - 1 \in 0..n /\ g[i - 1] \in T
      BY <1>1, <2>2 DEF Runs
    <3>2. F[<<g[i - 1], i>>] = Step(g[i - 1])
      BY <3>1
    <3> QED BY <2>2, <3>2 DEF Runs
  <2>4. Is(g)
    <3>1. \A i \in 0..n : g[i] = IF i = 0 THEN e ELSE Step(g[i - 1])
      BY <1>1, <2>2, <2>3 DEF Runs
    <3> QED BY <2>2, <3>1 DEF Runs
  <2> QED BY <2>4, Zenon
<1> HIDE DEF acc
<1>5. \A i \in 0..n : acc[i] \in T
  <2> DEFINE S == [i \in 0..n |-> T]
  <2>1. acc[0] \in S[0] /\ \A i \in 1..n : acc[i - 1] \in S[i - 1] => acc[i] \in S[i]
    BY <1>1, <1>2, <1>4
  <2>2. \A i \in 0..n : S[i] = T
    OBVIOUS
  <2> HIDE DEF S
  <2>3. \A i \in 0..n : acc[i] \in S[i]
    BY ONLY <1>1, <2>1, Steps
  <2> QED BY <2>2, <2>3
<1>6. f \in T
  BY <1>1, <1>3, <1>5
<1> QED BY <1>6 DEF T, Sound

\* The window is empty, and the removal of an order that the book has not is as it was.
Reseeded(f, e, O, size) ==
  f.seen = <<>> /\ \A x \in O : size[x] = 0 => Tomb(f.resting, x) = Tomb(e.resting, x)

\* rebaselined: no order of the new book is removed, and no other order becomes so.
LEMMA BaselineSeeds ==
  ASSUME NEW O, IsFiniteSet(O), NEW e0, Sound(O, e0), NEW orders \in Seq(O), O = Range(orders),
         NEW size \in [O -> Nat], NEW ts \in Nat, NEW f, f = rebaselined(e0, orders, size, ts)
  PROVE  /\ Sound(O, f) /\ Gone(f.resting) \subseteq Gone(e0.resting)
         /\ (\A o \in Gone(f.resting) : size[o] = 0)
         /\ Reseeded(f, e0, O, size)
<1> DEFINE e == [e0 EXCEPT !.seen = <<>>, !.forced = FALSE]
           T == {a \in Events(O) : Counted(a, MAX_GUARDED_ORDERS)
                                  /\ Gone(a.resting) \subseteq Gone(e0.resting) /\ Reseeded(a, e0, O, size)}
           Step(a, o) == IF size[o] # 0 THEN track_floor(a, o, size[o], None, ts) ELSE a
           Seeds(a, o, b) == /\ b \in T /\ Gone(b.resting) \subseteq Gone(a.resting)
                             /\ size[o] # 0 => o \notin Gone(b.resting)
           n == Len(orders)
           Is(g) == g = [i \in 0..n |-> IF i = 0 THEN e ELSE Step(g[i - 1], orders[i])]
           acc == CHOOSE g : Is(g)
<1>1. e \in T /\ n \in Nat /\ \A i \in 1..n : orders[i] \in O
  <2> DEFINE d == [e0 EXCEPT !.seen = <<>>]
             q == <<>>
  <2>0. q \in Seens(O) /\ d = [e0 EXCEPT !.seen = q]
    BY DEF Seens
  <2>2. e = [d EXCEPT !.forced = FALSE]
    BY DEF Sound, Events
  <2> HIDE DEF d, e, q
  <2>1. Sound(O, d) /\ d.resting = e0.resting
    BY ONLY <2>0, Sound(O, e0), SeenSet
  <2>3. Sound(O, e) /\ e.resting = d.resting
    BY <2>1, <2>2, ForcedSet
  <2>5. e.seen = <<>>
    BY DEF e, Sound, Events
  <2>4. e \in T
    BY <2>1, <2>3, <2>5 DEF Sound, Reseeded
  <2> QED BY <2>4
<1>2. ASSUME NEW a \in T, NEW o \in O
      PROVE  Step(a, o) \in T /\ Seeds(a, o, Step(a, o))
  <2>1. Sound(O, a) /\ Gone(a.resting) \subseteq Gone(e0.resting) /\ Reseeded(a, e0, O, size)
    BY DEF Sound
  <2>2. CASE size[o] # 0
    <3> DEFINE z == size[o]
    <3>1. Step(a, o) = track_floor(a, o, z, None, ts) /\ z \in Nat /\ z # 0
      BY <2>2
    <3>2. None \in Owners
      BY DEF Owners
    <3> HIDE DEF Step, z
    <3>3. Sound(O, Step(a, o)) /\ Gone(Step(a, o).resting) = Gone(a.resting) \ {o}
      <4> DEFINE b == Step(a, o)
      <4> HIDE DEF b
      <4>1. b = track_floor(a, o, z, None, ts)
        BY <3>1 DEF b
      <4>2. Became(O, Gone(a.resting) \ {o}, b)
        <5>1. Sound(O, a) /\ z \in Nat /\ z # 0
          BY <2>1, <3>1
        <5> QED BY ONLY IsFiniteSet(O), o \in O, ts \in Nat, <3>2, <4>1, <5>1, FloorTracked
      <4> QED BY <4>2 DEF b, Became
    <3>4. Reseeded(Step(a, o), e0, O, size)
      <4> DEFINE b == Step(a, o)
      <4> HIDE DEF b
      <4>1. b = track_floor(a, o, z, None, ts) /\ a \in Events(O)
        BY <2>1, <3>1 DEF b, Sound
      <4>2. Unburied(b, a, o)
        BY ONLY o \in O, ts \in Nat, <3>1, <3>2, <4>1, FloorTomb
      <4>3. Reseeded(b, e0, O, size)
        BY <2>1, <2>2, <4>2 DEF Unburied, Reseeded
      <4> QED BY <4>3 DEF b
    <3> QED BY <2>1, <3>3, <3>4 DEF Sound
  <2>3. CASE size[o] = 0
    BY <2>3
  <2> QED BY <2>2, <2>3
<1>3. f = acc[n]
  BY Zenon DEF rebaselined, Along
<1> HIDE DEF T, Step, n, e
<1>4. Is(acc)
  <2> DEFINE F == [x \in T \X (1..n) |-> Step(x[1], orders[x[2]])]
  <2>1. F \in [T \X (1..n) -> T]
    BY <1>1, <1>2
  <2>2. PICK g : Runs(g, n, T, e, F)
    <3> HIDE DEF F
    <3> QED BY ONLY <1>1, <2>1, StepsExist
  <2>3. ASSUME NEW i \in 1..n PROVE g[i] = Step(g[i - 1], orders[i])
    <3>1. i - 1 \in 0..n /\ g[i - 1] \in T
      BY <1>1, <2>2 DEF Runs
    <3>2. F[<<g[i - 1], i>>] = Step(g[i - 1], orders[i])
      BY <3>1
    <3> QED BY <2>2, <3>2 DEF Runs
  <2>4. Is(g)
    <3>1. \A i \in 0..n : g[i] = IF i = 0 THEN e ELSE Step(g[i - 1], orders[i])
      BY <1>1, <2>2, <2>3 DEF Runs
    <3> QED BY <2>2, <3>1 DEF Runs
  <2> QED BY <2>4, Zenon
<1> HIDE DEF acc
<1>5. \A i \in 0..n : acc[i] \in T /\ \A j \in 1..i : size[orders[j]] # 0 => orders[j] \notin Gone(acc[i].resting)
  <2> DEFINE S == [i \in 0..n |-> {a \in T : \A j \in 1..i : size[orders[j]] # 0 => orders[j] \notin Gone(a.resting)}]
  <2>0. \A i \in 0..n : S[i] = {a \in T : \A j \in 1..i : size[orders[j]] # 0 => orders[j] \notin Gone(a.resting)}
    OBVIOUS
  <2> HIDE DEF S
  <2>1. acc[0] \in S[0]
    BY <1>1, <1>4, <2>0
  <2>2. ASSUME NEW i \in 1..n, acc[i - 1] \in S[i - 1] PROVE acc[i] \in S[i]
    <3>1. acc[i] = Step(acc[i - 1], orders[i]) /\ i - 1 \in 0..n /\ i \in 0..n
      BY <1>1, <1>4
    <3>2. acc[i - 1] \in T /\ \A j \in 1..(i - 1) : size[orders[j]] # 0 => orders[j] \notin Gone(acc[i - 1].resting)
      BY <2>0, <2>2, <3>1
    <3>3. /\ acc[i] \in T /\ Gone(acc[i].resting) \subseteq Gone(acc[i - 1].resting)
          /\ size[orders[i]] # 0 => orders[i] \notin Gone(acc[i].resting)
      <4> DEFINE x == acc[i - 1]
                 o == orders[i]
      <4>1. x \in T /\ o \in O /\ acc[i] = Step(x, o)
        BY <1>1, <3>1, <3>2
      <4> HIDE DEF x, o, Seeds
      <4>2. Seeds(x, o, acc[i])
        BY <1>2, <4>1
      <4> QED BY <4>2 DEF x, o, Seeds
    <3>4. \A j \in 1..i : size[orders[j]] # 0 => orders[j] \notin Gone(acc[i].resting)
      <4> SUFFICES ASSUME NEW j \in 1..i, size[orders[j]] # 0 PROVE orders[j] \notin Gone(acc[i].resting)
        OBVIOUS
      <4>1. j = i \/ j \in 1..(i - 1)
        BY <1>1
      <4> QED BY <3>2, <3>3, <4>1
    <3> QED BY <2>0, <3>1, <3>3, <3>4
  <2>3. \A i \in 0..n : acc[i] \in S[i]
    BY ONLY <1>1, <2>1, <2>2, Steps
  <2> QED BY <2>0, <2>3
<1>6. f \in T /\ \A j \in 1..n : size[orders[j]] # 0 => orders[j] \notin Gone(f.resting)
  BY <1>1, <1>3, <1>5
<1>7. Sound(O, f) /\ Gone(f.resting) \subseteq Gone(e0.resting)
  BY <1>6 DEF T, Sound
<1>8. ASSUME NEW o \in Gone(f.resting) PROVE size[o] = 0
  <2>1. f.resting \in Rests(O)
    BY <1>7 DEF Sound, Events
  <2>2. o \in O
    BY <2>1, SlotSets
  <2>3. PICK j \in 1..n : orders[j] = o
    BY <2>2 DEF Range, n
  <2> QED BY <1>6, <2>3
<1>9. Reseeded(f, e0, O, size)
  BY <1>6 DEF T, Reseeded
<1> QED BY <1>7, <1>8, <1>9
-----------------------------------------------------------------------------
(* A batch on the wire.                                                     *)

\* The sizes on the wire as the changes of a batch reach it, one after the other.
Folds(acc, O, size, kept) ==
  /\ acc \in [0..Len(kept) -> [O -> Nat]] /\ acc[0] = size
  /\ \A i \in 1..Len(kept) : acc[i] = [acc[i - 1] EXCEPT ![kept[i].o] = kept[i].size]

\* Folded is the last of them.
LEMMA FoldedRuns ==
  ASSUME NEW O, NEW size \in [O -> Nat], NEW kept \in Seq(OrderEvents(O))
  PROVE  \E acc : Folds(acc, O, size, kept) /\ Folded(size, kept) = acc[Len(kept)]
<1> DEFINE T == [O -> Nat]
           Step(b, c) == [b EXCEPT ![c.o] = c.size]
           n == Len(kept)
           Is(g) == g = [i \in 0..n |-> IF i = 0 THEN size ELSE Step(g[i - 1], kept[i])]
           acc == CHOOSE g : Is(g)
<1>1. size \in T /\ n \in Nat /\ \A i \in 1..n : kept[i] \in OrderEvents(O)
  OBVIOUS
<1>2. ASSUME NEW b \in T, NEW c \in OrderEvents(O) PROVE Step(b, c) \in T
  <2>1. c.o \in O /\ c.size \in Nat
    BY DEF OrderEvents
  <2> QED BY <2>1
<1>3. Folded(size, kept) = acc[n]
  BY Zenon DEF Folded, Along
<1> HIDE DEF T, Step, n
<1>4. Is(acc)
  <2> DEFINE F == [x \in T \X (1..n) |-> Step(x[1], kept[x[2]])]
  <2>1. F \in [T \X (1..n) -> T]
    BY <1>1, <1>2
  <2>2. PICK g : Runs(g, n, T, size, F)
    <3> HIDE DEF F
    <3> QED BY ONLY <1>1, <2>1, StepsExist
  <2>3. ASSUME NEW i \in 1..n PROVE g[i] = Step(g[i - 1], kept[i])
    <3>1. i - 1 \in 0..n /\ g[i - 1] \in T
      BY <1>1, <2>2 DEF Runs
    <3>2. F[<<g[i - 1], i>>] = Step(g[i - 1], kept[i])
      BY <3>1
    <3> QED BY <2>2, <3>2 DEF Runs
  <2>4. Is(g)
    <3>1. \A i \in 0..n : g[i] = IF i = 0 THEN size ELSE Step(g[i - 1], kept[i])
      BY <1>1, <2>2, <2>3 DEF Runs
    <3> QED BY <2>2, <3>1 DEF Runs
  <2> QED BY <2>4, Zenon
<1> HIDE DEF acc
<1>5. \A i \in 0..n : acc[i] \in T
  <2> DEFINE S == [i \in 0..n |-> T]
  <2>1. acc[0] \in S[0] /\ \A i \in 1..n : acc[i - 1] \in S[i - 1] => acc[i] \in S[i]
    BY <1>1, <1>2, <1>4
  <2>2. \A i \in 0..n : S[i] = T
    OBVIOUS
  <2> HIDE DEF S
  <2>3. \A i \in 0..n : acc[i] \in S[i]
    BY ONLY <1>1, <2>1, Steps
  <2> QED BY <2>2, <2>3
<1>6. acc[0] = size /\ \A i \in 1..n : acc[i] = Step(acc[i - 1], kept[i])
  BY <1>1, <1>4
<1>7. acc \in [0..n -> T]
  BY <1>4, <1>5
<1>8. Folds(acc, O, size, kept)
  BY <1>6, <1>7 DEF Folds, T, Step, n
<1> QED BY <1>3, <1>8 DEF n

OneMore(O, size, kept, c) ==
  /\ Folded(size, kept) \in [O -> Nat]
  /\ Folded(size, Append(kept, c)) = [Folded(size, kept) EXCEPT ![c.o] = c.size]

\* One more change is one more step.
LEMMA FoldedAppend ==
  ASSUME NEW O, NEW size \in [O -> Nat], NEW kept \in Seq(OrderEvents(O)), NEW c \in OrderEvents(O)
  PROVE  OneMore(O, size, kept, c)
<1> DEFINE more == Append(kept, c)
           n == Len(kept)
<1>1. more \in Seq(OrderEvents(O)) /\ n \in Nat /\ Len(more) = n + 1 /\ more[n + 1] = c
      /\ \A i \in 1..n : more[i] = kept[i]
  OBVIOUS
<1>2. PICK f : Folds(f, O, size, kept) /\ Folded(size, kept) = f[n]
  BY FoldedRuns
<1> HIDE DEF more
<1>3. PICK g : Folds(g, O, size, more) /\ Folded(size, more) = g[Len(more)]
  BY <1>1, FoldedRuns
<1> HIDE DEF n
<1>4. \A i \in 0..n : g[i] = f[i]
  <2> DEFINE S == [i \in 0..n |-> {f[i]}]
  <2>0. \A i \in 0..n : S[i] = {f[i]}
    OBVIOUS
  <2> HIDE DEF S
  <2>1. g[0] \in S[0]
    BY <1>1, <1>2, <1>3, <2>0 DEF Folds
  <2>2. ASSUME NEW i \in 1..n, g[i - 1] \in S[i - 1] PROVE g[i] \in S[i]
    <3>1. i - 1 \in 0..n /\ i \in 0..n /\ i \in 1..(n + 1) /\ more[i] = kept[i]
      BY <1>1
    <3>2. g[i - 1] = f[i - 1]
      BY <2>0, <2>2, <3>1
    <3>3. g[i] = [g[i - 1] EXCEPT ![more[i].o] = more[i].size]
      BY <1>1, <1>3, <3>1 DEF Folds
    <3>4. f[i] = [f[i - 1] EXCEPT ![kept[i].o] = kept[i].size]
      BY <1>2 DEF Folds, n
    <3>5. g[i] = f[i]
      BY <3>1, <3>2, <3>3, <3>4, Zenon
    <3> QED BY <2>0, <3>1, <3>5
  <2>3. \A i \in 0..n : g[i] \in S[i]
    BY ONLY <1>1, <2>1, <2>2, Steps
  <2> QED BY <2>0, <2>3
<1>5. g[n + 1] = [g[n] EXCEPT ![c.o] = c.size]
  <2> DEFINE k == n + 1
  <2>1. k \in 1..Len(more) /\ k - 1 = n /\ more[k] = c
    BY <1>1
  <2> HIDE DEF k
  <2>2. g[k] = [g[k - 1] EXCEPT ![more[k].o] = more[k].size]
    BY <1>3, <2>1, Zenon DEF Folds
  <2>3. g[k] = [g[n] EXCEPT ![c.o] = c.size]
    BY <2>1, <2>2, Zenon
  <2> QED BY <2>3 DEF k
<1>6. Folded(size, kept) \in [O -> Nat]
  BY <1>1, <1>2 DEF Folds, n
<1>7. g[n] = f[n]
  BY <1>1, <1>4
<1>8. Folded(size, more) = [Folded(size, kept) EXCEPT ![c.o] = c.size]
  BY <1>1, <1>2, <1>3, <1>5, <1>7, Zenon DEF n
<1> QED BY <1>6, <1>8 DEF more, OneMore

\* Nothing sent changes nothing.
LEMMA FoldedNone ==
  ASSUME NEW O, NEW size \in [O -> Nat]
  PROVE  Folded(size, <<>>) = size
<1> DEFINE none == <<>>
<1>1. none \in Seq(OrderEvents(O)) /\ Len(none) = 0
  OBVIOUS
<1> HIDE DEF none
<1>2. PICK f : Folds(f, O, size, none) /\ Folded(size, none) = f[Len(none)]
  BY <1>1, FoldedRuns
<1>3. Folded(size, none) = size
  BY <1>1, <1>2 DEF Folds
<1> QED BY <1>3 DEF none
\* What is admitted so far: a removed order is at 0 on the wire once what is kept is sent,
\* and when nothing kept is a removal no order beyond G was removed.
Judgement(O) == [e : Events(O), kept : Seq(OrderEvents(O))]
Judged(O, G, size, a) ==
  /\ Sound(O, a.e) /\ a.kept \in Seq(OrderEvents(O))
  /\ (\A o \in Gone(a.e.resting) : Folded(size, a.kept)[o] = 0)
  /\ (\A i \in 1..Len(a.kept) : a.kept[i].size # 0) => Gone(a.e.resting) \subseteq G

\* One change of a batch.
LEMMA ChangeJudged ==
  ASSUME NEW O, IsFiniteSet(O), NEW G, NEW size \in [O -> Nat], NEW a \in Judgement(O),
         Judged(O, G, size, a), NEW c \in OrderEvents(O), NEW by \in Path, NEW t \in Nat,
         NEW ts \in Nat, NEW b,
         b = [e |-> admit(a.e, c, by, t, ts),
              kept |-> IF Verdict(expire(a.e, t), c, by, ts) = "Deliver" THEN Append(a.kept, c)
                       ELSE a.kept]
  PROVE  b \in Judgement(O) /\ Judged(O, G, size, b)
<1> DEFINE e == a.e
           k == a.kept
           v == Verdict(expire(a.e, t), c, by, ts)
           f == admit(a.e, c, by, t, ts)
           m == IF v = "Deliver" THEN Append(k, c) ELSE k
           w == Folded(size, k)
<1>1. /\ Sound(O, e) /\ k \in Seq(OrderEvents(O)) /\ (\A o \in Gone(e.resting) : w[o] = 0)
      /\ (\A i \in 1..Len(k) : k[i].size # 0) => Gone(e.resting) \subseteq G
  BY DEF Judged
<1>2. b = [e |-> f, kept |-> m]
  OBVIOUS
<1>3. b.e = f /\ b.kept = m
  BY <1>2
<1>4. /\ Sound(O, f)
      /\ Gone(f.resting) = IF v = "Deliver" /\ c.size = 0 THEN Gone(e.resting) \cup {c.o}
                           ELSE Gone(e.resting)
      /\ v = "Deliver" /\ c.size # 0 => c.o \notin Gone(e.resting)
  <2>1. Sound(O, a.e)
    BY <1>1
  <2>2. f = admit(a.e, c, by, t, ts) /\ v = Verdict(expire(a.e, t), c, by, ts)
    OBVIOUS
  <2> HIDE DEF f, v
  <2> QED BY ONLY IsFiniteSet(O), c \in OrderEvents(O), by \in Path, t \in Nat, ts \in Nat,
                  <2>1, <2>2, AdmitKeeps
<1>5. w \in [O -> Nat] /\ Folded(size, Append(k, c)) = [w EXCEPT ![c.o] = c.size]
  <2>1. k \in Seq(OrderEvents(O))
    BY <1>1
  <2> HIDE DEF k
  <2>2. OneMore(O, size, k, c)
    BY <2>1, FoldedAppend
  <2> QED BY <2>2, Zenon DEF OneMore
<1>6. c.o \in O /\ c.size \in Nat /\ Gone(e.resting) \subseteq O
  <2>1. e.resting \in Rests(O)
    BY <1>1 DEF Sound, Events
  <2> QED BY <2>1, SlotSets DEF OrderEvents
<1> HIDE DEF e, k, v, f, w
<1>7. b \in Judgement(O)
  <2>1. m \in Seq(OrderEvents(O)) /\ f \in Events(O)
    BY <1>1, <1>4 DEF Sound
  <2> HIDE DEF m
  <2> QED BY <1>2, <2>1 DEF Judgement
<1>8. CASE v = "Deliver"
  <2>1. m = Append(k, c)
    BY <1>8
  <2> HIDE DEF m
  <2>2. m \in Seq(OrderEvents(O)) /\ Len(m) = Len(k) + 1 /\ Len(k) \in Nat /\ m[Len(k) + 1] = c
        /\ \A i \in 1..Len(k) : m[i] = k[i]
    BY <1>1, <2>1
  <2>3. Folded(size, m) = [w EXCEPT ![c.o] = c.size]
    BY <1>5, <2>1
  <2>4. \A o \in Gone(f.resting) : Folded(size, m)[o] = 0
    BY <1>1, <1>4, <1>5, <1>6, <1>8, <2>3
  <2>5. ASSUME \A i \in 1..Len(m) : m[i].size # 0 PROVE Gone(f.resting) \subseteq G
    <3>1. c.size # 0
      BY <2>2, <2>5
    <3>2. \A i \in 1..Len(k) : k[i].size # 0
      BY <2>2, <2>5
    <3> QED BY <1>1, <1>4, <3>1, <3>2
  <2> QED BY <1>3, <1>4, <1>7, <2>2, <2>4, <2>5 DEF Judged
<1>9. CASE v # "Deliver"
  <2>1. m = k /\ Gone(f.resting) = Gone(e.resting)
    BY <1>4, <1>9
  <2> QED BY <1>1, <1>3, <1>4, <1>7, <2>1 DEF Judged, w
<1> QED BY <1>8, <1>9

\* The changes of a batch.
LEMMA BatchJudged ==
  ASSUME NEW O, IsFiniteSet(O), NEW e, Sound(O, e), NEW size \in [O -> Nat],
         \A o \in Gone(e.resting) : size[o] = 0, NEW changes \in Seq(OrderEvents(O)), NEW by \in Path,
         now \in Nat, NEW ts \in Nat
  PROVE  Judged(O, Gone(e.resting), size, Admitted(e, changes, by, ts))
<1> DEFINE G == Gone(e.resting)
           T == {a \in Judgement(O) : Judged(O, G, size, a)}
           Step(a, c) ==
             [e |-> admit(a.e, c, by, now, ts),
              kept |-> IF Verdict(expire(a.e, now), c, by, ts) = "Deliver" THEN Append(a.kept, c)
                       ELSE a.kept]
           first == [e |-> e, kept |-> <<>>]
           n == Len(changes)
           Is(g) == g = [i \in 0..n |-> IF i = 0 THEN first ELSE Step(g[i - 1], changes[i])]
           acc == CHOOSE g : Is(g)
<1>1. first \in T /\ n \in Nat /\ \A i \in 1..n : changes[i] \in OrderEvents(O)
  <2>1. first.e = e /\ first.kept = <<>> /\ <<>> \in Seq(OrderEvents(O)) /\ e \in Events(O)
    BY DEF Sound
  <2>2. first \in Judgement(O)
    BY <2>1 DEF Judgement
  <2>3. Folded(size, <<>>) = size
    BY FoldedNone
  <2>4. Judged(O, G, size, first)
    <3> HIDE DEF first
    <3> QED BY <2>1, <2>3 DEF Judged
  <2> QED BY <2>2, <2>4
<1>2. ASSUME NEW a \in T, NEW c \in OrderEvents(O) PROVE Step(a, c) \in T
  <2>1. a \in Judgement(O) /\ Judged(O, G, size, a)
    OBVIOUS
  <2> HIDE DEF G
  <2>2. Step(a, c) \in Judgement(O) /\ Judged(O, G, size, Step(a, c))
    BY ONLY IsFiniteSet(O), size \in [O -> Nat], c \in OrderEvents(O), by \in Path, now \in Nat,
       ts \in Nat, <2>1, ChangeJudged
  <2> QED BY <2>2
<1>3. Admitted(e, changes, by, ts) = acc[n]
  BY Zenon DEF Admitted, Along
<1> HIDE DEF T, Step, n, first, G
<1>4. Is(acc)
  <2> DEFINE F == [x \in T \X (1..n) |-> Step(x[1], changes[x[2]])]
  <2>1. F \in [T \X (1..n) -> T]
    BY <1>1, <1>2
  <2>2. PICK g : Runs(g, n, T, first, F)
    <3> HIDE DEF F
    <3> QED BY ONLY <1>1, <2>1, StepsExist
  <2>3. ASSUME NEW i \in 1..n PROVE g[i] = Step(g[i - 1], changes[i])
    <3>1. i - 1 \in 0..n /\ g[i - 1] \in T
      BY <1>1, <2>2 DEF Runs
    <3>2. F[<<g[i - 1], i>>] = Step(g[i - 1], changes[i])
      BY <3>1
    <3> QED BY <2>2, <3>2 DEF Runs
  <2>4. Is(g)
    <3>1. \A i \in 0..n : g[i] = IF i = 0 THEN first ELSE Step(g[i - 1], changes[i])
      BY <1>1, <2>2, <2>3 DEF Runs
    <3> QED BY <2>2, <3>1 DEF Runs
  <2> QED BY <2>4, Zenon
<1> HIDE DEF acc
<1>5. \A i \in 0..n : acc[i] \in T
  <2> DEFINE S == [i \in 0..n |-> T]
  <2>1. acc[0] \in S[0] /\ \A i \in 1..n : acc[i - 1] \in S[i - 1] => acc[i] \in S[i]
    BY <1>1, <1>2, <1>4
  <2>2. \A i \in 0..n : S[i] = T
    OBVIOUS
  <2> HIDE DEF S
  <2>3. \A i \in 0..n : acc[i] \in S[i]
    BY ONLY <1>1, <2>1, Steps
  <2> QED BY <2>2, <2>3
<1>6. acc[n] \in T
  BY <1>1, <1>5
<1> QED BY <1>3, <1>6 DEF T, G
-----------------------------------------------------------------------------
(* The budget.                                                              *)

Pick(s) == CHOOSE x \in s : TRUE

\* f has the total of w over every part of S.
Totals(f, S, w) ==
  /\ f \in [SUBSET S -> Int]
  /\ \A s \in SUBSET S : f[s] = IF s = {} THEN 0 ELSE f[s \ {Pick(s)}] + w[Pick(s)]

\* A set without one of its elements is smaller.
LEMMA Smaller ==
  ASSUME NEW S, IsFiniteSet(S), NEW s \in SUBSET S
  PROVE  /\ Cardinality(s) \in Nat /\ (Cardinality(s) = 0 <=> s = {}) /\ Cardinality(s) <= Cardinality(S)
         /\ s # {} => Pick(s) \in s /\ Cardinality(s \ {Pick(s)}) = Cardinality(s) - 1
<1>1. IsFiniteSet(s) /\ Cardinality(s) \in Nat /\ Cardinality(s) <= Cardinality(S)
  BY FS_Subset, FS_CardinalityType
<1>2. Cardinality(s) = 0 <=> s = {}
  BY <1>1, FS_EmptySet
<1>3. s # {} => Pick(s) \in s
  BY DEF Pick
<1>4. s # {} => Cardinality(s \ {Pick(s)}) = Cardinality(s) - 1
  BY <1>1, <1>3, FS_RemoveElement
<1> QED BY <1>1, <1>2, <1>3, <1>4

\* What holds of the empty set, and of a set when it holds of the set without the element
\* picked, holds of every part of S.
LEMMA PickSteps ==
  ASSUME NEW S, IsFiniteSet(S), NEW P, {} \in P,
         \A s \in SUBSET S : s # {} /\ s \ {Pick(s)} \in P => s \in P
  PROVE  \A s \in SUBSET S : s \in P
<1> DEFINE B == {s \in SUBSET S : s \notin P}
           C == {Cardinality(s) : s \in B}
<1> SUFFICES ASSUME B # {} PROVE FALSE
  OBVIOUS
<1>1. C \in SUBSET Nat /\ C # {}
  <2>1. \A s \in SUBSET S : Cardinality(s) \in Nat
    BY Smaller
  <2> QED BY <2>1
<1>2. PICK i \in C : \A j \in C : i <= j
  <2> HIDE DEF C
  <2> QED BY <1>1, LeastExists
<1>3. PICK s \in B : i = Cardinality(s)
  BY <1>2
<1>4. s # {} /\ s \in SUBSET S
  BY <1>3
<1> DEFINE r == s \ {Pick(s)}
<1>5. Cardinality(r) = Cardinality(s) - 1 /\ Cardinality(s) \in Nat
  BY <1>4, Smaller
<1>6. r \in B
  BY <1>3, <1>4
<1>7. Cardinality(r) \in C
  BY <1>6
<1> HIDE DEF r, C, B
<1> QED BY <1>2, <1>3, <1>5, <1>7

\* There are totals.
LEMMA TotalsExist ==
  ASSUME NEW S, IsFiniteSet(S), NEW w, \A x \in S : w[x] \in Int
  PROVE  \E f : Totals(f, S, w)
<1> DEFINE Val(f, s) == IF s = {} THEN 0 ELSE f[s \ {Pick(s)}] + w[Pick(s)]
           Upto(k, f) == /\ f \in [SUBSET S -> Int]
                         /\ \A s \in SUBSET S : Cardinality(s) <= k => f[s] = Val(f, s)
           N == Cardinality(S)
           B == {k \in 0..N : ~\E f : Upto(k, f)}
<1>0. N \in Nat
  BY FS_CardinalityType
<1>1. ASSUME B # {} PROVE FALSE
  <2>0. B \in SUBSET Nat
    BY <1>0
  <2>1. PICK k \in B : \A j \in B : k <= j
    <3> HIDE DEF B
    <3> QED BY <1>1, <2>0, LeastExists
  <2>2. k \in 0..N /\ ~\E f : Upto(k, f)
    BY <2>1
  <2>3. CASE k = 0
    <3> DEFINE f == [s \in SUBSET S |-> 0]
    <3>1. f \in [SUBSET S -> Int] /\ \A s \in SUBSET S : f[s] = 0
      OBVIOUS
    <3> HIDE DEF f
    <3>2. ASSUME NEW s \in SUBSET S, Cardinality(s) <= k PROVE f[s] = Val(f, s)
      <4>1. Cardinality(s) \in Nat /\ (Cardinality(s) = 0 => s = {})
        BY Smaller
      <4>2. s = {}
        BY <2>3, <3>2, <4>1
      <4> QED BY <3>1, <4>2
    <3>3. Upto(k, f)
      BY <3>1, <3>2
    <3> QED BY <2>2, <3>3
  <2>4. CASE k # 0
    <3>1. k - 1 \in 0..N /\ k - 1 \notin B
      <4> HIDE DEF B
      <4> QED BY <1>0, <2>1, <2>2, <2>4
    <3>2. PICK f : Upto(k - 1, f)
      BY <3>1
    <3> DEFINE g == [s \in SUBSET S |-> Val(f, s)]
    <3>3. ASSUME NEW s \in SUBSET S PROVE Val(f, s) \in Int
      <4>1. s # {} => Pick(s) \in S /\ s \ {Pick(s)} \in SUBSET S
        BY Smaller
      <4> QED BY <3>2, <4>1
    <3>4. g \in [SUBSET S -> Int] /\ \A s \in SUBSET S : g[s] = Val(f, s)
      <4> HIDE DEF Val
      <4> QED BY <3>3
    <3> HIDE DEF g
    <3>5. ASSUME NEW s \in SUBSET S, Cardinality(s) <= k PROVE g[s] = Val(g, s)
      <4>1. CASE s = {}
        BY <3>4, <4>1
      <4>2. CASE s # {}
        <5> DEFINE r == s \ {Pick(s)}
        <5>1. r \in SUBSET S /\ Cardinality(r) <= k - 1
          BY <1>0, <2>2, <3>5, <4>2, Smaller
        <5>2. f[r] = Val(f, r) /\ g[r] = Val(f, r)
          BY <3>2, <3>4, <5>1
        <5>3. g[s] = f[r] + w[Pick(s)] /\ Val(g, s) = g[r] + w[Pick(s)]
          BY <3>4, <4>2
        <5> QED BY <5>2, <5>3
      <4> QED BY <4>1, <4>2
    <3>6. Upto(k, g)
      BY <3>4, <3>5
    <3> QED BY <2>2, <3>6
  <2> QED BY <2>3, <2>4
<1>2. PICK f : Upto(N, f)
  <2>1. N \in 0..N /\ N \notin B
    <3> HIDE DEF B, N
    <3> QED BY <1>0, <1>1
  <2> HIDE DEF Upto, N
  <2> QED BY <2>1
<1>3. \A s \in SUBSET S : Cardinality(s) <= N
  BY Smaller
<1> QED BY <1>2, <1>3 DEF Totals
\* What the markets of x hold together.
Together(x) == FoldSet(LAMBDA m, n : n + x[m].n_dead, 0, Market)

\* It is a total.
LEMMA TogetherIsTotal ==
  ASSUME NEW x, IsFiniteSet(Market), \A m \in Market : x[m].n_dead \in Int
  PROVE  \E f : Totals(f, Market, [m \in Market |-> x[m].n_dead]) /\ Together(x) = f[Market]
<1> DEFINE w == [m \in Market |-> x[m].n_dead]
           Is(f) == f = [s \in SUBSET Market |->
                           IF s = {} THEN 0 ELSE f[s \ {Pick(s)}] + x[Pick(s)].n_dead]
           acc == CHOOSE f : Is(f)
<1>1. Together(x) = acc[Market]
  BY Zenon DEF Together, FoldSet, MapThenFoldSet, Pick
<1>2. \A m \in Market : w[m] = x[m].n_dead /\ w[m] \in Int
  OBVIOUS
<1> HIDE DEF w
<1>3. \A s \in SUBSET Market : s # {} => Pick(s) \in Market
  BY DEF Pick
<1>4. PICK f : Totals(f, Market, w)
  BY <1>2, TotalsExist
<1>5. Is(f)
  <2>1. \A s \in SUBSET Market : f[s] = IF s = {} THEN 0 ELSE f[s \ {Pick(s)}] + x[Pick(s)].n_dead
    BY <1>2, <1>3, <1>4 DEF Totals
  <2>2. f \in [SUBSET Market -> Int]
    BY <1>4 DEF Totals
  <2> QED BY <2>1, <2>2
<1>6. Is(acc)
  BY <1>5, Zenon
<1> HIDE DEF acc
<1>7. \A s \in SUBSET Market : acc[s] = IF s = {} THEN 0 ELSE acc[s \ {Pick(s)}] + w[Pick(s)]
  BY <1>2, <1>3, <1>6
<1>8. \A s \in SUBSET Market : acc[s] \in Int
  <2> DEFINE P == {s \in SUBSET Market : acc[s] \in Int}
  <2>1. {} \in P
    <3> DEFINE none == {}
    <3>1. none \in SUBSET Market /\ none = {}
      OBVIOUS
    <3> HIDE DEF none
    <3>2. acc[none] = 0
      BY <1>7, <3>1
    <3> QED BY <3>1, <3>2
  <2>2. \A s \in SUBSET Market : s # {} /\ s \ {Pick(s)} \in P => s \in P
    BY <1>2, <1>3, <1>7
  <2>3. \A s \in SUBSET Market : s \in P
    <3> HIDE DEF P
    <3> QED BY <2>1, <2>2, PickSteps
  <2> QED BY <2>3
<1>9. acc \in [SUBSET Market -> Int]
  BY <1>6, <1>8
<1>10. Totals(acc, Market, w)
  BY <1>7, <1>9 DEF Totals
<1> QED BY <1>1, <1>10 DEF w

\* When one market alone changes, the whole changes by as much.
LEMMA TogetherMoves ==
  ASSUME NEW x, NEW y, IsFiniteSet(Market), NEW m \in Market,
         \A o \in Market : x[o].n_dead \in Int /\ y[o].n_dead \in Int,
         \A o \in Market \ {m} : y[o].n_dead = x[o].n_dead
  PROVE  Together(y) = Together(x) + y[m].n_dead - x[m].n_dead
<1> DEFINE v == [o \in Market |-> x[o].n_dead]
           w == [o \in Market |-> y[o].n_dead]
           d == w[m] - v[m]
<1>1. PICK f : Totals(f, Market, v) /\ Together(x) = f[Market]
  BY TogetherIsTotal
<1>2. PICK g : Totals(g, Market, w) /\ Together(y) = g[Market]
  BY TogetherIsTotal
<1>3. /\ (\A o \in Market : v[o] \in Int /\ w[o] \in Int) /\ d \in Int /\ w[m] = v[m] + d
      /\ (\A o \in Market \ {m} : w[o] = v[o])
      /\ v[m] = x[m].n_dead /\ w[m] = y[m].n_dead
  OBVIOUS
<1> HIDE DEF v, w, d
<1>4. \A s \in SUBSET Market : g[s] = f[s] + (IF m \in s THEN d ELSE 0)
  <2> DEFINE Q == {s \in SUBSET Market : g[s] = f[s] + (IF m \in s THEN d ELSE 0)}
  <2>1. {} \in Q
    <3> DEFINE none == {}
    <3>1. none \in SUBSET Market /\ none = {} /\ m \notin none
      OBVIOUS
    <3> HIDE DEF none
    <3>2. f[none] = 0 /\ g[none] = 0
      BY <1>1, <1>2, <3>1 DEF Totals
    <3> QED BY <3>1, <3>2
  <2>2. ASSUME NEW s \in SUBSET Market, s # {}, s \ {Pick(s)} \in Q PROVE s \in Q
    <3> DEFINE o == Pick(s)
               r == s \ {o}
    <3>1. o \in s /\ o \in Market /\ r \in SUBSET Market
      BY <2>2 DEF Pick
    <3>2. f[s] = f[r] + v[o] /\ g[s] = g[r] + w[o] /\ f[r] \in Int /\ g[r] \in Int
      BY <1>1, <1>2, <2>2, <3>1 DEF Totals
    <3>3. g[r] = f[r] + (IF m \in r THEN d ELSE 0)
      BY <2>2
    <3>4. CASE o = m
      <4>1. m \notin r /\ m \in s /\ w[o] = v[o] + d
        BY <1>3, <3>1, <3>4
      <4> HIDE DEF o, r
      <4>2. g[s] = f[s] + d
        BY <1>3, <3>1, <3>2, <3>3, <4>1
      <4> QED BY <4>1, <4>2
    <3>5. CASE o # m
      <4>1. (m \in r <=> m \in s) /\ w[o] = v[o]
        BY <1>3, <3>1, <3>5
      <4> HIDE DEF o, r
      <4>2. g[s] = f[s] + (IF m \in s THEN d ELSE 0)
        BY <1>3, <3>1, <3>2, <3>3, <4>1
      <4> QED BY <4>2
    <3> QED BY <3>4, <3>5
  <2>3. \A s \in SUBSET Market : s \in Q
    <3> HIDE DEF Q
    <3> QED BY <2>1, <2>2, PickSteps
  <2> QED BY <2>3
<1>5. g[Market] = f[Market] + d /\ f[Market] \in Int
  BY <1>1, <1>4 DEF Totals
<1> QED BY <1>1, <1>2, <1>3, <1>5

\* When no market holds anything, the whole is 0.
LEMMA TogetherNone ==
  ASSUME NEW x, IsFiniteSet(Market), \A o \in Market : x[o].n_dead = 0
  PROVE  Together(x) = 0
<1> DEFINE v == [o \in Market |-> x[o].n_dead]
<1>0. \A o \in Market : x[o].n_dead \in Int
  OBVIOUS
<1>1. PICK f : Totals(f, Market, v) /\ Together(x) = f[Market]
  BY <1>0, TogetherIsTotal
<1>2. \A o \in Market : v[o] = 0
  OBVIOUS
<1> HIDE DEF v
<1> DEFINE P == {s \in SUBSET Market : f[s] = 0}
<1>3. {} \in P
  BY <1>1 DEF Totals
<1>4. ASSUME NEW s \in SUBSET Market, s # {}, s \ {Pick(s)} \in P PROVE s \in P
  <2>1. Pick(s) \in Market
    BY <1>4 DEF Pick
  <2> QED BY <1>1, <1>2, <1>4, <2>1 DEF Totals
<1>5. \A s \in SUBSET Market : s \in P
  <2> HIDE DEF P
  <2> QED BY <1>3, <1>4, PickSteps
<1> QED BY <1>1, <1>5
-----------------------------------------------------------------------------
(* The venue, and a path's way through its log.                             *)

VenueEvents == UNION {[m : {x}, o : Order(x), size : Nat, ts : Nat] : x \in Market}

\* An event of the venue is of an order of its market.
LEMMA VenueEvent ==
  ASSUME NEW e \in VenueEvents
  PROVE  e.m \in Market /\ e.o \in Order(e.m) /\ e.size \in Nat /\ e.ts \in Nat
BY DEF VenueEvents

\* A market has finitely many orders.
LEMMA OrdersFinite ==
  ASSUME NEW m \in Market
  PROVE  IsFiniteSet(Order(m)) /\ OrdersOf[m] \in Seq(Order(m)) /\ Order(m) = Range(OrdersOf[m])
<1> DEFINE q == OrdersOf[m]
           n == Len(q)
<1>1. q \in Seq(Range(q)) /\ Order(m) = Range(q)
  BY RaceAssumption DEF Order
<1>2. n \in Nat /\ DOMAIN q = 1..n
  BY <1>1
<1>3. IsFiniteSet(1..n)
  BY <1>2, FS_Interval
<1>4. q \in Surjection(1..n, Range(q))
  <2> HIDE DEF q
  <2> QED BY <1>1, <1>2 DEF Surjection, Range
<1>5. IsFiniteSet(Range(q))
  <2> HIDE DEF q, n
  <2> QED BY <1>3, <1>4, FS_Surjection
<1> QED BY <1>1, <1>5

\* The book of a market after some events has a size for each of its orders.
LEMMA BookTyped ==
  ASSUME NEW m \in Market, NEW k \in Nat, log \in Seq(VenueEvents), k <= Len(log)
  PROVE  BookAt(m, k) \in [Order(m) -> Nat]
<1> DEFINE T == [Order(m) -> Nat]
           s == SubSeq(log, 1, k)
           n == Len(s)
           base == Nothing(m)
           Step(b, e) == IF e.m = m THEN [b EXCEPT ![e.o] = e.size] ELSE b
           Is(g) == g = [i \in 0..n |-> IF i = 0 THEN base ELSE Step(g[i - 1], s[i])]
           acc == CHOOSE g : Is(g)
<1>1. n \in Nat /\ \A i \in 1..n : s[i] \in VenueEvents
  <2>1. s \in Seq(VenueEvents)
    OBVIOUS
  <2> HIDE DEF s
  <2> QED BY <2>1
<1>2. base \in T
  BY DEF Nothing
<1>3. ASSUME NEW b \in T, NEW e \in VenueEvents PROVE Step(b, e) \in T
  BY VenueEvent
<1>4. BookAt(m, k) = acc[n]
  BY Zenon DEF BookAt, Along
<1> HIDE DEF T, Step, n, s, base
<1>5. Is(acc)
  <2> DEFINE F == [x \in T \X (1..n) |-> Step(x[1], s[x[2]])]
  <2>1. F \in [T \X (1..n) -> T]
    BY <1>1, <1>3
  <2>2. PICK g : Runs(g, n, T, base, F)
    <3> HIDE DEF F
    <3> QED BY ONLY <1>1, <1>2, <2>1, StepsExist
  <2>3. ASSUME NEW i \in 1..n PROVE g[i] = Step(g[i - 1], s[i])
    <3>1. i - 1 \in 0..n /\ g[i - 1] \in T
      BY <1>1, <2>2 DEF Runs
    <3>2. F[<<g[i - 1], i>>] = Step(g[i - 1], s[i])
      BY <3>1
    <3> QED BY <2>2, <3>2 DEF Runs
  <2>4. Is(g)
    <3>1. \A i \in 0..n : g[i] = IF i = 0 THEN base ELSE Step(g[i - 1], s[i])
      BY <1>1, <2>2, <2>3 DEF Runs
    <3> QED BY <2>2, <3>1 DEF Runs
  <2> QED BY <2>4, Zenon
<1> HIDE DEF acc
<1>6. \A i \in 0..n : acc[i] \in T
  <2> DEFINE S == [i \in 0..n |-> T]
  <2>1. acc[0] \in S[0] /\ \A i \in 1..n : acc[i - 1] \in S[i - 1] => acc[i] \in S[i]
    BY <1>1, <1>2, <1>3, <1>5
  <2>2. \A i \in 0..n : S[i] = T
    OBVIOUS
  <2> HIDE DEF S
  <2>3. \A i \in 0..n : acc[i] \in S[i]
    BY ONLY <1>1, <2>1, Steps
  <2> QED BY <2>2, <2>3
<1> QED BY <1>1, <1>4, <1>6 DEF T

\* The venue's events are in order of time, and the sizes of an order shrink.
Orderly(l) ==
  \A i \in 1..Len(l) :
    /\ l[i].ts <= now
    /\ \A j \in 1..Len(l) : i < j =>
         /\ l[i].ts <= l[j].ts
         /\ l[i].m = l[j].m /\ l[i].o = l[j].o => l[j].size < l[i].size

\* A log y goes on from x.
Continues(x, y) ==
  Len(y) >= Len(x) /\ (\A i \in 1..Len(x) : y[i] = x[i]) /\ (Orderly(x) => Orderly(y))

\* One event that fits.
LEMMA OneEvent ==
  ASSUME NEW x \in Seq(VenueEvents), NEW m \in Market, NEW e \in NextEvents(m), e \in VenueEvents,
         Fits(x, e), now \in Nat, NEW y, y = Append(x, e)
  PROVE  Continues(x, y)
<1> DEFINE n == Len(x)
<1>1. n \in Nat /\ Len(y) = n + 1 /\ y[n + 1] = e /\ \A i \in 1..n : y[i] = x[i]
  OBVIOUS
<1>2. e.ts = now
  BY DEF NextEvents
<1>3. ASSUME NEW i \in 1..n, x[i].m = e.m, x[i].o = e.o PROVE e.size < x[i].size
  <2> DEFINE B == {k \in 1..n : x[k].m = e.m /\ x[k].o = e.o}
  <2>1. i \in B
    BY <1>3
  <2>2. IF B = {} THEN e.size = AddSize[e.o] ELSE \A k \in B : e.size < x[k].size
    BY Zenon DEF Fits
  <2> HIDE DEF B
  <2> QED BY <2>1, <2>2
<1> HIDE DEF n
<1>4. ASSUME Orderly(x) PROVE Orderly(y)
  <2>1. ASSUME NEW i \in 1..(n + 1) PROVE y[i].ts <= now
    <3>1. i \in 1..n \/ i = n + 1
      BY <1>1
    <3> QED BY <1>1, <1>2, <1>4, <3>1 DEF Orderly, n
  <2>2. ASSUME NEW i \in 1..(n + 1), NEW j \in 1..(n + 1), i < j
        PROVE  y[i].ts <= y[j].ts /\ (y[i].m = y[j].m /\ y[i].o = y[j].o => y[j].size < y[i].size)
    <3>1. i \in 1..n /\ (j \in 1..n \/ j = n + 1)
      BY <1>1, <2>2
    <3>2. CASE j \in 1..n
      BY <1>1, <1>4, <2>2, <3>1, <3>2 DEF Orderly, n
    <3>3. CASE j = n + 1
      <4>1. x[i].ts <= now
        BY <1>4, <3>1 DEF Orderly, n
      <4> QED BY <1>1, <1>2, <1>3, <3>1, <3>3, <4>1
    <3> QED BY <3>1, <3>2, <3>3
  <2> QED BY <1>1, <2>1, <2>2 DEF Orderly
<1> QED BY <1>1, <1>4 DEF Continues, n

\* And one after the other.
LEMMA Longest ==
  ASSUME NEW x \in Seq(VenueEvents), NEW y \in Seq(VenueEvents), NEW z \in Seq(VenueEvents),
         Continues(x, y), Continues(y, z)
  PROVE  Continues(x, z)
<1>1. Len(x) \in Nat /\ Len(y) \in Nat /\ Len(z) \in Nat /\ Len(z) >= Len(y) /\ Len(y) >= Len(x)
  BY DEF Continues
<1>2. \A i \in 1..Len(x) : i \in 1..Len(y)
  BY <1>1
<1>3. \A i \in 1..Len(x) : z[i] = x[i]
  BY <1>2 DEF Continues
<1> QED BY <1>1, <1>3 DEF Continues

\* What the log may be once path p is n events further.
Reaches(l, p, m, n) ==
  /\ l \in Seq(VenueEvents) /\ Len(l) >= Len(log) /\ Len(l) >= pos[p] + n /\ Continues(log, l)
  /\ \A i \in pos[p] + 1 .. pos[p] + n : l[i].m = m

\* The log only grows, and far enough for the path.
LEMMA LogsGrow ==
  ASSUME NEW p \in Path, NEW m \in Market, NEW n \in Nat, log \in Seq(VenueEvents), now \in Nat,
         pos[p] \in Nat, pos[p] <= Len(log), NEW l \in LogsFor(p, m, n)
  PROVE  Reaches(l, p, m, n)
<1> DEFINE LL == Seq(VenueEvents)
           T == SUBSET LL
           base == {log}
           Part(x, k) == IF Len(x) >= pos[p] + k THEN {x} ELSE Longer(x, m)
           Step(G, k) == UNION {Part(x, k) : x \in G}
           Is(g) == g = [k \in 0..n |-> IF k = 0 THEN base ELSE Step(g[k - 1], k)]
           grow == CHOOSE g : Is(g)
<1>1. l \in grow[n] /\ \A i \in pos[p] + 1 .. pos[p] + n : l[i].m = m
  BY Zenon DEF LogsFor
<1>2. base \in T /\ Len(log) \in Nat
  OBVIOUS
<1>3. NextEvents(m) \subseteq VenueEvents
  BY DEF NextEvents, VenueEvents
<1>4. ASSUME NEW x \in LL, NEW k \in 1..n, NEW y \in Part(x, k)
      PROVE  /\ y \in LL /\ Len(y) >= Len(x) /\ Len(y) \in Nat /\ Len(x) \in Nat
             /\ Len(x) >= pos[p] + k - 1 => Len(y) >= pos[p] + k
             /\ Continues(x, y)
  <2>1. Len(x) \in Nat
    OBVIOUS
  <2>2. CASE Len(x) >= pos[p] + k
    <3>1. y = x
      BY <1>4, <2>2
    <3>2. Continues(x, x)
      BY <2>1 DEF Continues
    <3> QED BY <2>1, <2>2, <3>1, <3>2
  <2>3. CASE ~(Len(x) >= pos[p] + k)
    <3>1. y \in Longer(x, m)
      BY <1>4, <2>3
    <3>2. PICK e \in NextEvents(m) : y = Append(x, e) /\ Fits(x, e)
      BY <3>1 DEF Longer
    <3>3. e \in VenueEvents
      BY <1>3
    <3>4. y \in LL /\ Len(y) = Len(x) + 1
      BY <3>2, <3>3
    <3>5. Continues(x, y)
      BY <3>2, <3>3, OneEvent
    <3> QED BY <2>1, <3>4, <3>5
  <2> QED BY <2>2, <2>3
<1> HIDE DEF Part
<1>12. ASSUME NEW x \in LL, NEW y \in LL, Continues(log, x), Continues(x, y) PROVE Continues(log, y)
  BY <1>12, Longest
<1>13. Continues(log, log) /\ log \in LL
  BY DEF Continues
<1> HIDE DEF LL
<1>5. ASSUME NEW G \in T, NEW k \in 1..n PROVE Step(G, k) \in T
  BY <1>4
<1> HIDE DEF T, base, Step
<1>6. Is(grow)
  <2> DEFINE F == [x \in T \X (1..n) |-> Step(x[1], x[2])]
  <2>1. F \in [T \X (1..n) -> T]
    BY <1>5
  <2>2. PICK g : Runs(g, n, T, base, F)
    <3> HIDE DEF F
    <3> QED BY ONLY <1>2, n \in Nat, <2>1, StepsExist
  <2>3. ASSUME NEW i \in 1..n PROVE g[i] = Step(g[i - 1], i)
    <3>1. i - 1 \in 0..n /\ g[i - 1] \in T
      BY <2>2 DEF Runs
    <3>2. F[<<g[i - 1], i>>] = Step(g[i - 1], i)
      BY <3>1
    <3> QED BY <2>2, <3>2 DEF Runs
  <2>4. Is(g)
    <3>1. \A k \in 0..n : g[k] = IF k = 0 THEN base ELSE Step(g[k - 1], k)
      BY <2>2, <2>3 DEF Runs
    <3> QED BY <2>2, <3>1 DEF Runs
  <2> QED BY <2>4, Zenon
<1> HIDE DEF grow
<1> DEFINE Far(k) == {x \in LL : Len(x) >= Len(log) /\ Len(x) >= pos[p] + k /\ Continues(log, x)}
           S == [k \in 0..n |-> SUBSET Far(k)]
<1>7. \A k \in 0..n : S[k] = SUBSET Far(k)
  OBVIOUS
<1> HIDE DEF S
<1>8. grow[0] \in S[0]
  <2>1. grow[0] = {log} /\ 0 \in 0..n
    BY <1>6 DEF base
  <2>2. log \in Far(0)
    BY <1>2, <1>13
  <2> QED BY <1>7, <2>1, <2>2
<1>9. ASSUME NEW k \in 1..n, grow[k - 1] \in S[k - 1] PROVE grow[k] \in S[k]
  <2>1. grow[k] = Step(grow[k - 1], k) /\ k - 1 \in 0..n /\ k \in 0..n
    BY <1>6
  <2>2. grow[k - 1] \in SUBSET Far(k - 1)
    BY <1>7, <1>9, <2>1
  <2>3. ASSUME NEW y \in grow[k] PROVE y \in Far(k)
    <3>1. PICK x \in grow[k - 1] : y \in Part(x, k)
      BY <2>1 DEF Step
    <3>2. x \in LL /\ Len(x) >= Len(log) /\ Len(x) >= pos[p] + (k - 1) /\ Continues(log, x)
      BY <2>2
    <3>3. /\ y \in LL /\ Len(y) >= Len(x) /\ Len(y) \in Nat /\ Len(x) \in Nat
          /\ Len(x) >= pos[p] + k - 1 => Len(y) >= pos[p] + k
          /\ Continues(x, y)
      BY <1>4, <3>1, <3>2
    <3>4. Continues(log, y)
      BY <1>12, <3>2, <3>3
    <3> QED BY <1>2, <3>2, <3>3, <3>4
  <2> QED BY <1>7, <2>1, <2>3
<1>10. \A k \in 0..n : grow[k] \in S[k]
  BY ONLY n \in Nat, <1>8, <1>9, Steps
<1>11. grow[n] \subseteq Far(n)
  BY <1>7, <1>10
<1> QED BY <1>1, <1>11 DEF Reaches, LL
-----------------------------------------------------------------------------
(* The race.                                                                *)

Stamps == Nat \cup {None}
ClockStates == [newest_ts : Stamps, moved_at : Nat, ahead_since : Stamps, sample : Stamps]
Wires(m) == [base : BOOLEAN, size : [Order(m) -> Nat]]
MarketEvents == UNION {Events(Order(m)) : m \in Market}
AnyWire == UNION {Wires(m) : m \in Market}

RaceType ==
  /\ now \in Nat /\ behind \in Nat /\ clock \in ClockStates
  /\ log \in Seq(VenueEvents) /\ pos \in [Path -> Nat] /\ \A p \in Path : pos[p] <= Len(log)

\* What a market's race state e and its wire w have in common.
Agree(m, e, w) ==
  Sound(Order(m), e) /\ w \in Wires(m) /\ \A o \in Gone(e.resting) : w.size[o] = 0

Markets ==
  /\ ev \in [Market -> MarketEvents] /\ wire \in [Market -> AnyWire]
  /\ (\A m \in Market : Agree(m, ev[m], wire[m]))
  /\ held = Together(ev)

RaceInv == RaceType /\ Markets

\* A race state without orders.
LEMMA EmptyAgrees ==
  ASSUME NEW m \in Market, NEW w \in Wires(m)
  PROVE  Agree(m, NewEvents, w) /\ NewEvents.n_dead = 0
<1> DEFINE r == << >>
<1>0. /\ NewEvents.resting = r /\ NewEvents.seen = <<>> /\ NewEvents.live = <<>> /\ NewEvents.dead = <<>>
      /\ NewEvents.n_live = 0 /\ NewEvents.n_dead = 0 /\ NewEvents.forced = FALSE
  BY DEF NewEvents
<1>1. r \in [{} -> Slots] /\ DOMAIN r = {}
  OBVIOUS
<1>2. r \in Rests(Order(m)) /\ Gone(r) = {} /\ Kept(r) = {}
  <2> HIDE DEF r
  <2> QED BY <1>1 DEF Rests, Gone, Kept
<1> HIDE DEF r
<1>3. NewEvents \in Events(Order(m))
  BY <1>2 DEF NewEvents, r, Events, Seens
<1>4. Cardinality({}) = 0
  BY FS_EmptySet
<1>5. Counted(NewEvents, MAX_GUARDED_ORDERS)
  BY <1>0, <1>2, <1>4, GuardAssumption DEF Counted
<1> QED BY <1>0, <1>2, <1>3, <1>5 DEF Agree, Sound

\* One market's step.
LEMMA MarketStep ==
  ASSUME Markets, NEW m \in Market, NEW e, NEW w, Agree(m, e, w),
         ev' = [ev EXCEPT ![m] = e], wire' = [wire EXCEPT ![m] = w],
         held' = Charged(held, ev[m], e)
  PROVE  Markets'
<1>1. ev \in [Market -> MarketEvents] /\ wire \in [Market -> AnyWire] /\ held = Together(ev)
      /\ \A x \in Market : Agree(x, ev[x], wire[x])
  BY DEF Markets
<1>2. e \in MarketEvents /\ w \in AnyWire
  BY DEF Agree, Sound, MarketEvents, AnyWire
<1>3. ev' \in [Market -> MarketEvents] /\ wire' \in [Market -> AnyWire]
  BY <1>1, <1>2
<1>4. ev'[m] = e /\ wire'[m] = w /\ \A x \in Market \ {m} : ev'[x] = ev[x] /\ wire'[x] = wire[x]
  BY <1>1
<1>5. \A x \in Market : Agree(x, ev'[x], wire'[x])
  BY <1>1, <1>4
<1>6. \A x \in Market : ev[x].n_dead \in Int /\ ev'[x].n_dead \in Int
  BY <1>1, <1>5 DEF Agree, Sound, Events
<1>7. IsFiniteSet(Market)
  BY RaceAssumption
<1>8. Together(ev') = Together(ev) + ev'[m].n_dead - ev[m].n_dead
  BY ONLY <1>4, <1>6, <1>7, m \in Market, TogetherMoves
<1>9. held' = Together(ev')
  BY <1>1, <1>4, <1>8 DEF Charged
<1> QED BY <1>3, <1>5, <1>9 DEF Markets
\* Every market's race state goes.
LEMMA AllMarketsStep ==
  ASSUME Markets, ev' = [m \in Market |-> NewEvents], held' = 0,
         wire' = wire \/ wire' = [m \in Market |-> NewWire(m)]
  PROVE  Markets'
<1>1. wire \in [Market -> AnyWire] /\ \A m \in Market : wire[m] \in Wires(m)
  BY DEF Markets, Agree
<1>2. \A m \in Market : NewWire(m) \in Wires(m)
  BY DEF NewWire, Nothing, Wires
<1>3. wire' \in [Market -> AnyWire] /\ \A m \in Market : wire'[m] \in Wires(m)
  BY <1>1, <1>2 DEF AnyWire
<1>4. \A m \in Market : Agree(m, ev'[m], wire'[m]) /\ ev'[m].n_dead = 0
  BY <1>3, EmptyAgrees
<1>5. ev' \in [Market -> MarketEvents]
  BY <1>4 DEF Agree, Sound, MarketEvents
<1>6. Together(ev') = 0
  BY <1>4, RaceAssumption, TogetherNone
<1> QED BY <1>3, <1>4, <1>5, <1>6 DEF Markets

\* A market's race state is dropped.
LEMMA DropStep ==
  ASSUME Markets, NEW m \in Market, drop_book_events(m),
         NEW w \in Wires(m), wire' = [wire EXCEPT ![m] = w]
  PROVE  Markets'
<1>1. Agree(m, NewEvents, w) /\ NewEvents.n_dead = 0
  BY EmptyAgrees
<1>2. ev[m].n_dead \in Int /\ held \in Int
  <2>1. \A x \in Market : ev[x].n_dead \in Int
    BY DEF Markets, Agree, Sound, Events
  <2>2. PICK f : Totals(f, Market, [x \in Market |-> ev[x].n_dead]) /\ Together(ev) = f[Market]
    BY <2>1, RaceAssumption, TogetherIsTotal
  <2>3. Together(ev) \in Int
    BY <2>2 DEF Totals
  <2> QED BY <2>1, <2>3 DEF Markets
<1>3. ev' = [ev EXCEPT ![m] = NewEvents] /\ held' = Charged(held, ev[m], NewEvents)
  BY <1>1, <1>2 DEF drop_book_events, Charged
<1> QED BY <1>1, <1>3, MarketStep

\* clear_led_rebaseline and serve_forced_rebaseline: the wire shows the book that the race
\* state was seeded with.
LEMMA BaselineAgrees ==
  ASSUME NEW m \in Market, NEW e, Sound(Order(m), e), NEW size \in [Order(m) -> Nat], NEW ts \in Nat
  PROVE  Agree(m, rebaselined(e, OrdersOf[m], size, ts), [base |-> TRUE, size |-> size])
<1> DEFINE f == rebaselined(e, OrdersOf[m], size, ts)
           O == Order(m)
           q == OrdersOf[m]
           w == [base |-> TRUE, size |-> size]
<1>1. IsFiniteSet(O) /\ q \in Seq(O) /\ O = Range(q)
  BY OrdersFinite
<1>2. w \in Wires(m) /\ w.size = size
  BY DEF Wires
<1>3. Sound(O, f) /\ \A o \in Gone(f.resting) : size[o] = 0
  <2> HIDE DEF O, q
  <2>1. f = rebaselined(e, q, size, ts) /\ Sound(O, e) /\ size \in [O -> Nat]
    BY DEF O, q
  <2> HIDE DEF f
  <2> QED BY ONLY <1>1, <2>1, ts \in Nat, BaselineSeeds
<1> HIDE DEF w
<1> QED BY <1>2, <1>3 DEF Agree, O, w

\* The stamp that a re-baseline is seeded at.
LEMMA SeedTyped ==
  ASSUME RaceType
  PROVE  seed_ts \in Nat
BY DEF RaceType, ClockStates, Stamps, seed_ts

\* serve_forced_rebaseline leaves the race state and the wire in agreement.
LEMMA DischargedAgrees ==
  ASSUME RaceInv, NEW m \in Market
  PROVE  Agree(m, Discharged(m).ev, Discharged(m).wire)
<1> DEFINE size == IF wire[m].base THEN wire[m].size ELSE Nothing(m)
<1>1. Agree(m, ev[m], wire[m]) /\ seed_ts \in Nat
  BY SeedTyped DEF RaceInv, Markets
<1>2. size \in [Order(m) -> Nat]
  BY <1>1 DEF Agree, Wires, Nothing
<1>3. CASE ~bm[m].rebaseline
  <2>1. Discharged(m).ev = ev[m] /\ Discharged(m).wire = wire[m]
    BY <1>3 DEF Discharged
  <2> QED BY <1>1, <2>1
<1>4. CASE bm[m].rebaseline
  <2>1. /\ Discharged(m).ev = rebaselined(ev[m], OrdersOf[m], size, seed_ts)
        /\ Discharged(m).wire = [base |-> TRUE, size |-> size]
    BY <1>4, Zenon DEF Discharged
  <2> HIDE DEF size
  <2>2. Sound(Order(m), ev[m])
    BY <1>1 DEF Agree
  <2>3. Agree(m, rebaselined(ev[m], OrdersOf[m], size, seed_ts), [base |-> TRUE, size |-> size])
    BY ONLY <1>1, <1>2, <2>2, m \in Market, BaselineAgrees
  <2> QED BY <2>1, <2>3, Zenon
<1> QED BY <1>3, <1>4
\* The clock's writes keep its form.
LEMMA ClockSetTyped ==
  ASSUME NEW c \in ClockStates, NEW ts \in Stamps, NEW t \in Nat
  PROVE  clock_set(c, ts, t) \in ClockStates
<1> DEFINE consumed == ts = None \/ c.sample = None \/ ts >= c.sample
           since == IF consumed THEN None ELSE c.ahead_since
           left == IF consumed THEN None ELSE c.sample
<1>1. clock_set(c, ts, t) = [newest_ts |-> ts, moved_at |-> t, ahead_since |-> since, sample |-> left]
  BY Zenon DEF clock_set
<1>2. since \in Stamps /\ left \in Stamps
  BY DEF ClockStates, Stamps
<1> HIDE DEF since, left
<1> QED BY <1>1, <1>2 DEF ClockStates

\* One batch's stamp, and the hatch after it.
LEMMA ClockTyped ==
  ASSUME NEW c \in ClockStates, NEW ts \in Nat, NEW t \in Nat, NEW top \in Nat
  PROVE  reseat(observe(c, ts, t, top), t) \in ClockStates
<1> DEFINE s == [c EXCEPT !.sample = Later(c.sample, Least(ts, top))]
           ahead == [s EXCEPT !.ahead_since = FirstSet(c.ahead_since, t)]
           o == observe(c, ts, t, top)
           z == [o EXCEPT !.sample = None]
<1>1. Later(c.sample, Least(ts, top)) \in Stamps /\ FirstSet(c.ahead_since, t) \in Stamps
  BY DEF Later, Least, FirstSet, ClockStates, Stamps
<1>2. s \in ClockStates
  BY <1>1 DEF ClockStates
<1>3. ahead \in ClockStates
  <2> HIDE DEF s
  <2> QED BY <1>1, <1>2 DEF ClockStates
<1>4. ts \in Stamps /\ clock_set(s, ts, t) \in ClockStates
  <2> HIDE DEF s
  <2>1. ts \in Stamps
    BY DEF Stamps
  <2> QED BY <1>2, <2>1, ClockSetTyped
<1>5. o \in {ahead, s, clock_set(s, ts, t)}
  BY Zenon DEF observe
<1>6. o \in ClockStates
  BY <1>2, <1>3, <1>4, <1>5
<1> HIDE DEF o
<1>7. z \in ClockStates /\ o.sample \in Stamps
  BY <1>6 DEF ClockStates, Stamps
<1>8. clock_set(z, o.sample, t) \in ClockStates
  <2> HIDE DEF z
  <2> QED BY <1>7, ClockSetTyped
<1>9. reseat(o, t) \in {clock_set(z, o.sample, t), o}
  BY Zenon DEF reseat
<1> QED BY <1>6, <1>8, <1>9 DEF o

\* The parts of a raced batch, one after the other.
Course(p, m, changes, ts) ==
  \E d, st, e, a, h :
    /\ d = Discharged(m) /\ Agree(m, d.ev, d.wire)
    /\ st = stamp(clock', ts, cap) /\ st \in Nat
    /\ e = forget_expired(d.ev, frontier(clock')) /\ Sound(Order(m), e)
    /\ a = IF frontier(clock') # None /\ st < frontier(clock') THEN [e |-> e, kept |-> <<>>]
           ELSE Admitted(e, changes, p, st)
    /\ Sound(Order(m), a.e) /\ a.kept \in Seq(OrderEvents(Order(m)))
    /\ h = Charged(held, ev[m], a.e) /\ h \in Int
    /\ Settle(p, m, d.wire, Outlived(d.ev, e, d.known), a,
              a.kept # <<>> /\ ~SafeToDrop(a.e.forced, a.kept), st = ts)

\* A raced batch: what it removes it sends, and what it does not send it does not remove.
LEMMA RaceBatchKeeps ==
  ASSUME RaceInv, NEW p \in Path, NEW m \in Market, NEW changes \in Seq(OrderEvents(Order(m))),
         NEW ts \in Nat, RaceBatch(p, m, changes, ts)
  PROVE  Markets' /\ clock' \in ClockStates /\ Course(p, m, changes, ts)
<1> DEFINE O == Order(m)
<1>1. RaceType /\ Markets /\ now \in Nat /\ behind \in Nat /\ clock \in ClockStates
  BY DEF RaceInv, RaceType
<1>2. cap \in Nat
  BY <1>1, GuardAssumption DEF cap
<1>3. clock' \in ClockStates
  <2>1. clock' = reseat(observe(clock, ts, now, cap), now)
    BY DEF RaceBatch
  <2> QED BY <1>1, <1>2, <2>1, ClockTyped
<1>4. PICK d \in {Discharged(m)}, st \in {stamp(clock', ts, cap)} :
        \E e \in {forget_expired(d.ev, frontier(clock'))} :
        \E a \in {IF frontier(clock') # None /\ st < frontier(clock') THEN [e |-> e, kept |-> <<>>]
                  ELSE Admitted(e, changes, p, st)} :
          Settle(p, m, d.wire, Outlived(d.ev, e, d.known), a,
                 a.kept # <<>> /\ ~SafeToDrop(a.e.forced, a.kept), st = ts)
  BY Zenon DEF RaceBatch
<1>5. d = Discharged(m) /\ st = stamp(clock', ts, cap)
  OBVIOUS
<1>6. PICK e \in {forget_expired(d.ev, frontier(clock'))} :
        \E a \in {IF frontier(clock') # None /\ st < frontier(clock') THEN [e |-> e, kept |-> <<>>]
                  ELSE Admitted(e, changes, p, st)} :
          Settle(p, m, d.wire, Outlived(d.ev, e, d.known), a,
                 a.kept # <<>> /\ ~SafeToDrop(a.e.forced, a.kept), st = ts)
  BY <1>4, Zenon
<1>7. e = forget_expired(d.ev, frontier(clock'))
  OBVIOUS
<1>8. PICK a \in {IF frontier(clock') # None /\ st < frontier(clock') THEN [e |-> e, kept |-> <<>>]
                   ELSE Admitted(e, changes, p, st)} :
          Settle(p, m, d.wire, Outlived(d.ev, e, d.known), a,
                 a.kept # <<>> /\ ~SafeToDrop(a.e.forced, a.kept), st = ts)
  BY <1>6, Zenon
<1>9. a = Admitted(e, changes, p, st) \/ a = [e |-> e, kept |-> <<>>]
  BY <1>8, Zenon
<1> DEFINE sends == a.kept # <<>> /\ ~SafeToDrop(a.e.forced, a.kept)
           size == d.wire.size
           b == [a.e EXCEPT !.forced = FALSE]
           h == Charged(held, ev[m], a.e)
           f == shed_over_budget(b, h)
           w == IF sends THEN [d.wire EXCEPT !.size = Folded(size, a.kept)] ELSE d.wire
<1>10. ev' = [ev EXCEPT ![m] = f] /\ wire' = [wire EXCEPT ![m] = w] /\ held' = Charged(held, ev[m], ev'[m])
  BY <1>8, Zenon DEF Settle
<1> HIDE DEF b, h, sends
<1>11. st \in Nat
  BY <1>2, <1>3, <1>5 DEF stamp, Least, ClockStates, Stamps
<1>12. Agree(m, d.ev, d.wire)
  BY <1>5, DischargedAgrees
<1>13. IsFiniteSet(O) /\ Sound(O, d.ev) /\ size \in [O -> Nat] /\ \A o \in Gone(d.ev.resting) : size[o] = 0
  BY <1>12, OrdersFinite DEF Agree, Wires
<1> HIDE DEF O
<1>14. Sound(O, e) /\ Gone(e.resting) \subseteq Gone(d.ev.resting)
  <2> DEFINE fr == frontier(clock')
             g == d.ev
  <2>1. e = forget_expired(g, fr) /\ Sound(O, g) /\ IsFiniteSet(O)
    BY <1>7, <1>13
  <2> HIDE DEF fr, g
  <2>2. Sound(O, e) /\ Gone(e.resting) \subseteq Gone(g.resting)
    BY ONLY <2>1, ExpiredForgotten
  <2> QED BY <2>2 DEF g
<1>15. \A o \in Gone(e.resting) : size[o] = 0
  BY <1>13, <1>14
<1> HIDE DEF size
<1>16. Judged(O, Gone(e.resting), size, a)
  <2>1. CASE a = Admitted(e, changes, p, st)
    <3>1. changes \in Seq(OrderEvents(O))
      BY DEF O
    <3>2. Judged(O, Gone(e.resting), size, Admitted(e, changes, p, st))
      BY ONLY <1>1, <1>11, <1>13, <1>14, <1>15, <3>1, p \in Path, BatchJudged
    <3> QED BY <2>1, <3>2
  <2>2. CASE a = [e |-> e, kept |-> <<>>]
    <3>1. a.e = e /\ a.kept = <<>> /\ <<>> \in Seq(OrderEvents(O))
      BY <2>2
    <3>2. Folded(size, <<>>) = size
      BY <1>13, FoldedNone
    <3> QED BY <1>14, <1>15, <3>1, <3>2 DEF Judged
  <2> QED BY <1>9, <2>1, <2>2
<1>17. Sound(O, a.e) /\ a.kept \in Seq(OrderEvents(O))
  BY <1>16 DEF Judged
<1>18. Sound(O, b) /\ b.resting = a.e.resting
  BY <1>17, ForcedSet DEF b
<1>19. h \in Int
  <2>1. \A x \in Market : ev[x].n_dead \in Int
    BY <1>1 DEF Markets, Agree, Sound, Events
  <2>2. PICK g : Totals(g, Market, [x \in Market |-> ev[x].n_dead]) /\ Together(ev) = g[Market]
    BY <2>1, RaceAssumption, TogetherIsTotal
  <2>3. held \in Int
    BY <1>1, <2>2 DEF Totals, Markets
  <2> QED BY <1>17, <2>1, <2>3 DEF Charged, Sound, Events, h
<1>20. Sound(O, f) /\ Gone(f.resting) \subseteq Gone(a.e.resting)
  BY <1>13, <1>18, <1>19, BudgetShed
<1>21. w \in Wires(m) /\ \A o \in Gone(a.e.resting) : w.size[o] = 0
  <2>1. d.wire \in Wires(m)
    BY <1>12 DEF Agree
  <2>2. CASE sends
    <3> DEFINE z == Folded(size, a.kept)
    <3>1. PICK acc : Folds(acc, O, size, a.kept) /\ z = acc[Len(a.kept)]
      BY <1>13, <1>17, FoldedRuns
    <3>2. z \in [O -> Nat]
      <4>1. Len(a.kept) \in Nat
        BY <1>17
      <4> HIDE DEF z
      <4> QED BY <3>1, <4>1 DEF Folds
    <3>3. \A o \in Gone(a.e.resting) : z[o] = 0
      BY <1>16 DEF Judged
    <3>4. w = [d.wire EXCEPT !.size = z]
      BY <2>2
    <3> HIDE DEF z, w
    <3>5. w \in Wires(m) /\ w.size = z
      BY <2>1, <3>2, <3>4 DEF Wires, O
    <3> QED BY <3>3, <3>5
  <2>3. CASE ~sends
    <3>1. w = d.wire
      BY <2>3
    <3>2. \A i \in 1..Len(a.kept) : a.kept[i].size # 0
      <4>1. CASE a.kept = <<>>
        BY <4>1
      <4>2. CASE a.kept # <<>>
        BY <2>3, <4>2 DEF SafeToDrop, sends
      <4> QED BY <4>1, <4>2
    <3>3. Gone(a.e.resting) \subseteq Gone(e.resting)
      BY <1>16, <3>2 DEF Judged
    <3> QED BY <1>15, <2>1, <3>1, <3>3 DEF size
  <2> QED BY <2>2, <2>3
<1> HIDE DEF f, w
<1>22. Agree(m, f, w)
  BY <1>20, <1>21 DEF Agree, O
<1>23. held' = Charged(held, ev[m], f)
  <2>1. ev'[m] = f
    BY <1>1, <1>10 DEF Markets
  <2> QED BY <1>10, <2>1
<1>24. Markets'
  BY <1>1, <1>10, <1>22, <1>23, MarketStep
<1>25. Course(p, m, changes, ts)
  <2>1. a = IF frontier(clock') # None /\ st < frontier(clock') THEN [e |-> e, kept |-> <<>>]
            ELSE Admitted(e, changes, p, st)
    BY <1>8, Zenon
  <2>2. h = Charged(held, ev[m], a.e)
    BY DEF h
  <2> QED BY <1>5, <1>7, <1>8, <1>11, <1>12, <1>14, <1>17, <1>19, <2>1, <2>2, Zenon DEF Course, O
<1> QED BY <1>3, <1>24, <1>25

\* The race starts with empty books and nothing removed.
LEMMA RaceStart == Init => RaceInv
<1> SUFFICES ASSUME Init PROVE RaceInv
  OBVIOUS
<1>1. RaceType
  BY RaceAssumption DEF Init, RaceType, ClockStates, Stamps, NewClock
<1>2. \A m \in Market : wire[m] \in Wires(m)
  BY DEF Init, NewWire, Nothing, Wires
<1>3. \A m \in Market : Agree(m, ev[m], wire[m]) /\ ev[m].n_dead = 0
  BY <1>2, EmptyAgrees DEF Init
<1>4. wire \in [Market -> AnyWire] /\ ev \in [Market -> MarketEvents]
  <2>1. DOMAIN wire = Market /\ DOMAIN ev = Market /\ wire = [m \in Market |-> wire[m]]
        /\ ev = [m \in Market |-> ev[m]]
    BY DEF Init
  <2>2. \A m \in Market : wire[m] \in AnyWire /\ ev[m] \in MarketEvents
    BY <1>2, <1>3 DEF AnyWire, MarketEvents, Agree, Sound
  <2> QED BY <2>1, <2>2
<1>5. Together(ev) = 0
  BY <1>3, RaceAssumption, TogetherNone
<1> QED BY <1>1, <1>3, <1>4, <1>5 DEF RaceInv, Markets, Init

\* The next n elements of a sequence after its first k.
LEMMA NextElements ==
  ASSUME NEW T, NEW l \in Seq(T), NEW k \in Nat, NEW n \in Nat, k + n <= Len(l),
         NEW b, b = SubSeq(l, k + 1, k + n)
  PROVE  b \in Seq(T) /\ Len(b) = n /\ \A i \in 1..n : b[i] = l[k + i]
<1>1. Len(l) \in Nat
  OBVIOUS
<1>2. b \in Seq(T) /\ Len(b) = n
  BY <1>1
<1>3. \A i \in 1..n : b[i] = l[k + i]
  BY <1>1
<1> QED BY <1>2, <1>3

\* What a path's next n events were, and what became of them.
Passed(p, m, n) ==
  /\ Reaches(log', p, m, n) /\ UNCHANGED now
  /\ \/ UNCHANGED <<clock, ev, wire, known>>
     \/ \E c, ts : /\ c \in Seq(OrderEvents(Order(m))) /\ Len(c) = n /\ ts \in Nat
                   /\ \A i \in 1..n : c[i] = [o |-> log'[pos[p] + i].o, size |-> log'[pos[p] + i].size]
                   /\ ts = log'[pos[p] + n].ts
                   /\ Course(p, m, c, ts)

\* Relay: a batch of a path is of its market's orders.
LEMMA RelayKeeps ==
  ASSUME RaceInv, NEW p \in Path, NEW m \in Market, NEW n \in 1..MaxBatch, Relay(p, m, n)
  PROVE  RaceInv' /\ Passed(p, m, n)
<1> DEFINE batch(l) == SubSeq(l, pos[p] + 1, pos[p] + n)
           changes(l) == [i \in 1..n |-> [o |-> batch(l)[i].o, size |-> batch(l)[i].size]]
<1>1. RaceType /\ Markets /\ n \in Nat /\ n > 0
  BY RaceAssumption DEF RaceInv
<1>2. PICK l \in LogsFor(p, m, n) :
        /\ log' = l /\ pos' = [pos EXCEPT ![p] = @ + n]
        /\ IF ~book[p][m] \/ Withheld(m)
           THEN UNCHANGED <<now, behind, book, clock, ev, bm, sync, held, wire, known, faults>>
           ELSE RaceBatch(p, m, changes(l), Last(batch(l)).ts)
  BY Zenon DEF Relay
<1>3. Reaches(l, p, m, n)
  BY <1>1, LogsGrow DEF RaceType
<1>4. log' \in Seq(VenueEvents) /\ pos' \in [Path -> Nat] /\ \A q \in Path : pos'[q] <= Len(log')
  <2>1. pos' \in [Path -> Nat] /\ pos'[p] = pos[p] + n /\ \A q \in Path \ {p} : pos'[q] = pos[q]
    BY <1>1, <1>2 DEF RaceType
  <2>2. l \in Seq(VenueEvents) /\ Len(l) >= Len(log) /\ Len(l) >= pos[p] + n /\ Len(l) \in Nat /\ Len(log) \in Nat
    BY <1>1, <1>3 DEF Reaches, RaceType
  <2>3. \A q \in Path : pos'[q] <= Len(l)
    BY <1>1, <2>1, <2>2 DEF RaceType
  <2> QED BY <1>2, <2>1, <2>2, <2>3
<1>5. CASE ~book[p][m] \/ Withheld(m)
  <2>1. UNCHANGED <<now, behind, clock, ev, held, wire>>
    BY <1>2, <1>5
  <2>2. RaceType'
    BY <1>1, <1>4, <2>1 DEF RaceType
  <2>3. Markets'
    BY <1>1, <2>1 DEF Markets
  <2>4. UNCHANGED <<now, clock, ev, wire, known>>
    BY <1>2, <1>5
  <2>5. Passed(p, m, n)
    BY <1>2, <1>3, <2>4 DEF Passed
  <2> QED BY <2>2, <2>3, <2>5 DEF RaceInv
<1>6. CASE ~(~book[p][m] \/ Withheld(m))
  <2> DEFINE b == batch(l)
             c == changes(l)
             ts == Last(b).ts
  <2>1. RaceBatch(p, m, c, ts)
    BY <1>2, <1>6
  <2>2. /\ b \in Seq(VenueEvents) /\ Len(b) = n
        /\ \A i \in 1..n : b[i] \in VenueEvents /\ b[i].m = m /\ b[i] = l[pos[p] + i]
    <3>1. l \in Seq(VenueEvents) /\ Len(l) >= pos[p] + n /\ Len(l) \in Nat /\ pos[p] \in Nat
      BY <1>1, <1>3 DEF Reaches, RaceType
    <3>2. b \in Seq(VenueEvents) /\ Len(b) = n /\ \A i \in 1..n : b[i] = l[pos[p] + i]
      <4> DEFINE k == pos[p]
      <4>1. b = SubSeq(l, k + 1, k + n) /\ k \in Nat /\ l \in Seq(VenueEvents)
        BY <3>1
      <4>2. k + n <= Len(l) /\ n \in Nat
        BY <1>1, <3>1
      <4> HIDE DEF b, k
      <4>3. b \in Seq(VenueEvents) /\ Len(b) = n /\ \A i \in 1..n : b[i] = l[k + i]
        BY ONLY <4>1, <4>2, NextElements
      <4> QED BY <4>3 DEF k
    <3> HIDE DEF b
    <3>3. ASSUME NEW i \in 1..n PROVE b[i] \in VenueEvents /\ b[i].m = m /\ b[i] = l[pos[p] + i]
      <4>1. pos[p] + i \in pos[p] + 1 .. pos[p] + n
        BY <1>1, <3>1
      <4>2. l[pos[p] + i].m = m
        BY <1>3, <4>1 DEF Reaches
      <4> QED BY <1>1, <3>2, <4>2
    <3> QED BY <3>2, <3>3
  <2>3. c = [i \in 1..n |-> [o |-> b[i].o, size |-> b[i].size]]
    OBVIOUS
  <2> HIDE DEF b, c
  <2>4. c \in Seq(OrderEvents(Order(m)))
    <3>1. \A i \in 1..n : c[i] \in OrderEvents(Order(m))
      BY <2>2, <2>3, VenueEvent DEF OrderEvents
    <3> DEFINE T == OrderEvents(Order(m))
    <3>3. c \in [1..n -> T]
      BY <2>3, <3>1
    <3> HIDE DEF T
    <3>4. c \in Seq(T)
      BY <1>1, <3>3
    <3> QED BY <3>4 DEF T
  <2>5. ts \in Nat /\ ts = l[pos[p] + n].ts
    <3>1. Last(b) = b[n] /\ n \in 1..n
      BY <1>1, <2>2 DEF Last
    <3> QED BY <2>2, <3>1, VenueEvent
  <2> HIDE DEF ts
  <2>6. Markets' /\ clock' \in ClockStates /\ Course(p, m, c, ts)
    BY <2>1, <2>4, <2>5, RaceBatchKeeps
  <2>7. UNCHANGED <<now, behind>>
    BY <2>1 DEF RaceBatch
  <2>8. RaceType'
    BY <1>1, <1>4, <2>6, <2>7 DEF RaceType
  <2>9. \A i \in 1..n : c[i] = [o |-> log'[pos[p] + i].o, size |-> log'[pos[p] + i].size]
    BY <1>2, <2>2, <2>3
  <2>10. Len(c) = n /\ ts = log'[pos[p] + n].ts /\ Reaches(log', p, m, n) /\ UNCHANGED now
    BY <1>1, <1>2, <1>3, <2>3, <2>5, <2>7
  <2>11. Passed(p, m, n)
    BY <2>4, <2>5, <2>6, <2>9, <2>10, Zenon DEF Passed
  <2> QED BY <2>6, <2>8, <2>11 DEF RaceInv
<1> QED BY <1>5, <1>6

\* Recover: the wire shows the book of the path, whole.
LEMMA RecoverKeeps ==
  ASSUME RaceInv, NEW p \in Path, NEW m \in Market, Recover(p, m)
  PROVE  RaceInv'
<1>1. RaceType /\ Markets /\ UNCHANGED <<now, behind, log, pos, clock>>
  BY DEF RaceInv, Recover
<1>2. RaceType'
  BY <1>1 DEF RaceType
<1>3. CASE PeerServing(p, m)
  <2>1. UNCHANGED <<ev, held, wire>>
    BY <1>3 DEF Recover
  <2>2. Markets'
    BY <1>1, <2>1 DEF Markets
  <2> QED BY <1>2, <2>2 DEF RaceInv
<1>4. CASE ~PeerServing(p, m)
  <2> DEFINE size == BookAt(m, pos[p])
             e == rebaselined(ev[m], OrdersOf[m], size, seed_ts)
             w == [base |-> TRUE, size |-> size]
  <2>1. ev' = [ev EXCEPT ![m] = e] /\ held' = Charged(held, ev[m], e) /\ wire' = [wire EXCEPT ![m] = w]
    BY <1>4, Zenon DEF Recover, clear_led_rebaseline
  <2>2. size \in [Order(m) -> Nat]
    <3>1. pos[p] \in Nat /\ pos[p] <= Len(log) /\ log \in Seq(VenueEvents)
      BY <1>1 DEF RaceType
    <3> QED BY <3>1, BookTyped
  <2> HIDE DEF size
  <2>3. Sound(Order(m), ev[m]) /\ seed_ts \in Nat
    BY <1>1, SeedTyped DEF Markets, Agree
  <2>4. Agree(m, e, w)
    BY ONLY <2>2, <2>3, m \in Market, BaselineAgrees
  <2> HIDE DEF e, w
  <2>5. Markets'
    BY <1>1, <2>1, <2>4, MarketStep
  <2> QED BY <1>2, <2>5 DEF RaceInv
<1> QED BY <1>3, <1>4

\* A lost datagram: the path is past an event it did not see.
LEMMA GapKeeps ==
  ASSUME RaceInv, NEW p \in Path, NEW m \in Market, Gap(p, m)
  PROVE  RaceInv'
<1>1. RaceType /\ Markets /\ UNCHANGED <<now, behind, clock, ev, held, wire>>
  BY DEF RaceInv, Gap
<1>2. Markets'
  BY <1>1 DEF Markets
<1>3. log' \in LogsFor(p, m, 1) /\ pos' = [pos EXCEPT ![p] = @ + 1]
  BY DEF Gap
<1>4. PICK l : l = log' /\ l \in LogsFor(p, m, 1)
  BY <1>3
<1>5. Reaches(l, p, m, 1)
  BY <1>1, <1>4, LogsGrow DEF RaceType
<1>6. l \in Seq(VenueEvents) /\ Len(l) >= Len(log) /\ Len(l) >= pos[p] + 1 /\ Len(l) \in Nat /\ Len(log) \in Nat
  BY <1>1, <1>5 DEF Reaches, RaceType
<1>7. pos' \in [Path -> Nat] /\ \A q \in Path : pos'[q] <= Len(l)
  BY <1>1, <1>3, <1>6 DEF RaceType
<1>8. RaceType'
  BY <1>1, <1>4, <1>6, <1>7 DEF RaceType
<1> QED BY <1>2, <1>8 DEF RaceInv

\* Every step of the race.
LEMMA RaceStep ==
  ASSUME RaceInv, [Next]_vars
  PROVE  RaceInv'
<1>0. RaceType /\ Markets
  BY DEF RaceInv
<1>1. CASE Tick
  <2>1. now' \in Nat /\ UNCHANGED <<behind, log, pos, clock, ev, held, wire>>
    BY <1>0, <1>1 DEF Tick, RaceType
  <2>2. RaceType' /\ Markets'
    BY <1>0, <2>1 DEF RaceType, Markets
  <2> QED BY <2>2 DEF RaceInv
<1>2. CASE EndOfSession
  <2>1. UNCHANGED <<now, behind, log, pos, wire>> /\ clock' = clock_set(clock, None, now)
        /\ ev' = [m \in Market |-> NewEvents] /\ held' = 0
    BY <1>2 DEF EndOfSession
  <2>2. clock' \in ClockStates
    <3>1. None \in Stamps /\ clock \in ClockStates /\ now \in Nat
      BY <1>0 DEF Stamps, RaceType
    <3> QED BY <2>1, <3>1, ClockSetTyped
  <2>3. RaceType'
    BY <1>0, <2>1, <2>2 DEF RaceType
  <2>4. Markets'
    BY <1>0, <2>1, AllMarketsStep
  <2> QED BY <2>3, <2>4 DEF RaceInv
<1>3. CASE ForgetChannel
  <2>1. UNCHANGED <<now, behind, log, pos>> /\ clock' = NewClock
        /\ ev' = [m \in Market |-> NewEvents] /\ held' = 0 /\ wire' = [m \in Market |-> NewWire(m)]
    BY <1>3 DEF ForgetChannel
  <2>2. RaceType'
    BY <1>0, <2>1 DEF RaceType, NewClock, ClockStates, Stamps
  <2>3. Markets'
    BY <1>0, <2>1, AllMarketsStep
  <2> QED BY <2>2, <2>3 DEF RaceInv
<1>4. ASSUME NEW p \in Path, Depart(p) PROVE RaceInv'
  BY <1>0, <1>4 DEF Depart, RaceType, Markets, RaceInv
<1>5. ASSUME NEW m \in Market, DropMarket(m) PROVE RaceInv'
  <2>1. UNCHANGED <<now, behind, log, pos, clock>> /\ drop_book_events(m)
        /\ wire' = [wire EXCEPT ![m] = NewWire(m)]
    BY <1>5 DEF DropMarket
  <2>2. NewWire(m) \in Wires(m)
    BY DEF NewWire, Nothing, Wires
  <2>3. Markets'
    BY <1>0, <2>1, <2>2, DropStep
  <2>4. RaceType'
    BY <1>0, <2>1 DEF RaceType
  <2> QED BY <2>3, <2>4 DEF RaceInv
<1>6. ASSUME NEW p \in Path, NEW m \in Market, InstrumentReset(p, m) PROVE RaceInv'
  <2>1. UNCHANGED <<now, behind, log, pos, clock, wire>> /\ drop_book_events(m)
    BY <1>6 DEF InstrumentReset
  <2>2. wire[m] \in Wires(m) /\ wire' = [wire EXCEPT ![m] = wire[m]]
    BY <1>0, <2>1 DEF Markets, Agree
  <2>3. Markets'
    BY <1>0, <2>1, <2>2, DropStep
  <2>4. RaceType'
    BY <1>0, <2>1 DEF RaceType
  <2> QED BY <2>3, <2>4 DEF RaceInv
<1>7. CASE UNCHANGED vars
  BY <1>0, <1>7 DEF vars, RaceType, Markets, RaceInv
<1> QED BY <1>1, <1>2, <1>3, <1>4, <1>5, <1>6, <1>7, RecoverKeeps, GapKeeps, RelayKeeps DEF Next

\* The race keeps its invariant: the counts, the queues and the budget of the guard are
\* those of its slots, and what it holds as removed is at 0 on the wire.
THEOREM RaceSafe == Spec => []RaceInv
<1>1. Init => RaceInv
  BY RaceStart
<1>2. RaceInv /\ [Next]_vars => RaceInv'
  BY RaceStep
<1> QED BY <1>1, <1>2, PTL DEF Spec

\* remove_order, emit_order_level_book: what the guard holds as removed is removed on the
\* wire, whatever was dropped, shed, forgotten or republished in between.
THEOREM RemovalOnWire == Spec => []RemovalReachesWire
<1>1. RaceInv => RemovalReachesWire
  BY DEF RaceInv, Markets, Agree, RemovalReachesWire, Removed, Known, Gone
<1> QED BY <1>1, RaceSafe, PTL

\* assert_consistent, assert_budget_consistent: the assertions of a debug build hold of
\* every market and of the budget, for any number of markets, orders and paths.
THEOREM GuardConsistent == Spec => []GuardAddsUp
<1>1. ASSUME RaceInv PROVE GuardAddsUp
  <2>1. ASSUME NEW m \in Market
        PROVE  /\ ev[m].n_live = Cardinality({o \in Order(m) : Floored(ev[m], o)})
               /\ ev[m].n_dead = Cardinality({o \in Order(m) : Removed(ev[m], o)})
               /\ ev[m].n_live <= MAX_GUARDED_ORDERS
               /\ \A o \in Order(m) :
                    /\ Removed(ev[m], o) => o \in Range(ev[m].dead) /\ ev[m].resting[o].owner = None
                    /\ Floored(ev[m], o) => o \in Range(ev[m].live)
    <3> DEFINE e == ev[m]
               r == e.resting
    <3>1. e \in Events(Order(m)) /\ Counted(e, MAX_GUARDED_ORDERS) /\ r \in Rests(Order(m))
      BY <1>1 DEF RaceInv, Markets, Agree, Sound, Events
    <3>2. Gone(r) \subseteq Order(m) /\ Kept(r) \subseteq Order(m)
      BY <3>1, OrdersFinite, SlotSets
    <3>3. /\ {o \in Order(m) : Floored(e, o)} = Kept(r) /\ {o \in Order(m) : Removed(e, o)} = Gone(r)
          /\ \A o \in Order(m) : (Removed(e, o) <=> o \in Gone(r)) /\ (Floored(e, o) <=> o \in Kept(r))
      BY <3>2 DEF Floored, Removed, Known, Kept, Gone
    <3> HIDE DEF e
    <3>4. /\ e.n_live = Cardinality(Kept(r)) /\ e.n_dead = Cardinality(Gone(r))
          /\ e.n_live <= MAX_GUARDED_ORDERS
          /\ Gone(r) \subseteq Range(e.dead) /\ Kept(r) \subseteq Range(e.live)
          /\ \A o \in Gone(r) : r[o].owner = None
      BY <3>1 DEF Counted
    <3> QED BY <3>3, <3>4 DEF e
  <2>2. held = FoldSet(LAMBDA m, n : n + ev[m].n_dead, 0, Market)
    BY <1>1, Zenon DEF RaceInv, Markets, Together
  <2> QED BY <2>1, <2>2, Zenon DEF GuardAddsUp
<1> QED BY <1>1, RaceSafe, PTL

-----------------------------------------------------------------------------
(* Removals that reached the wire.                                          *)

\* The removal of an order.
Rm(o) == [o |-> o, size |-> 0]

\* What one change, judged v, does to the removals and to the window.
Entered(f, e, c, v, t, ts) ==
  /\ \A x : Tomb(f.resting, x) =
              IF v = "Deliver" /\ c.size = 0 /\ x = c.o /\ Tomb(e.resting, x) = -1 THEN ts
              ELSE Tomb(e.resting, x)
  /\ Evs(f.seen) \subseteq Evs(expire(e, t).seen) \cup (IF v = "Deliver" THEN {c} ELSE {})
  /\ c.size = 0 /\ v # "Deliver" => c \in Evs(expire(e, t).seen)

\* admit: a removal is refused only as a duplicate, and no other change touches one.
LEMMA AdmitTomb ==
  ASSUME NEW O, IsFiniteSet(O), NEW e0, Sound(O, e0), NEW c \in OrderEvents(O), NEW by \in Path,
         NEW t \in Nat, NEW ts \in Nat, NEW f, f = admit(e0, c, by, t, ts),
         NEW v, v = Verdict(expire(e0, t), c, by, ts)
  PROVE  Entered(f, e0, c, v, t, ts)
<1> DEFINE e == expire(e0, t)
           g == IF c.size = 0 THEN remove_order(e, c.o, ts)
                ELSE IF Known(e, c.o) THEN Restated(e, c, by, ts)
                ELSE track_floor(e, c.o, c.size, by, ts)
<1>1. f = IF v = "Deliver" THEN Remember(g, c, t)
          ELSE IF v = "Disagreement" THEN [e EXCEPT !.forced = TRUE] ELSE e
  BY Zenon DEF admit
<1>2. Sound(O, e) /\ e.resting = e0.resting
  BY Expired
<1>3. v = Verdict(e, c, by, ts)
  OBVIOUS
<1>4. c.o \in O /\ c.size \in Nat
  BY DEF OrderEvents
<1> DEFINE W == Evs(e.seen)
<1> HIDE DEF e
<1>0. e \in Events(O) /\ e.resting \in Rests(O) /\ e.seen \in Seens(O)
  BY <1>2 DEF Sound, Events
<1>5. CASE v # "Deliver"
  <2>1. f.seen = e.seen /\ f.resting = e.resting
    <3>1. CASE v = "Disagreement"
      BY <1>0, <1>1, <1>5, <3>1 DEF Events
    <3>2. CASE v # "Disagreement"
      BY <1>1, <1>5, <3>2
    <3> QED BY <3>1, <3>2
  <2>2. ASSUME c.size = 0 PROVE c \in W
    <3> SUFFICES ASSUME c \notin W PROVE FALSE
      OBVIOUS
    <3>1. ~\E i \in 1..Len(e.seen) : e.seen[i].ev = c
      <4>1. DOMAIN e.seen = 1..Len(e.seen)
        BY <1>0 DEF Seens
      <4> QED BY <4>1 DEF Evs
    <3>2. Floored(e, c.o) => ~(c.size > e.resting[c.o].size)
      <4> SUFFICES ASSUME c.o \in DOMAIN e.resting PROVE ~(c.size > e.resting[c.o].size)
        BY DEF Floored, Known
      <4>1. e.resting[c.o] \in Slots
        BY <1>0 DEF Rests
      <4>2. e.resting[c.o].size \in Nat
        BY <4>1 DEF Slots
      <4> QED BY <2>2, <4>2
    <3>3. v = "Deliver"
      BY <1>3, <2>2, <3>1, <3>2 DEF Verdict
    <3> QED BY <1>5, <3>3
  <2> QED BY <1>2, <1>5, <2>1, <2>2 DEF Entered, e
<1>6. CASE v = "Deliver"
  <2>1. f = Remember(g, c, t)
    BY <1>1, <1>6
  <2>2. c.size # 0 => ~Removed(e, c.o)
    <3> SUFFICES ASSUME c.size # 0, Removed(e, c.o) PROVE FALSE
      OBVIOUS
    <3>1. v \in {"Duplicate", "Resurrection"}
      BY <1>3, Zenon DEF Verdict
    <3> QED BY <1>6, <3>1
  <2>3. /\ Sound(O, g) /\ g.seen = e.seen
        /\ \A x : Tomb(g.resting, x) = IF c.size = 0 /\ x = c.o /\ Tomb(e.resting, x) = -1 THEN ts
                                       ELSE Tomb(e.resting, x)
    <3>1. CASE c.size = 0
      <4>1. g = remove_order(e, c.o, ts)
        BY <3>1
      <4> DEFINE o == c.o
      <4>2. o \in O /\ g = remove_order(e, o, ts)
        BY <1>4, <4>1
      <4> HIDE DEF g, o
      <4>3. Buried(g, e, o, ts)
        BY ONLY <1>0, <4>2, ts \in Nat, RemoveTomb
      <4>4. Became(O, Gone(e.resting) \cup {o}, g)
        <5>1. Sound(O, e) /\ IsFiniteSet(O) /\ ts \in Nat
          BY <1>2
        <5> QED BY ONLY <4>2, <5>1, OrderRemoved
      <4> QED BY <3>1, <4>3, <4>4 DEF Buried, Became, o
    <3>2. CASE c.size # 0 /\ Known(e, c.o)
      <4>1. g = Restated(e, c, by, ts) /\ Floored(e, c.o)
        BY <2>2, <3>2 DEF Removed, Floored
      <4> HIDE DEF g
      <4>2. Sound(O, g)
        BY <1>2, <3>2, <4>1, RestatedRests
      <4>3. Alike(g, e)
        BY <1>0, <3>2, <4>1, RestatedTomb
      <4> QED BY <3>2, <4>2, <4>3 DEF Alike
    <3>3. CASE c.size # 0 /\ ~Known(e, c.o)
      <4> DEFINE o == c.o
                 size == c.size
      <4>1. o \in O /\ size \in Nat /\ size # 0 /\ g = track_floor(e, o, size, by, ts)
            /\ o \notin Gone(e.resting)
        BY <1>4, <3>3 DEF Known, Gone
      <4> HIDE DEF g, o, size
      <4>2. Sound(O, e) /\ IsFiniteSet(O) /\ ts \in Nat /\ by \in Owners
        BY <1>2 DEF Owners
      <4>3. Became(O, Gone(e.resting) \ {o}, g)
        BY ONLY <4>1, <4>2, FloorTracked
      <4>4. Unburied(g, e, o)
        BY ONLY <1>0, <4>1, <4>2, FloorTomb
      <4>5. Tomb(e.resting, o) = -1
        BY <4>1 DEF Tomb
      <4> QED BY <3>3, <4>3, <4>4, <4>5 DEF Became, Unburied
    <3> QED BY <3>1, <3>2, <3>3
  <2> HIDE DEF g
  <2>4. f.resting = g.resting
    BY <2>1, <2>3, SeenGrows
  <2>5. Evs(f.seen) \subseteq W \cup {c}
    <3>1. g \in Events(O)
      BY <2>3 DEF Sound
    <3> QED BY <2>1, <2>3, <3>1, SeenEvents
  <2> QED BY <1>2, <1>6, <2>3, <2>4, <2>5 DEF Entered, e
<1> QED BY <1>5, <1>6

\* What k changes of a batch, judged from e, came to: a.
Heard(e, a, changes, k, t, ts) ==
  /\ \A x : Tomb(a.e.resting, x) =
              IF Tomb(e.resting, x) = -1 /\ Rm(x) \in Range(a.kept) THEN ts ELSE Tomb(e.resting, x)
  /\ Evs(expire(a.e, t).seen) \subseteq Evs(expire(e, t).seen) \cup Range(a.kept)
  /\ Range(a.kept) \subseteq {changes[j] : j \in 1..k}
  /\ \A j \in 1..k : changes[j].size = 0 => changes[j] \in Evs(expire(e, t).seen) \cup Range(a.kept)

\* One change more.
LEMMA ChangeHeard ==
  ASSUME NEW O, IsFiniteSet(O), NEW e, NEW a, Sound(O, a.e), a.kept \in Seq(OrderEvents(O)),
         NEW changes \in Seq(OrderEvents(O)), NEW k \in 1..Len(changes), NEW by \in Path,
         NEW t \in Nat, NEW ts \in Nat, Heard(e, a, changes, k - 1, t, ts), NEW c, c = changes[k], NEW b,
         b = [e |-> admit(a.e, c, by, t, ts),
              kept |-> IF Verdict(expire(a.e, t), c, by, ts) = "Deliver" THEN Append(a.kept, c)
                       ELSE a.kept]
  PROVE  Heard(e, b, changes, k, t, ts)
<1> DEFINE v == Verdict(expire(a.e, t), c, by, ts)
           g == a.e
           f == admit(g, c, by, t, ts)
           m == IF v = "Deliver" THEN Append(a.kept, c) ELSE a.kept
           K == Range(a.kept)
           L == Range(m)
           W == Evs(expire(e, t).seen)
<1>1. b.e = f /\ b.kept = m
  OBVIOUS
<1>2. c \in OrderEvents(O) /\ Len(changes) \in Nat /\ k \in Nat /\ k >= 1
  OBVIOUS
<1>3. Sound(O, f) /\ Entered(f, g, c, v, t, ts)
  <2>1. Sound(O, g) /\ f = admit(g, c, by, t, ts) /\ v = Verdict(expire(g, t), c, by, ts)
    OBVIOUS
  <2> HIDE DEF f, v, g
  <2>2. Sound(O, f)
    BY ONLY IsFiniteSet(O), <1>2, by \in Path, t \in Nat, ts \in Nat, <2>1, AdmitKeeps
  <2>3. Entered(f, g, c, v, t, ts)
    BY ONLY IsFiniteSet(O), <1>2, by \in Path, t \in Nat, ts \in Nat, <2>1, AdmitTomb
  <2> QED BY <2>2, <2>3
<1>4. Evs(expire(f, t).seen) \subseteq Evs(f.seen)
  <2>1. f \in Events(O)
    BY <1>3 DEF Sound
  <2> HIDE DEF f
  <2> QED BY <2>1, WindowExpires
<1>5. L = IF v = "Deliver" THEN K \cup {c} ELSE K
  <2>1. CASE v = "Deliver"
    <3> DEFINE q == a.kept
               z == Append(q, c)
               n == Len(q)
    <3>1. n \in Nat /\ DOMAIN q = 1..n /\ DOMAIN z = 1..(n + 1) /\ z[n + 1] = c
          /\ \A i \in 1..n : z[i] = q[i]
      BY <1>2
    <3>2. m = z
      BY <2>1
    <3>3. \A i \in 1..(n + 1) : i \in 1..n \/ i = n + 1
      BY <3>1
    <3>4. 1..n \subseteq 1..(n + 1) /\ n + 1 \in 1..(n + 1)
      BY <3>1
    <3> HIDE DEF q, z, n, m
    <3>5. Range(z) = Range(q) \cup {c}
      BY <3>1, <3>3, <3>4 DEF Range
    <3> QED BY <2>1, <3>2, <3>5 DEF q
  <2>2. CASE v # "Deliver"
    BY <2>2
  <2> QED BY <2>1, <2>2
<1>6. \A x : Rm(x) = c <=> (c.size = 0 /\ c.o = x)
  BY <1>2 DEF Rm, OrderEvents
<1> HIDE DEF f, v, m, g
<1>7. /\ \A x : Tomb(g.resting, x) =
                  IF Tomb(e.resting, x) = -1 /\ Rm(x) \in K THEN ts ELSE Tomb(e.resting, x)
      /\ Evs(expire(g, t).seen) \subseteq W \cup K
      /\ K \subseteq {changes[j] : j \in 1..(k - 1)}
      /\ \A j \in 1..(k - 1) : changes[j].size = 0 => changes[j] \in W \cup K
  BY DEF Heard, g
<1> HIDE DEF K, L, W
<1>8. ASSUME NEW x PROVE Tomb(f.resting, x) =
                  IF Tomb(e.resting, x) = -1 /\ Rm(x) \in L THEN ts ELSE Tomb(e.resting, x)
  <2>1. Tomb(f.resting, x) = IF v = "Deliver" /\ c.size = 0 /\ x = c.o /\ Tomb(g.resting, x) = -1 THEN ts
                             ELSE Tomb(g.resting, x)
    BY <1>3 DEF Entered
  <2>2. Tomb(g.resting, x) = IF Tomb(e.resting, x) = -1 /\ Rm(x) \in K THEN ts ELSE Tomb(e.resting, x)
    BY <1>7
  <2>3. Rm(x) \in L <=> (Rm(x) \in K \/ (v = "Deliver" /\ c.size = 0 /\ x = c.o))
    BY <1>5, <1>6
  <2>4. ts # -1
    OBVIOUS
  <2> QED BY <2>1, <2>2, <2>3, <2>4
<1>9. Evs(expire(f, t).seen) \subseteq W \cup L
  <2>1. Evs(f.seen) \subseteq Evs(expire(g, t).seen) \cup (IF v = "Deliver" THEN {c} ELSE {})
    BY <1>3 DEF Entered
  <2> QED BY <1>4, <1>5, <1>7, <2>1
<1>10. L \subseteq {changes[j] : j \in 1..k}
  <2>1. \A j \in 1..(k - 1) : j \in 1..k
    BY <1>2
  <2>2. k \in 1..k
    BY <1>2
  <2> QED BY <1>5, <1>7, <2>1, <2>2
<1>11. ASSUME NEW j \in 1..k, changes[j].size = 0 PROVE changes[j] \in W \cup L
  <2>1. CASE j = k
    <3>1. c.size = 0 /\ changes[j] = c
      BY <1>11, <2>1
    <3>2. v # "Deliver" => c \in Evs(expire(g, t).seen)
      BY <1>3, <3>1 DEF Entered
    <3> QED BY <1>5, <1>7, <3>1, <3>2
  <2>2. CASE j # k
    <3>1. j \in 1..(k - 1)
      BY <1>2, <2>2
    <3> QED BY <1>5, <1>7, <1>11, <3>1
  <2> QED BY <2>1, <2>2
<1> HIDE DEF Rm
<1> QED BY <1>1, <1>8, <1>9, <1>10, <1>11 DEF Heard, L, W

\* The changes of a batch.
LEMMA BatchHeard ==
  ASSUME NEW O, IsFiniteSet(O), NEW e, Sound(O, e), NEW changes \in Seq(OrderEvents(O)),
         NEW by \in Path, now \in Nat, NEW ts \in Nat
  PROVE  Heard(e, Admitted(e, changes, by, ts), changes, Len(changes), now, ts)
<1> DEFINE T == {a \in Judgement(O) : Sound(O, a.e)}
           Step(a, c) ==
             [e |-> admit(a.e, c, by, now, ts),
              kept |-> IF Verdict(expire(a.e, now), c, by, ts) = "Deliver" THEN Append(a.kept, c)
                       ELSE a.kept]
           first == [e |-> e, kept |-> <<>>]
           n == Len(changes)
           Is(g) == g = [i \in 0..n |-> IF i = 0 THEN first ELSE Step(g[i - 1], changes[i])]
           acc == CHOOSE g : Is(g)
<1>1. /\ first \in T /\ n \in Nat /\ (\A i \in 1..n : changes[i] \in OrderEvents(O))
      /\ Heard(e, first, changes, 0, now, ts)
  <2>1. first.e = e /\ first.kept = <<>> /\ <<>> \in Seq(OrderEvents(O)) /\ e \in Events(O)
    BY DEF Sound
  <2>2. first \in T
    BY <2>1 DEF Judgement
  <2>3. Range(<<>>) = {}
    BY DEF Range
  <2> HIDE DEF first
  <2>4. Heard(e, first, changes, 0, now, ts)
    BY <2>1, <2>3 DEF Heard
  <2> QED BY <2>2, <2>4
<1>2. ASSUME NEW a \in T, NEW c \in OrderEvents(O) PROVE Step(a, c) \in T
  <2> DEFINE f == admit(a.e, c, by, now, ts)
             v == Verdict(expire(a.e, now), c, by, ts)
             m == IF v = "Deliver" THEN Append(a.kept, c) ELSE a.kept
  <2>1. Sound(O, a.e) /\ a.kept \in Seq(OrderEvents(O))
    BY DEF Judgement
  <2>2. m \in Seq(OrderEvents(O))
    BY <2>1
  <2>3. Step(a, c) = [e |-> f, kept |-> m]
    OBVIOUS
  <2>4. f = admit(a.e, c, by, now, ts) /\ v = Verdict(expire(a.e, now), c, by, ts)
    OBVIOUS
  <2> HIDE DEF f, m, v, Step
  <2>5. Sound(O, f)
    BY ONLY IsFiniteSet(O), c \in OrderEvents(O), by \in Path, now \in Nat, ts \in Nat, <2>1, <2>4, AdmitKeeps
  <2> QED BY <2>2, <2>3, <2>5 DEF Judgement, Sound
<1>3. Admitted(e, changes, by, ts) = acc[n]
  BY Zenon DEF Admitted, Along
<1>7. ASSUME NEW a \in T, NEW k \in 1..n, Heard(e, a, changes, k - 1, now, ts)
      PROVE  Heard(e, Step(a, changes[k]), changes, k, now, ts)
  <2>1. Sound(O, a.e) /\ a.kept \in Seq(OrderEvents(O))
    BY DEF Judgement
  <2>2. Step(a, changes[k]) = [e |-> admit(a.e, changes[k], by, now, ts),
              kept |-> IF Verdict(expire(a.e, now), changes[k], by, ts) = "Deliver" THEN Append(a.kept, changes[k])
                       ELSE a.kept]
    OBVIOUS
  <2> HIDE DEF Step
  <2> QED BY ONLY IsFiniteSet(O), changes \in Seq(OrderEvents(O)), k \in 1..n, by \in Path, now \in Nat,
     ts \in Nat, <1>7, <2>1, <2>2, ChangeHeard DEF n
<1> HIDE DEF T, Step, n, first
<1>4. Is(acc)
  <2> DEFINE F == [x \in T \X (1..n) |-> Step(x[1], changes[x[2]])]
  <2>1. F \in [T \X (1..n) -> T]
    BY <1>1, <1>2
  <2>2. PICK g : Runs(g, n, T, first, F)
    <3> HIDE DEF F
    <3> QED BY ONLY <1>1, <2>1, StepsExist
  <2>3. ASSUME NEW i \in 1..n PROVE g[i] = Step(g[i - 1], changes[i])
    <3>1. i - 1 \in 0..n /\ g[i - 1] \in T
      BY <1>1, <2>2 DEF Runs
    <3>2. F[<<g[i - 1], i>>] = Step(g[i - 1], changes[i])
      BY <3>1
    <3> QED BY <2>2, <3>2 DEF Runs
  <2>4. Is(g)
    <3>1. \A i \in 0..n : g[i] = IF i = 0 THEN first ELSE Step(g[i - 1], changes[i])
      BY <1>1, <2>2, <2>3 DEF Runs
    <3> QED BY <2>2, <3>1 DEF Runs
  <2> QED BY <2>4, Zenon
<1> HIDE DEF acc
<1>5. \A i \in 0..n : acc[i] \in T /\ Heard(e, acc[i], changes, i, now, ts)
  <2> DEFINE S == [i \in 0..n |-> {a \in T : Heard(e, a, changes, i, now, ts)}]
  <2>0. \A i \in 0..n : S[i] = {a \in T : Heard(e, a, changes, i, now, ts)}
    OBVIOUS
  <2> HIDE DEF S
  <2>1. acc[0] \in S[0]
    BY <1>1, <1>4, <2>0
  <2>2. ASSUME NEW i \in 1..n, acc[i - 1] \in S[i - 1] PROVE acc[i] \in S[i]
    <3>1. acc[i] = Step(acc[i - 1], changes[i]) /\ i - 1 \in 0..n /\ i \in 0..n
      BY <1>1, <1>4
    <3>2. acc[i - 1] \in T /\ Heard(e, acc[i - 1], changes, i - 1, now, ts)
      BY <2>0, <2>2, <3>1
    <3>3. acc[i] \in T /\ Heard(e, acc[i], changes, i, now, ts)
      BY <1>1, <1>2, <1>7, <3>1, <3>2
    <3> QED BY <2>0, <3>1, <3>3
  <2>3. \A i \in 0..n : acc[i] \in S[i]
    BY ONLY <1>1, <2>1, <2>2, Steps
  <2> QED BY <2>0, <2>3
<1> QED BY <1>1, <1>3, <1>5 DEF n

\* An order that nothing is sent of stays as it is on the wire.
LEMMA FoldedOther ==
  ASSUME NEW O, NEW size \in [O -> Nat], NEW kept \in Seq(OrderEvents(O)), NEW o \in O,
         \A c \in Range(kept) : c.o # o
  PROVE  Folded(size, kept)[o] = size[o]
<1> DEFINE n == Len(kept)
<1>1. PICK f : Folds(f, O, size, kept) /\ Folded(size, kept) = f[n]
  BY FoldedRuns
<1>2. n \in Nat /\ \A i \in 1..n : kept[i] \in Range(kept) /\ kept[i] \in OrderEvents(O)
  BY DEF Range
<1> HIDE DEF n
<1> DEFINE S == [i \in 0..n |-> {b \in [O -> Nat] : b[o] = size[o]}]
<1>3. \A i \in 0..n : S[i] = {b \in [O -> Nat] : b[o] = size[o]}
  OBVIOUS
<1> HIDE DEF S
<1>4. f[0] \in S[0]
  BY <1>1, <1>2, <1>3 DEF Folds
<1>5. ASSUME NEW i \in 1..n, f[i - 1] \in S[i - 1] PROVE f[i] \in S[i]
  <2>1. i - 1 \in 0..n /\ i \in 0..n /\ f[i - 1] \in [O -> Nat] /\ f[i - 1][o] = size[o]
    BY <1>2, <1>3, <1>5
  <2>2. kept[i].o # o /\ f[i] = [f[i - 1] EXCEPT ![kept[i].o] = kept[i].size] /\ f[i] \in [O -> Nat]
    BY <1>1, <1>2, <2>1 DEF Folds, n
  <2>3. f[i][o] = size[o]
    BY <2>1, <2>2
  <2> QED BY <1>3, <2>1, <2>2, <2>3
<1>6. \A i \in 0..n : f[i] \in S[i]
  BY ONLY <1>2, <1>4, <1>5, Steps
<1> QED BY <1>1, <1>2, <1>3, <1>6

Marks == {"no", "rests", "buried", "excused"}
Final == {"buried", "excused"}

\* What the history g of a market's orders is after k changes reached the wire.
Noted(g, a, O, kept, k, exact) ==
  \A x \in O :
    IF g[x] \in Final THEN a[x] = g[x]
    ELSE IF \E j \in 1..k : kept[j] = Rm(x) THEN a[x] = IF exact THEN "buried" ELSE "excused"
    ELSE a[x] \in {"no", "rests"}

\* Told: an order's first removal on the wire is noted, once.
LEMMA ToldNotes ==
  ASSUME NEW O, NEW g \in [O -> Marks], NEW kept \in Seq(OrderEvents(O)), NEW exact \in BOOLEAN
  PROVE  Told(g, kept, exact) \in [O -> Marks] /\ Noted(g, Told(g, kept, exact), O, kept, Len(kept), exact)
<1> DEFINE T == [O -> Marks]
           mark == IF exact THEN "buried" ELSE "excused"
           Step(a, c) == IF c.size = 0 /\ a[c.o] \in {"no", "rests"}
                         THEN [a EXCEPT ![c.o] = IF exact THEN "buried" ELSE "excused"]
                         ELSE IF a[c.o] = "no" THEN [a EXCEPT ![c.o] = "rests"] ELSE a
           n == Len(kept)
           Is(h) == h = [i \in 0..n |-> IF i = 0 THEN g ELSE Step(h[i - 1], kept[i])]
           acc == CHOOSE h : Is(h)
<1>1. g \in T /\ n \in Nat /\ \A i \in 1..n : kept[i] \in OrderEvents(O)
  OBVIOUS
<1>0. mark \in Final /\ Final \subseteq Marks /\ "rests" \in Marks
  BY DEF Marks, Final
<1>2. ASSUME NEW a \in T, NEW c \in OrderEvents(O)
      PROVE  /\ Step(a, c) \in T
             /\ \A x \in O : Step(a, c)[x] = IF x # c.o THEN a[x]
                                             ELSE IF c.size = 0 /\ a[x] \in {"no", "rests"} THEN mark
                                             ELSE IF a[x] = "no" THEN "rests" ELSE a[x]
  <2>1. c.o \in O
    BY DEF OrderEvents
  <2>2. CASE c.size = 0 /\ a[c.o] \in {"no", "rests"}
    <3>1. Step(a, c) = [a EXCEPT ![c.o] = mark]
      BY <2>2
    <3> HIDE DEF Step, mark
    <3> QED BY <1>0, <2>1, <2>2, <3>1
  <2>3. CASE ~(c.size = 0 /\ a[c.o] \in {"no", "rests"}) /\ a[c.o] = "no"
    <3>1. Step(a, c) = [a EXCEPT ![c.o] = "rests"]
      BY <2>3
    <3> HIDE DEF Step, mark
    <3> QED BY <1>0, <2>1, <2>3, <3>1
  <2>4. CASE ~(c.size = 0 /\ a[c.o] \in {"no", "rests"}) /\ a[c.o] # "no"
    <3>1. Step(a, c) = a
      BY <2>4
    <3> HIDE DEF Step, mark
    <3> QED BY <2>4, <3>1
  <2> QED BY <2>2, <2>3, <2>4
<1>3. Told(g, kept, exact) = acc[n]
  BY Zenon DEF Told, Along
<1> HIDE DEF T, Step, n
<1>4. Is(acc)
  <2> DEFINE F == [x \in T \X (1..n) |-> Step(x[1], kept[x[2]])]
  <2>1. F \in [T \X (1..n) -> T]
    BY <1>1, <1>2
  <2>2. PICK h : Runs(h, n, T, g, F)
    <3> HIDE DEF F
    <3> QED BY ONLY <1>1, <2>1, StepsExist
  <2>3. ASSUME NEW i \in 1..n PROVE h[i] = Step(h[i - 1], kept[i])
    <3>1. i - 1 \in 0..n /\ h[i - 1] \in T
      BY <1>1, <2>2 DEF Runs
    <3>2. F[<<h[i - 1], i>>] = Step(h[i - 1], kept[i])
      BY <3>1
    <3> QED BY <2>2, <3>2 DEF Runs
  <2>4. Is(h)
    <3>1. \A i \in 0..n : h[i] = IF i = 0 THEN g ELSE Step(h[i - 1], kept[i])
      BY <1>1, <2>2, <2>3 DEF Runs
    <3> QED BY <2>2, <3>1 DEF Runs
  <2> QED BY <2>4, Zenon
<1> HIDE DEF acc
<1>5. \A i \in 0..n : acc[i] \in T /\ Noted(g, acc[i], O, kept, i, exact)
  <2> DEFINE S == [i \in 0..n |-> {a \in T : Noted(g, a, O, kept, i, exact)}]
  <2>0. \A i \in 0..n : S[i] = {a \in T : Noted(g, a, O, kept, i, exact)}
    OBVIOUS
  <2> HIDE DEF S
  <2>1. acc[0] \in S[0]
    <3>1. acc[0] = g /\ 0 \in 0..n
      BY <1>1, <1>4
    <3>2. Noted(g, g, O, kept, 0, exact)
      BY DEF Noted, Marks, Final
    <3> QED BY <1>1, <2>0, <3>1, <3>2
  <2>2. ASSUME NEW i \in 1..n, acc[i - 1] \in S[i - 1] PROVE acc[i] \in S[i]
    <3>1. acc[i] = Step(acc[i - 1], kept[i]) /\ i - 1 \in 0..n /\ i \in 0..n /\ kept[i] \in OrderEvents(O)
      BY <1>1, <1>4
    <3> DEFINE a == acc[i - 1]
               b == acc[i]
               c == kept[i]
    <3>2. a \in T /\ Noted(g, a, O, kept, i - 1, exact)
      BY <2>0, <2>2, <3>1
    <3>3. b \in T /\ \A x \in O : b[x] = IF x # c.o THEN a[x]
                                         ELSE IF c.size = 0 /\ a[x] \in {"no", "rests"} THEN mark
                                         ELSE IF a[x] = "no" THEN "rests" ELSE a[x]
      BY <1>2, <3>1, <3>2
    <3>4. ASSUME NEW x \in O
          PROVE  IF g[x] \in Final THEN b[x] = g[x]
                 ELSE IF \E j \in 1..i : kept[j] = Rm(x) THEN b[x] = mark ELSE b[x] \in {"no", "rests"}
      <4>1. c = Rm(x) <=> (c.size = 0 /\ c.o = x)
        BY <3>1 DEF Rm, OrderEvents
      <4>2. (\E j \in 1..i : kept[j] = Rm(x)) <=> ((\E j \in 1..(i - 1) : kept[j] = Rm(x)) \/ c = Rm(x))
        <5>1. i \in 1..i /\ (\A j \in 1..(i - 1) : j \in 1..i) /\ \A j \in 1..i : j = i \/ j \in 1..(i - 1)
          BY <1>1
        <5> HIDE DEF Rm
        <5> QED BY <5>1
      <4>3. IF g[x] \in Final THEN a[x] = g[x]
            ELSE IF \E j \in 1..(i - 1) : kept[j] = Rm(x) THEN a[x] = mark ELSE a[x] \in {"no", "rests"}
        BY <3>2 DEF Noted
      <4>4. "no" \notin Final /\ "rests" \notin Final
        BY DEF Final
      <4> DEFINE J == \E j \in 1..(i - 1) : kept[j] = Rm(x)
                 I == \E j \in 1..i : kept[j] = Rm(x)
      <4>5. b[x] = IF x # c.o THEN a[x] ELSE IF c.size = 0 /\ a[x] \in {"no", "rests"} THEN mark
                   ELSE IF a[x] = "no" THEN "rests" ELSE a[x]
        BY <3>3
      <4>6. (I <=> (J \/ c = Rm(x))) /\ IF g[x] \in Final THEN a[x] = g[x] ELSE IF J THEN a[x] = mark
                                        ELSE a[x] \in {"no", "rests"}
        BY <4>2, <4>3
      <4> HIDE DEF I, J, a, b, c, mark
      <4>7. IF g[x] \in Final THEN b[x] = g[x] ELSE IF I THEN b[x] = mark ELSE b[x] \in {"no", "rests"}
        BY <1>0, <4>1, <4>4, <4>5, <4>6
      <4> QED BY <4>7 DEF I
    <3>5. Noted(g, b, O, kept, i, exact)
      BY <3>4 DEF Noted
    <3> QED BY <2>0, <3>1, <3>3, <3>5
  <2>3. \A i \in 0..n : acc[i] \in S[i]
    BY ONLY <1>1, <2>1, <2>2, Steps
  <2> QED BY <2>0, <2>3
<1> QED BY <1>1, <1>3, <1>5 DEF n, T

-----------------------------------------------------------------------------
(* An order whose removal reached the wire: either the guard holds it as    *)
(* removed, at no earlier a stamp than the venue's, or the frontier is past *)
(* the venue's time and the window does not hold the removal, so that a     *)
(* batch young enough to be judged delivers it with what comes before it.   *)

Grave(l, m, o, T, W, fr) ==
  \E i \in 1..Len(l) :
    /\ l[i].m = m /\ l[i].o = o /\ l[i].size = 0
    /\ T >= l[i].ts \/ (T = -1 /\ fr # None /\ l[i].ts < fr /\ ~W)

\* The batch: the events P + 1 to P + n of the log l, as changes c, stamped st and judged at
\* the frontier fr.
Span(l, m, P, n, c, st, exact, fr) ==
  /\ l \in Seq(VenueEvents) /\ Orderly(l) /\ P \in Nat /\ n \in Nat /\ n >= 1 /\ P + n <= Len(l)
  /\ (\A i \in P + 1 .. P + n : l[i].m = m)
  /\ (\A i \in 1..n : c[i] = [o |-> l[P + i].o, size |-> l[P + i].size])
  /\ st \in Nat /\ st <= l[P + n].ts /\ exact \in BOOLEAN /\ (exact => st = l[P + n].ts)
  /\ fr \in Stamps /\ (fr # None => st >= fr)

\* What it does to order o, with the changes K delivered: T and W are the stamp of its removal
\* and whether the window holds that, then T3 and W3,
Weighed(o, n, c, st, K, T, T3, W, W3) ==
  /\ K \subseteq {c[j] : j \in 1..n} /\ W \in BOOLEAN /\ W3 \in BOOLEAN
  /\ T = -1 \/ T \in Nat
  /\ T3 = IF T = -1 /\ Rm(o) \in K THEN st ELSE T
  /\ W3 => W \/ Rm(o) \in K
  /\ \A j \in 1..n : c[j] = Rm(o) => W \/ Rm(o) \in K

\* and k its history, then k3.
Marked(o, K, exact, k, k3) ==
  /\ k3 = IF k \in Final THEN k
          ELSE IF Rm(o) \in K THEN (IF exact THEN "buried" ELSE "excused") ELSE k3
  /\ k \notin Final /\ Rm(o) \notin K => k3 \notin Final

\* Its size on the wire is z, then z3.
Sized(o, K, z, z3) == (\A x \in K : x.o # o) => z3 = z

\* One order through a batch.
LEMMA BatchGrave ==
  ASSUME NEW l, NEW m, NEW o, NEW P, NEW n, NEW c, NEW st, NEW exact, NEW fr,
         Span(l, m, P, n, c, st, exact, fr),
         NEW K, NEW T, NEW T3, NEW W, NEW W3, Weighed(o, n, c, st, K, T, T3, W, W3),
         NEW k, NEW k3, Marked(o, K, exact, k, k3), NEW z, NEW z3, Sized(o, K, z, z3),
         k = "buried" => z = 0 /\ Grave(l, m, o, T, W, fr), T # -1 => k \in Final
  PROVE  /\ k3 = "buried" => (T3 # -1 \/ z3 = 0) /\ Grave(l, m, o, T3, W3, fr)
         /\ T3 # -1 => k3 \in Final
<1> USE DEF Span, Weighed, Marked, Sized
<1> DEFINE R == Rm(o) \in K
<1>1. "buried" \in Final /\ "excused" \in Final
  BY DEF Final
<1>2. ASSUME NEW i \in 1..Len(l) PROVE l[i].ts \in Nat /\ l[i].size \in Nat
  <2>1. l[i] \in VenueEvents
    OBVIOUS
  <2> QED BY <2>1, VenueEvent
<1>3. T3 # -1 => k3 \in Final
  <2> HIDE DEF Rm, Final
  <2> QED BY <1>1
<1>4. ASSUME k3 = "buried", k = "buried" PROVE (T3 # -1 \/ z3 = 0) /\ Grave(l, m, o, T3, W3, fr)
  <2>1. PICK i \in 1..Len(l) : /\ l[i].m = m /\ l[i].o = o /\ l[i].size = 0
                               /\ T >= l[i].ts \/ (T = -1 /\ fr # None /\ l[i].ts < fr /\ ~W)
    BY <1>4 DEF Grave
  <2>2. CASE T # -1
    <3>1. T3 = T /\ T >= l[i].ts
      BY <2>1, <2>2
    <3> QED BY <2>1, <2>2, <3>1 DEF Grave
  <2>3. CASE T = -1 /\ R
    <3>1. T3 = st /\ l[i].ts \in Nat
      BY <1>2, <2>3
    <3>2. fr # None /\ l[i].ts < fr
      BY <2>1, <2>3, <3>1
    <3>3. fr \in Nat /\ st >= fr
      BY <3>2 DEF Stamps
    <3>4. T3 >= l[i].ts /\ T3 # -1
      BY <3>1, <3>2, <3>3
    <3> QED BY <2>1, <3>4 DEF Grave
  <2>4. CASE T = -1 /\ ~R
    <3>1. fr # None /\ l[i].ts < fr /\ ~W /\ fr \in Nat /\ st >= fr /\ l[i].ts \in Nat
      BY <1>2, <2>1, <2>4 DEF Stamps
    <3>2. i < P + n
      <4> SUFFICES ASSUME i >= P + n PROVE FALSE
        BY Len(l) \in Nat
      <4>1. P + n \in 1..Len(l) /\ l[P + n].ts \in Nat
        BY <1>2
      <4>2. l[P + n].ts <= l[i].ts
        <5>1. CASE i = P + n
          BY <4>1, <5>1
        <5>2. CASE i # P + n
          <6>1. P + n < i
            BY <5>2
          <6> QED BY <4>1, <6>1 DEF Orderly
        <5> QED BY <5>1, <5>2
      <4> QED BY <3>1, <4>1, <4>2
    <3>3. ASSUME NEW j \in 1..n PROVE c[j].o # o
      <4> SUFFICES ASSUME c[j].o = o PROVE FALSE
        OBVIOUS
      <4> DEFINE a == P + j
      <4>1. a \in 1..Len(l) /\ a \in P + 1 .. P + n /\ Len(l) \in Nat
        OBVIOUS
      <4>2. l[a].m = m /\ l[a].o = o
        <5>1. c[j] = [o |-> l[a].o, size |-> l[a].size]
          OBVIOUS
        <5>2. l[a].m = m
          BY <4>1
        <5> HIDE DEF a
        <5> QED BY <5>1, <5>2
      <4>3. a <= i
        <5> SUFFICES ASSUME i < a PROVE FALSE
          BY <4>1
        <5> HIDE DEF a
        <5>1. l[a].size < l[i].size
          BY <2>1, <4>1, <4>2 DEF Orderly
        <5>2. l[a].size \in Nat
          BY <1>2, <4>1
        <5> QED BY <2>1, <5>1, <5>2
      <4> DEFINE b == i - P
      <4>4. b \in 1..n /\ P + b = i
        BY <3>2, <4>1, <4>3
      <4>5. c[b] = Rm(o)
        <5>1. c[b] = [o |-> l[P + b].o, size |-> l[P + b].size]
          BY <4>4
        <5>2. l[P + b].o = o /\ l[P + b].size = 0
          BY <2>1, <4>4
        <5> HIDE DEF b
        <5> QED BY <5>1, <5>2 DEF Rm
      <4> HIDE DEF b
      <4>6. W \/ R
        BY <4>4, <4>5
      <4> QED BY <2>4, <3>1, <4>6
    <3>4. z3 = 0
      BY <1>4, <3>3
    <3>5. T3 = -1 /\ ~W3
      BY <2>4, <3>1
    <3> QED BY <2>1, <3>1, <3>4, <3>5 DEF Grave
  <2> QED BY <2>2, <2>3, <2>4
<1>5. ASSUME k3 = "buried", k # "buried" PROVE (T3 # -1 \/ z3 = 0) /\ Grave(l, m, o, T3, W3, fr)
  <2>1. k \notin Final /\ R /\ exact
    <3>1. k \notin Final
      <4> SUFFICES ASSUME k \in Final PROVE FALSE
        OBVIOUS
      <4>1. k3 = k
        OBVIOUS
      <4> QED BY <1>5, <4>1
    <3>2. R
      <4> HIDE DEF Rm, Final
      <4> QED BY <1>1, <1>5, <3>1
    <3>3. k3 = IF exact THEN "buried" ELSE "excused"
      BY <3>1, <3>2
    <3> QED BY <1>5, <3>1, <3>2, <3>3
  <2>2. T = -1 /\ T3 = st /\ st = l[P + n].ts
    BY <2>1
  <2>3. PICK j \in 1..n : c[j] = Rm(o)
    BY <2>1
  <2> DEFINE i == P + j
  <2>4. i \in 1..Len(l) /\ i \in P + 1 .. P + n /\ P + n \in 1..Len(l)
    BY Len(l) \in Nat
  <2>5. l[i].m = m /\ l[i].o = o /\ l[i].size = 0
    <3>1. Rm(o) = [o |-> l[i].o, size |-> l[i].size]
      BY <2>3
    <3>2. Rm(o).o = l[i].o /\ Rm(o).size = l[i].size
      <4> HIDE DEF i
      <4> QED BY <3>1
    <3> QED BY <2>4, <3>2 DEF Rm
  <2>6. l[i].ts <= st
    <3>1. CASE i = P + n
      <4>1. l[i].ts = st
        BY <2>2, <3>1
      <4> QED BY <4>1
    <3>2. CASE i # P + n
      <4>1. i < P + n
        BY <3>2
      <4> HIDE DEF i
      <4> QED BY <2>2, <2>4, <4>1 DEF Orderly
    <3> QED BY <3>1, <3>2
  <2> HIDE DEF i
  <2>7. l[i].ts \in Nat
    BY <1>2, <2>4
  <2> QED BY <2>2, <2>4, <2>5, <2>6, <2>7 DEF Grave
<1> QED BY <1>3, <1>4, <1>5

\* Whether the window holds an order's removal at instant t.
InWin(e, o, t) == Rm(o) \in Evs(expire(e, t).seen)

\* What is so of an order of market m.
Laid(l, m, o, e, t, c, k, z) ==
  /\ k = "buried" => z = 0 /\ Grave(l, m, o, Tomb(e.resting, o), InWin(e, o, t), frontier(c))
  /\ Tomb(e.resting, o) # -1 => k \in Final

AnyMarks == UNION {[Order(m) -> Marks] : m \in Market}

GraveInv ==
  /\ Orderly(log)
  /\ known \in [Market -> AnyMarks] /\ (\A m \in Market : known[m] \in [Order(m) -> Marks])
  /\ \A m \in Market : \A o \in Order(m) :
       Laid(log, m, o, ev[m], now, clock, known[m][o], wire[m].size[o])

\* The window is all that expire looks at.
LEMMA SameWindow ==
  ASSUME NEW O, NEW e \in Events(O), NEW f \in Events(O), f.seen = e.seen, NEW t \in Nat, NEW o
  PROVE  InWin(f, o, t) <=> InWin(e, o, t)
<1> DEFINE young(q) == {i \in 1..Len(q) : t - q[i].at <= book_dedup_window_ns}
           from(q) == IF young(q) = {} THEN Len(q) + 1 ELSE CHOOSE i \in young(q) : \A j \in young(q) : i <= j
           rest(q) == SubSeq(q, from(q), Len(q))
           r == rest(e.seen)
<1>1. expire(e, t) = [e EXCEPT !.seen = rest(e.seen)]
  BY Zenon DEF expire
<1>2. expire(f, t) = [f EXCEPT !.seen = rest(f.seen)]
  BY Zenon DEF expire
<1> HIDE DEF rest
<1>3. rest(f.seen) = rest(e.seen)
  OBVIOUS
<1>4. expire(e, t).seen = r /\ expire(f, t).seen = r
  BY <1>1, <1>2, <1>3 DEF Events
<1> QED BY <1>4 DEF InWin

\* A stamp stands for a removal.
LEMMA TombStands ==
  ASSUME NEW O, NEW e \in Events(O), NEW o
  PROVE  /\ Tomb(e.resting, o) = -1 \/ Tomb(e.resting, o) \in Nat
         /\ Removed(e, o) <=> Tomb(e.resting, o) # -1
<1>1. e.resting \in Rests(O) /\ (Removed(e, o) <=> o \in Gone(e.resting))
  BY DEF Events, Removed, Known, Gone
<1>2. o \in Gone(e.resting) => e.resting[o].last_ts \in Nat
  BY <1>1 DEF Gone, Rests, Slots
<1> QED BY <1>1, <1>2 DEF Tomb

\* The clock did not go back.
NotBack(c, d) == c.newest_ts # None => d.newest_ts # None /\ d.newest_ts >= c.newest_ts

\* Then its frontier did not.
LEMMA FrontierUp ==
  ASSUME NEW c \in ClockStates, NEW d \in ClockStates
  PROVE  /\ frontier(c) \in Stamps
         /\ NotBack(c, d) /\ frontier(c) # None => frontier(d) \in Nat /\ frontier(d) # None /\ frontier(c) <= frontier(d)
<1>1. /\ retention_ns \in Nat /\ None \notin Nat
      /\ c.newest_ts = None \/ c.newest_ts \in Nat
      /\ d.newest_ts = None \/ d.newest_ts \in Nat
  BY GuardAssumption DEF ClockStates, Stamps
<1>2. frontier(c) \in Stamps
  BY <1>1 DEF frontier, Stamps
<1>3. ASSUME NotBack(c, d), frontier(c) # None
      PROVE  frontier(d) \in Nat /\ frontier(d) # None /\ frontier(c) <= frontier(d)
  <2>1. c.newest_ts # None /\ d.newest_ts # None /\ d.newest_ts >= c.newest_ts
    BY <1>3 DEF NotBack, frontier
  <2>2. frontier(c) = IF c.newest_ts < retention_ns THEN 0 ELSE c.newest_ts - retention_ns
    BY <2>1 DEF frontier
  <2>3. frontier(d) = IF d.newest_ts < retention_ns THEN 0 ELSE d.newest_ts - retention_ns
    BY <2>1 DEF frontier
  <2>4. frontier(d) \in Nat /\ frontier(c) <= frontier(d)
    BY <1>1, <2>1, <2>2, <2>3
  <2> QED BY <1>1, <2>4
<1> QED BY <1>2, <1>3

\* A grave stays one as the log goes on, the clock too, and the window empties.
LEMMA GraveStays ==
  ASSUME NEW l \in Seq(VenueEvents), NEW l2 \in Seq(VenueEvents), Continues(l, l2),
         NEW c \in ClockStates, NEW d \in ClockStates, NotBack(c, d), NEW m, NEW o, NEW T,
         NEW W \in BOOLEAN, NEW W2 \in BOOLEAN, W2 => W, Grave(l, m, o, T, W, frontier(c))
  PROVE  Grave(l2, m, o, T, W2, frontier(d))
<1> DEFINE fr == frontier(c)
<1>1. PICK i \in 1..Len(l) : /\ l[i].m = m /\ l[i].o = o /\ l[i].size = 0
                             /\ T >= l[i].ts \/ (T = -1 /\ fr # None /\ l[i].ts < fr /\ ~W)
  BY DEF Grave
<1>2. i \in 1..Len(l2) /\ l2[i] = l[i]
  <2>1. Len(l) \in Nat /\ Len(l2) \in Nat /\ Len(l2) >= Len(l)
    BY DEF Continues
  <2> QED BY <2>1 DEF Continues
<1>3. CASE T >= l[i].ts
  BY <1>1, <1>2, <1>3 DEF Grave
<1>4. CASE T = -1 /\ fr # None /\ l[i].ts < fr /\ ~W
  <2>1. fr \in Stamps /\ frontier(d) \in Nat /\ frontier(d) # None /\ fr <= frontier(d)
    BY <1>4, FrontierUp
  <2>2. l[i].ts \in Nat /\ fr \in Nat
    <3>1. l[i] \in VenueEvents
      OBVIOUS
    <3> QED BY <1>4, <2>1, <3>1, VenueEvent DEF Stamps
  <2> HIDE DEF fr
  <2>3. l2[i].ts < frontier(d)
    BY <1>2, <1>4, <2>1, <2>2
  <2> QED BY <1>1, <1>2, <1>4, <2>1, <2>3 DEF Grave
<1> QED BY <1>1, <1>3, <1>4

\* An order that a step leaves alone, but for what the clock excuses.
LEMMA LaidStays ==
  ASSUME NEW l \in Seq(VenueEvents), NEW l2 \in Seq(VenueEvents), Continues(l, l2),
         NEW c \in ClockStates, NEW d \in ClockStates, NEW O, NEW e \in Events(O), NEW t \in Nat, NEW u \in Nat,
         t <= u, NEW m, NEW o, NEW k, NEW k2, NEW z, Laid(l, m, o, e, t, c, k, z),
         (NotBack(c, d) /\ k2 = k) \/ (k2 # "buried" /\ (k \in Final => k2 \in Final))
  PROVE  Laid(l2, m, o, e, u, d, k2, z)
<1> DEFINE T == Tomb(e.resting, o)
           W == InWin(e, o, t)
           V == InWin(e, o, u)
<1>1. /\ k = "buried" => z = 0 /\ Grave(l, m, o, T, W, frontier(c))
      /\ T # -1 => k \in Final
  BY DEF Laid
<1>2. V => W
  BY WindowExpires DEF InWin
<1>3. W \in BOOLEAN /\ V \in BOOLEAN
  BY DEF InWin
<1> HIDE DEF T, W, V
<1>4. ASSUME k2 = "buried" PROVE z = 0 /\ Grave(l2, m, o, T, V, frontier(d))
  <2>1. NotBack(c, d) /\ k = "buried"
    BY <1>4
  <2> QED BY <1>1, <1>2, <1>3, <2>1, GraveStays
<1>5. T # -1 => k2 \in Final
  BY <1>1
<1> QED BY <1>4, <1>5 DEF Laid, T, V

\* A whole book: an order of it rests, and the removal of any other stays.
LEMMA BaselineLaid ==
  ASSUME NEW m \in Market, NEW e, Sound(Order(m), e), NEW size \in [Order(m) -> Nat], NEW ts \in Nat,
         NEW l, NEW o \in Order(m), NEW t \in Nat, NEW c, NEW k, NEW z, Laid(l, m, o, e, t, c, k, z),
         NEW f, f = rebaselined(e, OrdersOf[m], size, ts)
  PROVE  Laid(l, m, o, f, t, c, IF size[o] # 0 THEN "rests" ELSE k, size[o])
<1> DEFINE O == Order(m)
           q == OrdersOf[m]
<1>1. IsFiniteSet(O) /\ q \in Seq(O) /\ O = Range(q)
  BY OrdersFinite
<1>2. /\ Sound(O, f) /\ f.seen = <<>>
      /\ size[o] # 0 => o \notin Gone(f.resting)
      /\ size[o] = 0 => Tomb(f.resting, o) = Tomb(e.resting, o)
  <2> HIDE DEF O, q
  <2>1. f = rebaselined(e, q, size, ts) /\ Sound(O, e) /\ size \in [O -> Nat] /\ o \in O
    BY DEF O, q
  <2>2. Sound(O, f) /\ (\A x \in Gone(f.resting) : size[x] = 0) /\ Reseeded(f, e, O, size)
    BY ONLY <1>1, <2>1, ts \in Nat, BaselineSeeds
  <2> QED BY <2>1, <2>2 DEF Reseeded
<1>3. ~InWin(f, o, t)
  <2>1. Evs(expire(f, t).seen) \subseteq Evs(f.seen)
    <3>1. f \in Events(O)
      BY <1>2 DEF Sound
    <3> QED BY <3>1, WindowExpires
  <2>2. Evs(f.seen) = {}
    BY <1>2 DEF Evs
  <2> QED BY <2>1, <2>2 DEF InWin
<1>4. CASE size[o] # 0
  <2>1. Tomb(f.resting, o) = -1
    BY <1>2, <1>4 DEF Tomb
  <2> QED BY <1>4, <2>1 DEF Laid
<1>5. CASE size[o] = 0
  <2> DEFINE T == Tomb(e.resting, o)
             W == InWin(e, o, t)
             V == InWin(f, o, t)
  <2>1. /\ k = "buried" => z = 0 /\ Grave(l, m, o, T, W, frontier(c))
        /\ T # -1 => k \in Final
    BY DEF Laid
  <2>2. Tomb(f.resting, o) = T /\ ~V
    BY <1>2, <1>3, <1>5
  <2> HIDE DEF T, W, V
  <2>3. Grave(l, m, o, T, W, frontier(c)) => Grave(l, m, o, T, V, frontier(c))
    BY <2>2 DEF Grave
  <2> QED BY <1>5, <2>1, <2>2, <2>3 DEF Laid, V
<1> QED BY <1>4, <1>5

\* serve_forced_rebaseline, likewise.
LEMMA DischargedLaid ==
  ASSUME RaceInv, GraveInv, NEW m \in Market, NEW d, d = Discharged(m)
  PROVE  /\ d.known \in [Order(m) -> Marks]
         /\ \A o \in Order(m) : Laid(log, m, o, d.ev, now, clock, d.known[o], d.wire.size[o])
<1> DEFINE size == IF wire[m].base THEN wire[m].size ELSE Nothing(m)
           O == Order(m)
<1>1. Agree(m, ev[m], wire[m]) /\ seed_ts \in Nat /\ known[m] \in [O -> Marks] /\ now \in Nat
      /\ \A o \in O : Laid(log, m, o, ev[m], now, clock, known[m][o], wire[m].size[o])
  BY SeedTyped DEF RaceInv, Markets, GraveInv, RaceType
<1>2. size \in [O -> Nat] /\ Sound(O, ev[m])
  BY <1>1 DEF Agree, Wires, Nothing
<1>3. CASE ~bm[m].rebaseline
  <2>1. d.ev = ev[m] /\ d.wire = wire[m] /\ d.known = known[m]
    BY <1>3 DEF Discharged
  <2> QED BY <1>1, <2>1
<1>4. CASE bm[m].rebaseline
  <2> DEFINE f == rebaselined(ev[m], OrdersOf[m], size, seed_ts)
             g == Named(known[m], size)
  <2>0. Discharged(m) = [ev |-> f, wire |-> [base |-> TRUE, size |-> size], known |-> g]
    BY <1>4, Zenon DEF Discharged
  <2>1. d = [ev |-> f, wire |-> [base |-> TRUE, size |-> size], known |-> g]
    BY <2>0, Zenon
  <2>2. d.ev = f /\ d.wire.size = size /\ d.known = g
    <3> HIDE DEF f, g, size
    <3> QED BY <2>1
  <2>3. g = [o \in O |-> IF size[o] # 0 THEN "rests" ELSE known[m][o]]
    BY <1>1 DEF Named
  <2>4. g \in [O -> Marks]
    <3> HIDE DEF size, O
    <3> QED BY <1>1, <2>3 DEF Marks
  <2>5. ASSUME NEW o \in O PROVE Laid(log, m, o, f, now, clock, g[o], size[o])
    <3> DEFINE e == ev[m]
               k == known[m][o]
               z == wire[m].size[o]
    <3>1. Laid(log, m, o, e, now, clock, k, z) /\ f = rebaselined(e, OrdersOf[m], size, seed_ts)
          /\ Sound(Order(m), e) /\ size \in [Order(m) -> Nat] /\ o \in Order(m)
      BY <1>1, <1>2
    <3>2. g[o] = IF size[o] # 0 THEN "rests" ELSE k
      BY <2>3
    <3> HIDE DEF f, g, size, e, k, z, O
    <3>3. Laid(log, m, o, f, now, clock, IF size[o] # 0 THEN "rests" ELSE k, size[o])
      BY ONLY <1>1, <3>1, m \in Market, BaselineLaid
    <3> QED BY <3>2, <3>3
  <2> HIDE DEF f, g, size
  <2> QED BY <2>2, <2>4, <2>5
<1> QED BY <1>3, <1>4

\* Aged: what is buried is excused when the clock went back.
LEMMA AgedMarks ==
  ASSUME clock \in ClockStates, clock' \in ClockStates, NEW K \in [Market -> AnyMarks],
         \A m \in Market : K[m] \in [Order(m) -> Marks]
  PROVE  /\ Aged(K) \in [Market -> AnyMarks]
         /\ \A m \in Market : /\ Aged(K)[m] \in [Order(m) -> Marks]
                              /\ \A o \in Order(m) :
                                   \/ NotBack(clock, clock') /\ Aged(K)[m][o] = K[m][o]
                                   \/ Aged(K)[m][o] # "buried" /\ (K[m][o] \in Final => Aged(K)[m][o] \in Final)
<1> DEFINE back == clock.newest_ts # None /\ (clock'.newest_ts = None \/ clock'.newest_ts < clock.newest_ts)
           L == [m \in Market |-> [o \in Order(m) |-> IF K[m][o] = "buried" THEN "excused" ELSE K[m][o]]]
<1>1. Aged(K) = IF back THEN L ELSE K
  BY Zenon DEF Aged
<1>2. CASE back
  <2>1. Aged(K) = L
    BY <1>1, <1>2
  <2>2. \A m \in Market : L[m] \in [Order(m) -> Marks]
    BY DEF Marks
  <2>3. \A m \in Market : \A o \in Order(m) : L[m][o] # "buried" /\ (K[m][o] \in Final => L[m][o] \in Final)
    BY DEF Final
  <2>4. L \in [Market -> AnyMarks]
    BY <2>2 DEF AnyMarks
  <2> HIDE DEF L
  <2> QED BY <2>1, <2>2, <2>3, <2>4
<1>3. CASE ~back
  <2>1. Aged(K) = K
    BY <1>1, <1>3
  <2>2. NotBack(clock, clock')
    BY <1>3 DEF NotBack, ClockStates, Stamps
  <2> QED BY <2>1, <2>2
<1> QED BY <1>2, <1>3

\* forget_expired, for one order: a removal that is forgotten is older than the frontier, and
\* excused when the window holds it.
LEMMA ForgottenGrave ==
  ASSUME NEW l \in Seq(VenueEvents), NEW m, NEW o, NEW fr \in Stamps, NEW T, NEW T2, NEW W \in BOOLEAN,
         T = -1 \/ T \in Nat, T2 = T \/ (T2 = -1 /\ fr # None /\ T < fr),
         Grave(l, m, o, T, W, fr), ~(T # -1 /\ T2 = -1 /\ W)
  PROVE  Grave(l, m, o, T2, W, fr)
<1>1. PICK i \in 1..Len(l) : /\ l[i].m = m /\ l[i].o = o /\ l[i].size = 0
                             /\ T >= l[i].ts \/ (T = -1 /\ fr # None /\ l[i].ts < fr /\ ~W)
  BY DEF Grave
<1>2. l[i].ts \in Nat
  <2>1. l[i] \in VenueEvents
    OBVIOUS
  <2> QED BY <2>1, VenueEvent
<1>3. CASE T2 = T
  BY <1>3
<1>4. CASE T2 # T
  <2>1. T2 = -1 /\ fr # None /\ T < fr /\ fr \in Nat /\ T \in Nat
    BY <1>4 DEF Stamps
  <2>2. T >= l[i].ts /\ ~W
    BY <1>1, <2>1
  <2>3. l[i].ts < fr
    BY <1>2, <2>1, <2>2
  <2> QED BY <1>1, <2>1, <2>2, <2>3 DEF Grave
<1> QED BY <1>3, <1>4

\* One batch of the race, for every order of its market.
LEMMA BatchLaid ==
  ASSUME RaceInv, GraveInv, RaceInv', NEW p \in Path, NEW m \in Market, NEW n \in Nat, n >= 1,
         Reaches(log', p, m, n), UNCHANGED now, NEW c \in Seq(OrderEvents(Order(m))), Len(c) = n,
         NEW ts \in Nat, ts = log'[pos[p] + n].ts, Course(p, m, c, ts),
         \A i \in 1..n : c[i] = [o |-> log'[pos[p] + i].o, size |-> log'[pos[p] + i].size]
  PROVE  /\ \E K : /\ known' = Aged(K) /\ K \in [Market -> AnyMarks] /\ K[m] \in [Order(m) -> Marks]
                   /\ (\A x \in Market \ {m} : K[x] = known[x] /\ ev'[x] = ev[x] /\ wire'[x] = wire[x])
                   /\ \A o \in Order(m) :
                        /\ NotBack(clock, clock') /\ K[m][o] = "buried" =>
                             /\ wire'[m].size[o] = 0
                             /\ Grave(log', m, o, Tomb(ev'[m].resting, o), InWin(ev'[m], o, now), frontier(clock'))
                        /\ Tomb(ev'[m].resting, o) # -1 => K[m][o] \in Final
<1> DEFINE O == Order(m)
           l == log'
           fr == frontier(clock')
<1>1. /\ now \in Nat /\ clock \in ClockStates /\ clock' \in ClockStates /\ behind \in Nat
      /\ log \in Seq(VenueEvents) /\ l \in Seq(VenueEvents) /\ pos[p] \in Nat /\ pos[p] + n <= Len(l)
      /\ Continues(log, l) /\ Orderly(l) /\ \A i \in pos[p] + 1 .. pos[p] + n : l[i].m = m
  <2>1. RaceType /\ RaceType' /\ Orderly(log)
    BY DEF RaceInv, GraveInv
  <2>2. /\ now \in Nat /\ clock \in ClockStates /\ clock' \in ClockStates /\ behind \in Nat
        /\ log \in Seq(VenueEvents) /\ l \in Seq(VenueEvents) /\ pos[p] \in Nat
    BY <2>1 DEF RaceType
  <2>3. /\ Len(l) >= pos[p] + n /\ Continues(log, l)
        /\ \A i \in pos[p] + 1 .. pos[p] + n : l[i].m = m
    BY DEF Reaches
  <2>4. Orderly(l) /\ pos[p] + n <= Len(l)
    BY <2>1, <2>2, <2>3 DEF Continues
  <2> QED BY <2>2, <2>3, <2>4
<1>2. PICK d, st, e, a, h :
    /\ d = Discharged(m) /\ Agree(m, d.ev, d.wire)
    /\ st = stamp(clock', ts, cap) /\ st \in Nat
    /\ e = forget_expired(d.ev, frontier(clock')) /\ Sound(Order(m), e)
    /\ a = IF frontier(clock') # None /\ st < frontier(clock') THEN [e |-> e, kept |-> <<>>]
           ELSE Admitted(e, c, p, st)
    /\ Sound(Order(m), a.e) /\ a.kept \in Seq(OrderEvents(Order(m)))
    /\ h = Charged(held, ev[m], a.e) /\ h \in Int
    /\ Settle(p, m, d.wire, Outlived(d.ev, e, d.known), a,
              a.kept # <<>> /\ ~SafeToDrop(a.e.forced, a.kept), st = ts)
  BY Zenon DEF Course
<1> DEFINE exact == st = ts
           sends == a.kept # <<>> /\ ~SafeToDrop(a.e.forced, a.kept)
           g == Outlived(d.ev, e, d.known)
           b == [a.e EXCEPT !.forced = FALSE]
           f == shed_over_budget(b, h)
           told == IF sends THEN Told(g, a.kept, exact) ELSE g
           shown == Shed(a.e, f, told)
           K == [known EXCEPT ![m] = shown]
           size == d.wire.size
           w == IF sends THEN [d.wire EXCEPT !.size = Folded(size, a.kept)] ELSE d.wire
<1>3. ev' = [ev EXCEPT ![m] = f] /\ wire' = [wire EXCEPT ![m] = w]
      /\ known' = Aged([known EXCEPT ![m] = Shed(a.e, ev'[m], told)])
  BY <1>2, Zenon DEF Settle
<1>4. ev \in [Market -> MarketEvents] /\ wire \in [Market -> AnyWire] /\ known \in [Market -> AnyMarks]
  BY DEF RaceInv, Markets, GraveInv
<1>5. /\ ev'[m] = f /\ wire'[m] = w /\ known' = Aged(K)
      /\ \A x \in Market \ {m} : K[x] = known[x] /\ ev'[x] = ev[x] /\ wire'[x] = wire[x]
  <2> HIDE DEF f, w, told
  <2>1. ev'[m] = f /\ wire'[m] = w
    BY <1>3, <1>4
  <2>2. known' = Aged(K)
    BY <1>3, <2>1, Zenon
  <2> HIDE DEF shown
  <2> QED BY <1>3, <1>4, <2>1, <2>2
<1>6. /\ d.known \in [O -> Marks]
      /\ \A o \in O : Laid(log, m, o, d.ev, now, clock, d.known[o], size[o])
  BY <1>2, DischargedLaid
<1>7. /\ IsFiniteSet(O) /\ Sound(O, d.ev) /\ d.ev \in Events(O) /\ e \in Events(O) /\ a.e \in Events(O)
      /\ size \in [O -> Nat] /\ Sound(O, e) /\ Sound(O, a.e) /\ a.kept \in Seq(OrderEvents(O))
      /\ d.wire \in Wires(m)
  BY <1>2, OrdersFinite DEF Agree, Wires, Sound
<1>8. fr \in Stamps /\ cap \in Nat
  BY <1>1, FrontierUp, GuardAssumption DEF cap
<1>9. st <= ts
  <2> DEFINE y == IF clock'.newest_ts = None THEN cap ELSE clock'.newest_ts
  <2>1. y \in Nat
    BY <1>1, <1>8 DEF ClockStates, Stamps
  <2>2. st = IF ts < y THEN ts ELSE y
    BY <1>2, Zenon DEF stamp, Least
  <2> HIDE DEF y
  <2> QED BY <2>1, <2>2
<1>10. Faded(e, d.ev, fr) /\ (fr = None => e = d.ev)
  <2> DEFINE q == d.ev
  <2>1. e = forget_expired(q, fr) /\ Sound(O, q) /\ IsFiniteSet(O)
    BY <1>2, <1>7
  <2> HIDE DEF fr, q, O
  <2>2. Faded(e, q, fr) /\ (fr = None => e = q)
    BY ONLY <2>1, ExpiredForgotten
  <2> QED BY <2>2 DEF q
<1>11. /\ Sound(O, f) /\ Fewer(f, b) /\ b.resting = a.e.resting /\ b.seen = a.e.seen /\ f \in Events(O)
  <2>1. Sound(O, b) /\ b.resting = a.e.resting
    BY <1>7, ForcedSet
  <2>2. b.seen = a.e.seen
    BY <1>7 DEF Events
  <2>3. Sound(O, f) /\ Fewer(f, b)
    <3> HIDE DEF b, O
    <3> QED BY <1>2, <1>7, <2>1, BudgetShed
  <2> QED BY <2>1, <2>2, <2>3 DEF Sound
<1>12. g \in [O -> Marks] /\ \A o \in O : g[o] =
          IF Tomb(d.ev.resting, o) # -1 /\ Tomb(e.resting, o) = -1 /\ InWin(d.ev, o, now)
             /\ d.known[o] = "buried" THEN "excused" ELSE d.known[o]
  <2>1. DOMAIN d.known = O
    BY <1>6
  <2>2. g = [o \in O |-> IF Removed(d.ev, o) /\ ~Removed(e, o) /\ InWindow(e, o) /\ d.known[o] = "buried"
                         THEN "excused" ELSE d.known[o]]
    BY <2>1 DEF Outlived
  <2>3. ASSUME NEW o \in O
        PROVE  /\ Removed(d.ev, o) <=> Tomb(d.ev.resting, o) # -1
               /\ Removed(e, o) <=> Tomb(e.resting, o) # -1
               /\ InWindow(e, o) <=> InWin(d.ev, o, now)
    <3>1. e.seen = d.ev.seen
      BY <1>10 DEF Faded
    <3>2. InWin(e, o, now) <=> InWin(d.ev, o, now)
      BY <1>1, <1>7, <3>1, SameWindow
    <3>3. InWindow(e, o) <=> InWin(e, o, now)
      BY DEF InWindow, InWin, Evs, Rm
    <3> QED BY <1>7, <3>2, <3>3, TombStands
  <2> HIDE DEF g, O
  <2>4. g \in [O -> Marks]
    BY <1>6, <2>2 DEF Marks
  <2> QED BY <2>2, <2>3, <2>4
<1> HIDE DEF g
<1>13. told \in [O -> Marks] /\ \A o \in O :
         /\ told[o] = IF g[o] \in Final THEN g[o]
                      ELSE IF Rm(o) \in Range(a.kept) THEN (IF exact THEN "buried" ELSE "excused") ELSE told[o]
         /\ g[o] \notin Final /\ Rm(o) \notin Range(a.kept) => told[o] \notin Final
  <2>0. DOMAIN a.kept = 1..Len(a.kept)
    BY <1>7
  <2>1. \A o \in O : Rm(o) \in Range(a.kept) <=> \E j \in 1..Len(a.kept) : a.kept[j] = Rm(o)
    BY <2>0 DEF Range
  <2>2. CASE sends
    <3>1. told = Told(g, a.kept, exact)
      BY <2>2
    <3>2. Told(g, a.kept, exact) \in [O -> Marks] /\ Noted(g, Told(g, a.kept, exact), O, a.kept, Len(a.kept), exact)
      <4>1. exact \in BOOLEAN
        OBVIOUS
      <4> DEFINE kept == a.kept
      <4>2. kept \in Seq(OrderEvents(O)) /\ g \in [O -> Marks]
        BY <1>7, <1>12
      <4> HIDE DEF exact, kept, O
      <4>3. Told(g, kept, exact) \in [O -> Marks] /\ Noted(g, Told(g, kept, exact), O, kept, Len(kept), exact)
        BY ONLY <4>1, <4>2, ToldNotes
      <4> QED BY <4>3 DEF kept
    <3> HIDE DEF told, exact
    <3>3. told \in [O -> Marks] /\ Noted(g, told, O, a.kept, Len(a.kept), exact)
      BY <3>1, <3>2
    <3>4. "no" \notin Final /\ "rests" \notin Final
      BY DEF Final
    <3> QED BY <2>1, <3>3, <3>4 DEF Noted
  <2>3. CASE ~sends
    <3>1. told = g
      BY <2>3
    <3>2. ASSUME NEW o \in O PROVE Rm(o) \notin Range(a.kept)
      <4> SUFFICES ASSUME NEW j \in 1..Len(a.kept), a.kept[j] = Rm(o) PROVE FALSE
        BY <2>1
      <4>1. a.kept # <<>>
        OBVIOUS
      <4>2. SafeToDrop(a.e.forced, a.kept)
        BY <2>3, <4>1
      <4>3. a.kept[j].size # 0
        BY <4>2 DEF SafeToDrop
      <4> QED BY <4>3 DEF Rm
    <3> HIDE DEF told
    <3> QED BY <1>12, <3>1, <3>2
  <2> QED BY <2>2, <2>3
<1>14. shown \in [O -> Marks] /\ \A o \in O : shown[o] =
          IF Tomb(a.e.resting, o) # -1 /\ Tomb(f.resting, o) = -1 /\ told[o] = "buried" THEN "excused" ELSE told[o]
  <2> HIDE DEF told, f
  <2>1. DOMAIN told = O
    BY <1>13
  <2>2. shown = [o \in O |-> IF Removed(a.e, o) /\ ~Removed(f, o) /\ told[o] = "buried" THEN "excused" ELSE told[o]]
    BY <2>1 DEF Shed
  <2>3. \A o \in O : (Removed(a.e, o) <=> Tomb(a.e.resting, o) # -1) /\ (Removed(f, o) <=> Tomb(f.resting, o) # -1)
    BY <1>7, <1>11, TombStands
  <2> HIDE DEF shown, O
  <2>4. shown \in [O -> Marks]
    BY <1>13, <2>2 DEF Marks
  <2> QED BY <2>2, <2>3, <2>4
<1>15. K \in [Market -> AnyMarks] /\ K[m] = shown
  <2> HIDE DEF shown
  <2>1. shown \in AnyMarks
    BY <1>14 DEF AnyMarks
  <2> QED BY <1>4, <2>1
<1> HIDE DEF f, shown, told, K, b
<1>16. ASSUME NEW o \in O
       PROVE  /\ NotBack(clock, clock') /\ shown[o] = "buried" =>
                   /\ w.size[o] = 0
                   /\ Grave(l, m, o, Tomb(f.resting, o), InWin(f, o, now), fr)
              /\ Tomb(f.resting, o) # -1 => shown[o] \in Final
  <2> DEFINE T1 == Tomb(d.ev.resting, o)
             T2 == Tomb(e.resting, o)
             T3 == Tomb(a.e.resting, o)
             T4 == Tomb(f.resting, o)
             W1 == InWin(d.ev, o, now)
             W3 == InWin(a.e, o, now)
             W4 == InWin(f, o, now)
             k1 == d.known[o]
             k2 == g[o]
             k3 == told[o]
             k4 == shown[o]
             z1 == size[o]
             z3 == w.size[o]
             kept == a.kept
             R == Rm(o) \in Range(kept)
             late == fr # None /\ st < fr
  <2>1. /\ k1 = "buried" => z1 = 0 /\ Grave(log, m, o, T1, W1, frontier(clock))
        /\ T1 # -1 => k1 \in Final
    BY <1>6 DEF Laid
  <2>2. /\ T1 = -1 \/ T1 \in Nat
        /\ T2 = -1 \/ T2 \in Nat
        /\ T3 = -1 \/ T3 \in Nat
        /\ W1 \in BOOLEAN /\ W3 \in BOOLEAN /\ W4 \in BOOLEAN
    <3>1. W1 \in BOOLEAN /\ W3 \in BOOLEAN /\ W4 \in BOOLEAN
      BY DEF InWin
    <3>2. /\ T1 = -1 \/ T1 \in Nat
          /\ T2 = -1 \/ T2 \in Nat
          /\ T3 = -1 \/ T3 \in Nat
      BY <1>7, TombStands
    <3> QED BY <3>1, <3>2
  <2>3. T2 = T1 \/ (T2 = -1 /\ fr # None /\ T1 < fr)
    BY <1>10 DEF Faded
  <2>4. /\ k2 = IF T1 # -1 /\ T2 = -1 /\ W1 /\ k1 = "buried" THEN "excused" ELSE k1
        /\ k3 = IF k2 \in Final THEN k2
                ELSE IF R THEN (IF exact THEN "buried" ELSE "excused") ELSE k3
        /\ k2 \notin Final /\ ~R => k3 \notin Final
        /\ k4 = IF T3 # -1 /\ T4 = -1 /\ k3 = "buried" THEN "excused" ELSE k3
    BY <1>12, <1>13, <1>14
  <2>5. T4 \in {T3, -1} /\ (W4 <=> W3)
    <3>1. f.seen = a.e.seen /\ T4 \in {T3, -1}
      BY <1>11 DEF Fewer
    <3> QED BY <1>1, <1>7, <1>11, <3>1, SameWindow
  <2>6. W1 <=> InWin(e, o, now)
    <3>1. e.seen = d.ev.seen
      BY <1>10 DEF Faded
    <3> QED BY <1>1, <1>7, <3>1, SameWindow
  <2>7. late => T3 = T2 /\ ~R /\ (W3 <=> W1) /\ z3 = z1
    <3> SUFFICES ASSUME late PROVE T3 = T2 /\ ~R /\ (W3 <=> W1) /\ z3 = z1
      OBVIOUS
    <3>1. a = [e |-> e, kept |-> <<>>]
      BY <1>2
    <3>2. a.e = e /\ a.kept = <<>>
      BY <3>1
    <3>3. ~sends /\ Range(<<>>) = {}
      BY <3>2 DEF Range
    <3>4. z3 = z1
      BY <3>3
    <3> QED BY <2>6, <3>2, <3>3, <3>4
  <2>8. ~late => Heard(e, a, c, n, now, st)
    <3> SUFFICES ASSUME ~late PROVE Heard(e, a, c, n, now, st)
      OBVIOUS
    <3>1. a = Admitted(e, c, p, st)
      BY <1>2
    <3>2. /\ IsFiniteSet(O) /\ Sound(O, e) /\ c \in Seq(OrderEvents(O)) /\ p \in Path /\ now \in Nat
          /\ st \in Nat
      BY <1>1, <1>2, <1>7
    <3> HIDE DEF O
    <3>3. Heard(e, Admitted(e, c, p, st), c, Len(c), now, st)
      BY ONLY <3>2, BatchHeard
    <3> QED BY <3>1, <3>3
  <2>9. ~late => /\ T3 = IF T2 = -1 /\ R THEN st ELSE T2
                 /\ W3 => W1 \/ R
                 /\ Range(kept) \subseteq {c[j] : j \in 1..n}
                 /\ \A j \in 1..n : c[j] = Rm(o) => W1 \/ R
    <3> SUFFICES ASSUME ~late
                 PROVE  /\ T3 = IF T2 = -1 /\ R THEN st ELSE T2
                        /\ W3 => W1 \/ R
                        /\ Range(kept) \subseteq {c[j] : j \in 1..n}
                        /\ \A j \in 1..n : c[j] = Rm(o) => W1 \/ R
      OBVIOUS
    <3>1. Heard(e, a, c, n, now, st)
      BY <2>8
    <3>2. /\ \A x : Tomb(a.e.resting, x) =
                     IF Tomb(e.resting, x) = -1 /\ Rm(x) \in Range(kept) THEN st ELSE Tomb(e.resting, x)
          /\ Evs(expire(a.e, now).seen) \subseteq Evs(expire(e, now).seen) \cup Range(kept)
          /\ Range(kept) \subseteq {c[j] : j \in 1..n}
          /\ \A j \in 1..n : c[j].size = 0 => c[j] \in Evs(expire(e, now).seen) \cup Range(kept)
      BY <3>1 DEF Heard
    <3>3. W3 => W1 \/ R
      BY <2>6, <3>2 DEF InWin
    <3>4. ASSUME NEW j \in 1..n, c[j] = Rm(o) PROVE W1 \/ R
      <4>1. c[j].size = 0
        BY <3>4 DEF Rm
      <4>2. Rm(o) \in Evs(expire(e, now).seen) \cup Range(kept)
        BY <3>2, <3>4, <4>1
      <4> QED BY <2>6, <4>2 DEF InWin
    <3> QED BY <3>2, <3>3, <3>4
  <2>10. (\A x \in Range(kept) : x.o # o) => z3 = z1
    <3> SUFFICES ASSUME \A x \in Range(kept) : x.o # o PROVE z3 = z1
      OBVIOUS
    <3>1. CASE sends
      <4>1. Folded(size, kept)[o] = size[o]
        <5>1. /\ size \in [O -> Nat] /\ kept \in Seq(OrderEvents(O)) /\ o \in O
              /\ \A x \in Range(kept) : x.o # o
          BY <1>7
        <5> HIDE DEF size, kept, O
        <5> QED BY ONLY <5>1, FoldedOther
      <4>2. w.size = Folded(size, kept)
        BY <1>7, <3>1 DEF Wires
      <4> QED BY <4>1, <4>2
    <3>2. CASE ~sends
      BY <3>2
    <3> QED BY <3>1, <3>2
  <2>11. T4 # -1 => z3 = 0
    <3> SUFFICES ASSUME T4 # -1 PROVE z3 = 0
      OBVIOUS
    <3>1. Agree(m, ev'[m], wire'[m])
      BY DEF RaceInv, Markets
    <3>2. Agree(m, f, w)
      BY <1>5, <3>1
    <3>3. o \in Gone(f.resting)
      BY DEF Tomb
    <3> HIDE DEF w
    <3> QED BY <3>2, <3>3 DEF Agree
  <2> DEFINE G1 == Grave(l, m, o, T1, W1, fr)
             G2 == Grave(l, m, o, T2, W1, fr)
             G3 == Grave(l, m, o, T3, W3, fr)
  <2>12. NotBack(clock, clock') /\ k1 = "buried" => G1
    <3> SUFFICES ASSUME NotBack(clock, clock'), k1 = "buried" PROVE G1
      OBVIOUS
    <3>1. Grave(log, m, o, T1, W1, frontier(clock))
      BY <2>1
    <3> HIDE DEF T1, W1, l
    <3> QED BY <1>1, <2>2, <3>1, GraveStays
  <2>13. NotBack(clock, clock') /\ k2 = "buried" => z1 = 0 /\ G2
    <3> SUFFICES ASSUME NotBack(clock, clock'), k2 = "buried" PROVE z1 = 0 /\ G2
      OBVIOUS
    <3>1. k1 = "buried" /\ ~(T1 # -1 /\ T2 = -1 /\ W1)
      <4> HIDE DEF T1, T2, W1, k1, k2
      <4> QED BY <2>4
    <3>2. G1 /\ z1 = 0
      BY <2>1, <2>12, <3>1
    <3> HIDE DEF T1, T2, W1, l, fr
    <3>3. G2
      BY <1>1, <1>8, <2>2, <2>3, <3>1, <3>2, ForgottenGrave
    <3> QED BY <3>2, <3>3
  <2>14. T2 # -1 => k2 \in Final
    <3>1. T2 # -1 => T1 # -1
      BY <2>3
    <3>2. "excused" \in Final
      BY DEF Final
    <3> HIDE DEF T1, T2, W1, k1, k2
    <3> QED BY <2>1, <2>4, <3>1, <3>2
  <2>15. /\ NotBack(clock, clock') /\ k3 = "buried" => (T3 # -1 \/ z3 = 0) /\ G3
         /\ T3 # -1 => k3 \in Final
    <3>1. CASE late
      <4>1. T3 = T2 /\ ~R /\ (W3 <=> W1) /\ z3 = z1
        BY <2>7, <3>1
      <4>2. (T3 # -1 => k3 \in Final) /\ (k3 = "buried" => k2 = "buried")
        <5>1. "buried" \in Final
          BY DEF Final
        <5> HIDE DEF T1, T2, T3, W1, k1, k2, k3, R
        <5> QED BY <2>4, <2>14, <4>1, <5>1
      <4>3. G2 => G3
        <5> HIDE DEF T2, T3, W1, W3
        <5> QED BY <4>1 DEF Grave
      <4> HIDE DEF G2, G3, T2, T3, W1, W3, z1, z3, k2, k3, R
      <4> QED BY <2>13, <4>1, <4>2, <4>3
    <3>2. CASE ~late
      <4> DEFINE P == pos[p]
                 KK == Range(kept)
      <4>1. Span(l, m, P, n, c, st, exact, fr)
        <5>1. /\ l \in Seq(VenueEvents) /\ Orderly(l) /\ P \in Nat /\ P + n <= Len(l)
              /\ (\A i \in P + 1 .. P + n : l[i].m = m)
          BY <1>1
        <5>2. \A i \in 1..n : c[i] = [o |-> l[P + i].o, size |-> l[P + i].size]
          OBVIOUS
        <5>3. st \in Nat /\ ts = l[P + n].ts
          BY <1>2
        <5>4. st <= l[P + n].ts /\ exact \in BOOLEAN /\ (exact => st = l[P + n].ts)
          BY <1>9, <5>3
        <5>5. fr \in Stamps /\ (fr # None => st >= fr)
          <6>1. fr # None => fr \in Nat
            BY <1>8 DEF Stamps
          <6>2. fr # None => ~(st < fr)
            BY <3>2
          <6> HIDE DEF fr
          <6> QED BY <1>8, <5>3, <6>1, <6>2
        <5> HIDE DEF l, P, fr, exact
        <5> QED BY <5>1, <5>2, <5>3, <5>4, <5>5 DEF Span
      <4>2. Weighed(o, n, c, st, KK, T2, T3, W1, W3)
        BY <2>2, <2>9, <3>2 DEF Weighed
      <4>3. Marked(o, KK, exact, k2, k3)
        BY <2>4 DEF Marked
      <4>4. Sized(o, KK, z1, z3)
        BY <2>10 DEF Sized
      <4> HIDE DEF T1, T2, T3, W1, W3, k1, k2, k3, z1, z3, KK, P, l, fr, exact, O, R
      <4>5. ASSUME NotBack(clock, clock') PROVE k3 = "buried" => (T3 # -1 \/ z3 = 0) /\ G3
        <5>1. k2 = "buried" => z1 = 0 /\ Grave(l, m, o, T2, W1, fr)
          BY <2>13, <4>5
        <5> QED BY ONLY <2>14, <4>1, <4>2, <4>3, <4>4, <5>1, BatchGrave
      <4>6. T3 # -1 => k3 \in Final
        <5>1. "buried" \in Final /\ "excused" \in Final
          BY DEF Final
        <5> QED BY <2>14, <4>2, <4>3, <5>1 DEF Weighed, Marked
      <4> QED BY <4>5, <4>6
    <3> QED BY <3>1, <3>2
  <2>16. k4 = "buried" => T4 = T3 /\ k3 = "buried"
    <3> HIDE DEF T3, T4, k3, k4
    <3> QED BY <2>4, <2>5
  <2>17. T4 # -1 => k4 \in Final
    <3> HIDE DEF T3, T4, k3, k4
    <3> QED BY <2>4, <2>5, <2>15
  <2>18. NotBack(clock, clock') /\ k4 = "buried" => z3 = 0 /\ Grave(l, m, o, T4, W4, fr)
    <3> SUFFICES ASSUME NotBack(clock, clock'), k4 = "buried" PROVE z3 = 0 /\ Grave(l, m, o, T4, W4, fr)
      OBVIOUS
    <3>1. (T4 # -1 \/ z3 = 0) /\ Grave(l, m, o, T4, W3, fr)
      BY <2>15, <2>16
    <3>2. Grave(l, m, o, T4, W4, fr)
      <4> HIDE DEF T4, W3, W4
      <4> QED BY <2>5, <3>1 DEF Grave
    <3> QED BY <2>11, <3>1, <3>2
  <2> QED BY <2>17, <2>18
<1> HIDE DEF w
<1> QED BY <1>5, <1>14, <1>15, <1>16

-----------------------------------------------------------------------------
(* The steps.                                                               *)

\* The same log goes on from itself.
LEMMA SameLog == Continues(log, log)
BY DEF Continues

\* An order of a market that a step leaves alone.
LEMMA OrderStays ==
  ASSUME RaceInv, GraveInv, RaceInv', Continues(log, log'), now <= now',
         NEW x \in Market, ev'[x] = ev[x], wire'[x] = wire[x], NEW o \in Order(x), NEW k,
         \/ NotBack(clock, clock') /\ k = known[x][o]
         \/ k # "buried" /\ (known[x][o] \in Final => k \in Final)
  PROVE  Laid(log', x, o, ev'[x], now', clock', k, wire'[x].size[o])
<1> DEFINE l == log
           l2 == log'
           c == clock
           d == clock'
           t == now
           u == now'
           e == ev[x]
           j == known[x][o]
           z == wire[x].size[o]
           O == Order(x)
<1>1. /\ l \in Seq(VenueEvents) /\ l2 \in Seq(VenueEvents) /\ c \in ClockStates /\ d \in ClockStates
      /\ t \in Nat /\ u \in Nat /\ t <= u /\ Continues(l, l2)
  BY DEF RaceInv, RaceType
<1>2. e \in Events(O)
  BY DEF RaceInv, Markets, Agree, Sound
<1>3. Laid(l, x, o, e, t, c, j, z)
  BY DEF GraveInv
<1>4. (NotBack(c, d) /\ k = j) \/ (k # "buried" /\ (j \in Final => k \in Final))
  OBVIOUS
<1> HIDE DEF l, l2, c, d, t, u, e, j, z, O
<1>5. Laid(l2, x, o, e, u, d, k, z)
  BY ONLY <1>1, <1>2, <1>3, <1>4, LaidStays
<1> QED BY <1>5 DEF l2, e, u, d, z

\* A step that at most adds to the log.
LEMMA QuietStays ==
  ASSUME RaceInv, GraveInv, RaceInv', Continues(log, log'), UNCHANGED <<now, clock, ev, wire, known>>
  PROVE  GraveInv'
<1>1. now <= now' /\ clock \in ClockStates
  BY DEF RaceInv, RaceType
<1>2. NotBack(clock, clock')
  BY <1>1 DEF NotBack, ClockStates, Stamps
<1>3. Orderly(log)'
  <2>1. Orderly(log')
    BY DEF Continues, GraveInv
  <2> QED BY <2>1 DEF Orderly
<1>4. ASSUME NEW x \in Market, NEW o \in Order(x)
      PROVE  Laid(log', x, o, ev'[x], now', clock', known'[x][o], wire'[x].size[o])
  BY <1>1, <1>2, OrderStays
<1> QED BY <1>3, <1>4 DEF GraveInv

\* An order whose market starts anew.
LEMMA OrderAnew ==
  ASSUME NEW l, NEW m, NEW o, NEW t, NEW c, NEW z
  PROVE  Laid(l, m, o, NewEvents, t, c, "no", z)
<1>1. Tomb(NewEvents.resting, o) = -1
  BY DEF Tomb, Gone, NewEvents
<1> QED BY <1>1 DEF Laid

\* Every market starts anew.
LEMMA AllAnew ==
  ASSUME GraveInv, UNCHANGED <<now, log>>, ev' = [m \in Market |-> NewEvents],
         known' = [m \in Market |-> Forgiven(known[m])]
  PROVE  GraveInv'
<1>1. \A m \in Market : Forgiven(known[m]) = [o \in Order(m) |-> "no"]
  BY DEF GraveInv, Forgiven
<1>2. \A m \in Market : known'[m] \in [Order(m) -> Marks] /\ \A o \in Order(m) : known'[m][o] = "no"
  BY <1>1 DEF Marks
<1>3. known' \in [Market -> AnyMarks]
  BY <1>2 DEF AnyMarks
<1>4. Orderly(log)'
  BY DEF GraveInv, Orderly
<1>5. ASSUME NEW m \in Market, NEW o \in Order(m)
      PROVE  Laid(log', m, o, ev'[m], now', clock', known'[m][o], wire'[m].size[o])
  BY <1>2, OrderAnew
<1> QED BY <1>2, <1>3, <1>4, <1>5 DEF GraveInv

\* One does.
LEMMA OneAnew ==
  ASSUME RaceInv, GraveInv, RaceInv', UNCHANGED <<now, log, clock>>, NEW m \in Market,
         ev' = [ev EXCEPT ![m] = NewEvents], known' = [known EXCEPT ![m] = Forgiven(@)],
         \A x \in Market \ {m} : wire'[x] = wire[x]
  PROVE  GraveInv'
<1>1. Forgiven(known[m]) = [o \in Order(m) |-> "no"]
  BY DEF GraveInv, Forgiven
<1>2. /\ ev \in [Market -> MarketEvents] /\ known \in [Market -> AnyMarks] /\ now <= now'
      /\ clock \in ClockStates
  BY DEF RaceInv, Markets, GraveInv, RaceType
<1>3. /\ ev'[m] = NewEvents /\ known'[m] = [o \in Order(m) |-> "no"]
      /\ \A x \in Market \ {m} : ev'[x] = ev[x] /\ known'[x] = known[x]
  BY <1>1, <1>2
<1>4. \A x \in Market : known'[x] \in [Order(x) -> Marks]
  BY <1>3 DEF GraveInv, Marks
<1>5. known' \in [Market -> AnyMarks]
  BY <1>2, <1>4 DEF AnyMarks
<1>6. Orderly(log)'
  BY DEF GraveInv, Orderly
<1>7. NotBack(clock, clock') /\ Continues(log, log')
  <2>1. NotBack(clock, clock')
    BY <1>2 DEF NotBack, ClockStates, Stamps
  <2> QED BY <2>1, SameLog
<1>8. ASSUME NEW x \in Market, NEW o \in Order(x)
      PROVE  Laid(log', x, o, ev'[x], now', clock', known'[x][o], wire'[x].size[o])
  <2>1. CASE x = m
    BY <1>3, <2>1, OrderAnew
  <2>2. CASE x # m
    BY <1>2, <1>3, <1>7, <2>2, OrderStays
  <2> QED BY <2>1, <2>2
<1> QED BY <1>4, <1>5, <1>6, <1>8 DEF GraveInv

\* Time passes.
LEMMA TickStays ==
  ASSUME RaceInv, GraveInv, RaceInv', Tick
  PROVE  GraveInv'
<1>1. /\ UNCHANGED <<log, clock, ev, wire, known>> /\ now' = now + 1 /\ now \in Nat /\ now <= now'
      /\ log \in Seq(VenueEvents) /\ clock \in ClockStates
  BY DEF Tick, RaceInv, RaceType
<1>2. NotBack(clock, clock') /\ Continues(log, log')
  <2>1. NotBack(clock, clock')
    BY <1>1 DEF NotBack, ClockStates, Stamps
  <2> QED BY <1>1, <2>1, SameLog
<1>3. Orderly(log)'
  <2>1. ASSUME NEW i \in 1..Len(log) PROVE log[i].ts <= now'
    <3>1. log[i] \in VenueEvents /\ log[i].ts <= now
      BY <1>1 DEF GraveInv, Orderly
    <3> QED BY <1>1, <3>1, VenueEvent
  <2> QED BY <1>1, <2>1 DEF GraveInv, Orderly
<1>4. ASSUME NEW x \in Market, NEW o \in Order(x)
      PROVE  Laid(log', x, o, ev'[x], now', clock', known'[x][o], wire'[x].size[o])
  BY <1>1, <1>2, OrderStays
<1> QED BY <1>1, <1>3, <1>4 DEF GraveInv

\* Recover: the book that goes to the wire is the path's, and an order it names rests.
LEMMA RecoverLays ==
  ASSUME RaceInv, GraveInv, RaceInv', NEW p \in Path, NEW m \in Market, Recover(p, m)
  PROVE  GraveInv'
<1>1. RaceType /\ Markets /\ UNCHANGED <<now, log, clock>> /\ now \in Nat /\ clock \in ClockStates
  BY DEF RaceInv, RaceType, Recover
<1>2. CASE PeerServing(p, m)
  <2>1. UNCHANGED <<now, clock, ev, wire, known>> /\ Continues(log, log')
    BY <1>1, <1>2, SameLog DEF Recover
  <2> QED BY <2>1, QuietStays
<1>3. CASE ~PeerServing(p, m)
  <2> DEFINE size == BookAt(m, pos[p])
             e == ev[m]
             f == rebaselined(e, OrdersOf[m], size, seed_ts)
             w == [base |-> TRUE, size |-> size]
             g == Named(known[m], size)
  <2>1. ev' = [ev EXCEPT ![m] = f] /\ wire' = [wire EXCEPT ![m] = w] /\ known' = [known EXCEPT ![m] = g]
    BY <1>3, Zenon DEF Recover, clear_led_rebaseline
  <2>2. size \in [Order(m) -> Nat]
    <3>1. pos[p] \in Nat /\ pos[p] <= Len(log) /\ log \in Seq(VenueEvents)
      BY <1>1 DEF RaceType
    <3> QED BY <3>1, BookTyped
  <2>3. Sound(Order(m), e) /\ seed_ts \in Nat /\ f = rebaselined(e, OrdersOf[m], size, seed_ts)
        /\ w.size = size
    BY <1>1, SeedTyped DEF Markets, Agree
  <2>4. known[m] \in [Order(m) -> Marks]
    BY DEF GraveInv
  <2> HIDE DEF size
  <2>5. g = [o \in Order(m) |-> IF size[o] # 0 THEN "rests" ELSE known[m][o]]
    BY <2>4 DEF Named
  <2>6. g \in [Order(m) -> Marks]
    BY <2>4, <2>5 DEF Marks
  <2>7. /\ ev \in [Market -> MarketEvents] /\ wire \in [Market -> AnyWire]
        /\ known \in [Market -> AnyMarks]
    BY <1>1 DEF Markets, GraveInv
  <2> HIDE DEF f, w, g
  <2>8. /\ ev'[m] = f /\ wire'[m] = w /\ known'[m] = g
        /\ \A x \in Market \ {m} : ev'[x] = ev[x] /\ wire'[x] = wire[x] /\ known'[x] = known[x]
    BY <2>1, <2>7
  <2>9. \A x \in Market : known'[x] \in [Order(x) -> Marks]
    BY <2>6, <2>8 DEF GraveInv
  <2>10. known' \in [Market -> AnyMarks]
    BY <2>1, <2>7, <2>9 DEF AnyMarks
  <2>11. Orderly(log)'
    BY <1>1 DEF GraveInv, Orderly
  <2>12. NotBack(clock, clock') /\ Continues(log, log') /\ now <= now'
    <3>1. NotBack(clock, clock')
      BY <1>1 DEF NotBack, ClockStates, Stamps
    <3> QED BY <1>1, <3>1, SameLog
  <2>13. ASSUME NEW o \in Order(m) PROVE Laid(log, m, o, f, now, clock, g[o], size[o])
    <3> DEFINE k == known[m][o]
               z == wire[m].size[o]
    <3>1. Laid(log, m, o, e, now, clock, k, z)
      BY DEF GraveInv
    <3>2. g[o] = IF size[o] # 0 THEN "rests" ELSE k
      BY <2>5
    <3> HIDE DEF e, k, z
    <3>3. Laid(log, m, o, f, now, clock, IF size[o] # 0 THEN "rests" ELSE k, size[o])
      BY ONLY <1>1, <2>2, <2>3, <3>1, m \in Market, o \in Order(m), BaselineLaid
    <3> QED BY <3>2, <3>3
  <2>14. ASSUME NEW x \in Market, NEW o \in Order(x)
         PROVE  Laid(log', x, o, ev'[x], now', clock', known'[x][o], wire'[x].size[o])
    <3>1. CASE x = m
      BY <1>1, <2>3, <2>8, <2>13, <3>1
    <3>2. CASE x # m
      BY <2>8, <2>12, <3>2, OrderStays
    <3> QED BY <3>1, <3>2
  <2> QED BY <2>9, <2>10, <2>11, <2>14 DEF GraveInv
<1> QED BY <1>2, <1>3

\* Relay: a batch of one market.
LEMMA RelayLays ==
  ASSUME RaceInv, GraveInv, RaceInv', NEW p \in Path, NEW m \in Market, NEW n \in Nat, n >= 1,
         Passed(p, m, n)
  PROVE  GraveInv'
<1>1. /\ Reaches(log', p, m, n) /\ UNCHANGED now /\ Continues(log, log')
      /\ now \in Nat /\ clock \in ClockStates /\ clock' \in ClockStates
  BY DEF Passed, Reaches, RaceInv, RaceType
<1>2. CASE UNCHANGED <<clock, ev, wire, known>>
  BY <1>1, <1>2, QuietStays
<1>3. CASE ~UNCHANGED <<clock, ev, wire, known>>
  <2>1. PICK c, ts : /\ c \in Seq(OrderEvents(Order(m))) /\ Len(c) = n /\ ts \in Nat
                     /\ \A i \in 1..n : c[i] = [o |-> log'[pos[p] + i].o, size |-> log'[pos[p] + i].size]
                     /\ ts = log'[pos[p] + n].ts
                     /\ Course(p, m, c, ts)
    BY <1>3, Zenon DEF Passed
  <2>2. PICK K : /\ known' = Aged(K) /\ K \in [Market -> AnyMarks] /\ K[m] \in [Order(m) -> Marks]
                 /\ (\A x \in Market \ {m} : K[x] = known[x] /\ ev'[x] = ev[x] /\ wire'[x] = wire[x])
                 /\ \A o \in Order(m) :
                      /\ NotBack(clock, clock') /\ K[m][o] = "buried" =>
                           /\ wire'[m].size[o] = 0
                           /\ Grave(log', m, o, Tomb(ev'[m].resting, o), InWin(ev'[m], o, now), frontier(clock'))
                      /\ Tomb(ev'[m].resting, o) # -1 => K[m][o] \in Final
    BY <1>1, <2>1, BatchLaid
  <2>3. \A x \in Market : K[x] \in [Order(x) -> Marks]
    BY <2>2 DEF GraveInv
  <2>4. /\ known' \in [Market -> AnyMarks]
        /\ \A x \in Market : /\ known'[x] \in [Order(x) -> Marks]
                              /\ \A o \in Order(x) :
                                   \/ NotBack(clock, clock') /\ known'[x][o] = K[x][o]
                                   \/ known'[x][o] # "buried" /\ (K[x][o] \in Final => known'[x][o] \in Final)
    <3>1. /\ Aged(K) \in [Market -> AnyMarks]
          /\ \A x \in Market : /\ Aged(K)[x] \in [Order(x) -> Marks]
                                /\ \A o \in Order(x) :
                                     \/ NotBack(clock, clock') /\ Aged(K)[x][o] = K[x][o]
                                     \/ Aged(K)[x][o] # "buried" /\ (K[x][o] \in Final => Aged(K)[x][o] \in Final)
      BY <1>1, <2>2, <2>3, AgedMarks
    <3> DEFINE A == Aged(K)
    <3>2. known' = A
      BY <2>2
    <3> HIDE DEF A
    <3> QED BY <3>1, <3>2 DEF A
  <2>5. Orderly(log)'
    <3>1. Orderly(log')
      BY <1>1 DEF Continues, GraveInv
    <3> QED BY <1>1, <3>1 DEF Orderly
  <2>6. ASSUME NEW x \in Market, NEW o \in Order(x)
        PROVE  Laid(log', x, o, ev'[x], now', clock', known'[x][o], wire'[x].size[o])
    <3> DEFINE k == known'[x][o]
    <3>0. \/ NotBack(clock, clock') /\ k = K[x][o]
          \/ k # "buried" /\ (K[x][o] \in Final => k \in Final)
      BY <2>4
    <3> HIDE DEF k
    <3>1. CASE x = m
      <4>1. k = "buried" => NotBack(clock, clock') /\ K[m][o] = "buried"
        BY <3>0, <3>1
      <4>2. K[m][o] \in Final => k \in Final
        BY <3>0, <3>1
      <4>3. Laid(log', m, o, ev'[m], now, clock', k, wire'[m].size[o])
        BY <2>2, <3>1, <4>1, <4>2 DEF Laid
      <4> QED BY <1>1, <3>1, <4>3 DEF k
    <3>2. CASE x # m
      <4>1. ev'[x] = ev[x] /\ wire'[x] = wire[x] /\ K[x] = known[x] /\ now <= now'
        BY <1>1, <2>2, <3>2
      <4>2. \/ NotBack(clock, clock') /\ k = known[x][o]
            \/ k # "buried" /\ (known[x][o] \in Final => k \in Final)
        BY <3>0, <4>1
      <4>3. Laid(log', x, o, ev'[x], now', clock', k, wire'[x].size[o])
        BY <1>1, <4>1, <4>2, OrderStays
      <4> QED BY <4>3 DEF k
    <3> QED BY <3>1, <3>2
  <2> QED BY <2>4, <2>5, <2>6 DEF GraveInv
<1> QED BY <1>2, <1>3

\* Every step of the race.
LEMMA GraveStep ==
  ASSUME RaceInv, GraveInv, RaceInv', [Next]_vars
  PROVE  GraveInv'
<1>1. CASE Tick
  BY <1>1, TickStays
<1>2. CASE EndOfSession
  BY <1>2, AllAnew DEF EndOfSession
<1>3. CASE ForgetChannel
  BY <1>3, AllAnew DEF ForgetChannel
<1>4. ASSUME NEW p \in Path, Depart(p) PROVE GraveInv'
  <2>1. UNCHANGED <<now, clock, ev, wire, known>> /\ Continues(log, log')
    BY <1>4, SameLog DEF Depart
  <2> QED BY <2>1, QuietStays
<1>5. ASSUME NEW m \in Market, DropMarket(m) PROVE GraveInv'
  <2>1. /\ UNCHANGED <<now, log, clock>> /\ ev' = [ev EXCEPT ![m] = NewEvents]
        /\ known' = [known EXCEPT ![m] = Forgiven(@)] /\ wire' = [wire EXCEPT ![m] = NewWire(m)]
    BY <1>5 DEF DropMarket, drop_book_events
  <2>2. \A x \in Market \ {m} : wire'[x] = wire[x]
    BY <2>1 DEF RaceInv, Markets
  <2> QED BY <2>1, <2>2, OneAnew
<1>6. ASSUME NEW p \in Path, NEW m \in Market, InstrumentReset(p, m) PROVE GraveInv'
  <2>1. /\ UNCHANGED <<now, log, clock, wire>> /\ ev' = [ev EXCEPT ![m] = NewEvents]
        /\ known' = [known EXCEPT ![m] = Forgiven(@)]
    BY <1>6 DEF InstrumentReset, drop_book_events
  <2> QED BY <2>1, OneAnew
<1>7. ASSUME NEW p \in Path, NEW m \in Market, Gap(p, m) PROVE GraveInv'
  <2>1. UNCHANGED <<now, clock, ev, wire, known>> /\ log' \in LogsFor(p, m, 1)
    BY <1>7 DEF Gap
  <2>2. PICK l : l = log' /\ l \in LogsFor(p, m, 1)
    BY <2>1
  <2>3. Reaches(l, p, m, 1)
    BY <2>2, LogsGrow DEF RaceInv, RaceType
  <2>4. Continues(log, log')
    BY <2>2, <2>3 DEF Reaches
  <2> QED BY <2>1, <2>4, QuietStays
<1>8. ASSUME NEW p \in Path, NEW m \in Market, NEW n \in 1..MaxBatch, Relay(p, m, n) PROVE GraveInv'
  <2>1. Passed(p, m, n)
    BY <1>8, RelayKeeps
  <2>2. n \in Nat /\ n >= 1
    BY RaceAssumption
  <2> QED BY <2>1, <2>2, RelayLays
<1>9. CASE UNCHANGED vars
  <2>1. UNCHANGED <<now, clock, ev, wire, known>> /\ Continues(log, log')
    BY <1>9, SameLog DEF vars
  <2> QED BY <2>1, QuietStays
<1> QED BY <1>1, <1>2, <1>3, <1>4, <1>5, <1>6, <1>7, <1>8, <1>9, RecoverLays DEF Next

\* emit_order_level_book: an order whose removal reached the wire at its own venue time stays
\* off it through every interleaving of late copies, losses, snapshots, forgetting and resets,
\* for any number of paths, markets and orders: the guard holds the removal, or the frontier
\* is past it and the window lets a late batch deliver the removal with what precedes it.
THEOREM RemovedStaysRemoved == Spec => []NoResurrection
<1>1. Init => GraveInv
  <2> SUFFICES ASSUME Init PROVE GraveInv
    OBVIOUS
  <2>1. log = <<>> /\ ev = [m \in Market |-> NewEvents] /\ known = [m \in Market |-> [o \in Order(m) |-> "no"]]
    BY DEF Init
  <2>2. Orderly(log)
    BY <2>1 DEF Orderly
  <2>3. \A m \in Market : known[m] \in [Order(m) -> Marks] /\ \A o \in Order(m) : known[m][o] = "no"
    BY <2>1 DEF Marks
  <2>4. known \in [Market -> AnyMarks]
    BY <2>1, <2>3 DEF AnyMarks
  <2>5. \A m \in Market : \A o \in Order(m) :
          Laid(log, m, o, ev[m], now, clock, known[m][o], wire[m].size[o])
    BY <2>1, <2>3, OrderAnew
  <2> QED BY <2>2, <2>3, <2>4, <2>5 DEF GraveInv
<1>2. RaceInv /\ RaceInv' /\ GraveInv /\ [Next]_vars => GraveInv'
  BY GraveStep
<1>3. GraveInv => NoResurrection
  BY DEF GraveInv, Laid, NoResurrection
<1> QED BY <1>1, <1>2, <1>3, RaceSafe, PTL DEF Spec

-----------------------------------------------------------------------------
(* The shred forwarder.                                                     *)

ShredType ==
  /\ mode \in {"sigverify", "dedup"} /\ head \in Slot
  /\ slots \subseteq Slot \X {0, 1, 2} /\ tip \in Nat
  /\ epochs \subseteq Nat /\ rpcErrors \in Nat /\ ready \in Int
  /\ refresher \in [epoch : Nat, at : {"poll", "current", "next"}]
  /\ passed \subseteq Slot

\* Inside the window the keys of the winners are those of the shreds that went on.
WindowRemembers ==
  \A s \in Slot :
    /\ s \in passed /\ s >= horizon(tip) => <<s, fingerprint(TRUE)>> \in slots
    /\ <<s, fingerprint(TRUE)>> \in slots => s \in passed

\* The refresher loads the current epoch first, and drops none it still owes.
ScheduleLoaded ==
  /\ refresher.at = "next" => refresher.epoch \in epochs
  /\ ready >= 0 => \A e \in refresher.epoch .. ready + 1 : e \in epochs

ShredInv == ShredType /\ WindowRemembers /\ ScheduleLoaded /\ ForwardedOnce

\* DedupWindow::horizon: the floor of the window is a slot, and it only rises with the tip.
LEMMA HorizonRises ==
  ASSUME NEW t \in Nat, NEW u \in Nat, t <= u
  PROVE  horizon(t) \in Nat /\ horizon(t) <= horizon(u)
BY ShredConstants DEF horizon

\* Epochs are numbered from 0, as slots are.
LEMMA EpochIsNat ==
  ASSUME NEW s \in Nat
  PROVE  EpochOf(s) \in Nat
BY ShredConstants, SMT DEF EpochOf

\* The forwarder starts with an empty window and no schedule.
LEMMA ShredStart == ShredInit => ShredInv
BY ShredConstants DEF ShredInit, ShredInv, ShredType, WindowRemembers, ScheduleLoaded,
  ForwardedOnce, Slot

\* record_winner: the window still remembers every winner whose slot it covers, and gains
\* no key of a shred that did not go on.
LEMMA CopyKeeps ==
  ASSUME ShredInv, NEW s \in Slot, NEW good \in BOOLEAN, Copy(s, good)
  PROVE  ShredInv'
<1> DEFINE fp == fingerprint(good)
<1>1. ShredType /\ WindowRemembers /\ ScheduleLoaded /\ ForwardedOnce
  BY DEF ShredInv
<1>2. fp \in {0, 1, 2} /\ s \in Nat /\ Slot \subseteq Nat
  BY ShredConstants DEF fingerprint, Slot
<1>3. fingerprint(TRUE)' = fingerprint(TRUE)
  BY DEF Copy, fingerprint
<1>4. /\ tip' \in Nat /\ tip <= tip' /\ slots' \subseteq Slot \X {0, 1, 2}
      /\ passed' \subseteq Slot
      /\ \A k \in slots : k[1] >= horizon(tip') => k \in slots'
      /\ \A k \in slots' : k \in slots \/ (Forwards(s, good) /\ k = <<s, fp>>)
      /\ Forwards(s, good) /\ s >= horizon(tip') => <<s, fp>> \in slots'
  BY <1>1, <1>2 DEF Copy, record_winner, ShredType
<1>5. ShredType'
  BY <1>1, <1>4 DEF Copy, ShredType
<1>6. horizon(tip) \in Nat /\ horizon(tip') \in Nat /\ horizon(tip) <= horizon(tip')
  BY <1>1, <1>4, HorizonRises DEF ShredType
<1>7. good => fp = fingerprint(TRUE)
  BY DEF fingerprint
<1>8. ~good /\ Forwards(s, good) => fp # fingerprint(TRUE)
  BY <1>1 DEF fingerprint, Forwards, ShredType
<1>9. WindowRemembers'
  <2> SUFFICES ASSUME NEW x \in Slot
               PROVE  /\ x \in passed' /\ x >= horizon(tip') => <<x, fingerprint(TRUE)>> \in slots'
                      /\ <<x, fingerprint(TRUE)>> \in slots' => x \in passed'
    BY <1>3 DEF WindowRemembers, Slot
  <2> HIDE DEF fp
  <2>1. /\ x \in passed /\ x >= horizon(tip) => <<x, fingerprint(TRUE)>> \in slots
        /\ <<x, fingerprint(TRUE)>> \in slots => x \in passed
    BY <1>1 DEF WindowRemembers
  <2>2. passed' = IF good /\ Forwards(s, good) THEN passed \cup {s} ELSE passed
    BY DEF Copy
  <2>3. x \in passed' /\ x >= horizon(tip') => <<x, fingerprint(TRUE)>> \in slots'
    <3>1. ASSUME x \in passed, x >= horizon(tip') PROVE <<x, fingerprint(TRUE)>> \in slots'
      <4>1. x >= horizon(tip)
        BY <1>2, <1>6, <3>1
      <4>2. <<x, fingerprint(TRUE)>> \in slots /\ <<x, fingerprint(TRUE)>>[1] >= horizon(tip')
        BY <2>1, <3>1, <4>1
      <4> QED BY ONLY <1>4, <4>2
    <3>2. ASSUME good, Forwards(s, good), x = s, x >= horizon(tip')
          PROVE  <<x, fingerprint(TRUE)>> \in slots'
      BY <1>4, <1>7, <3>2
    <3> QED BY <2>2, <3>1, <3>2
  <2>4. <<x, fingerprint(TRUE)>> \in slots' => x \in passed'
    BY <1>4, <1>8, <2>1, <2>2
  <2> QED BY <2>3, <2>4
<1>10. ScheduleLoaded'
  BY <1>1 DEF Copy, ScheduleLoaded
<1>11. twice' = {}
  BY <1>1, <1>7 DEF Copy, WindowRemembers, ForwardedOnce, Forwards
<1>12. good /\ Covered(s) => s \in passed'
  <2> HAVE good /\ Covered(s)
  <2>1. mode = "sigverify" => leader(s)
    BY <1>1 DEF Covered, ScheduleLoaded, leader
  <2>2. CASE <<s, fp>> \in slots
    BY <1>1, <1>7, <2>2 DEF Copy, WindowRemembers
  <2>3. CASE <<s, fp>> \notin slots
    BY <2>1, <2>3 DEF Copy, Forwards
  <2> QED BY <2>2, <2>3
<1>13. lost' = {}
  BY <1>1, <1>12 DEF Copy, ForwardedOnce
<1> QED BY <1>5, <1>9, <1>10, <1>11, <1>13 DEF ShredInv, ForwardedOnce

\* LeaderSchedule::refresh: an epoch that was loaded and is still owed is never dropped.
LEMMA RefreshKeeps ==
  ASSUME ShredInv, Poll \/ (\E ok \in BOOLEAN : Load(ok)) \/ Advance
  PROVE  ShredInv'
<1>1. ShredType /\ WindowRemembers /\ ScheduleLoaded /\ ForwardedOnce
  BY DEF ShredInv
<1>2. UNCHANGED <<mode, slots, tip, passed, twice, lost>>
  BY DEF Poll, Load, Advance
<1>3. WindowRemembers' /\ ForwardedOnce'
  BY <1>1, <1>2 DEF WindowRemembers, ForwardedOnce, horizon, fingerprint, Slot
<1>4. CASE Poll
  <2>1. PICK s \in head - RpcLag .. head :
          s >= 0 /\ EpochOf(s) >= refresher.epoch
          /\ refresher' = [epoch |-> EpochOf(s), at |-> "current"]
    BY <1>4 DEF Poll
  <2>2. EpochOf(s) \in Nat
    BY <1>1, <2>1, EpochIsNat, ShredConstants DEF ShredType, Slot
  <2>3. epochs' = {e \in epochs : e >= EpochOf(s)}
    BY <1>4, <2>1 DEF Poll
  <2>4. ShredType'
    BY <1>1, <1>2, <1>4, <2>1, <2>2, <2>3 DEF Poll, ShredType, Slot
  <2>5. ASSUME ready >= 0, NEW e \in EpochOf(s) .. ready + 1 PROVE e \in epochs'
    BY <1>1, <2>1, <2>2, <2>3, <2>5 DEF ShredType, ScheduleLoaded
  <2>6. ScheduleLoaded'
    BY <1>4, <2>1, <2>5 DEF Poll, ScheduleLoaded
  <2> QED BY <1>3, <2>4, <2>6 DEF ShredInv
<1>5. ASSUME NEW ok \in BOOLEAN, Load(ok) PROVE ShredInv'
  <2>1. ShredType'
    BY <1>1, <1>2, <1>5 DEF Load, ShredType, Slot
  <2>2. ScheduleLoaded'
    BY <1>1, <1>5 DEF Load, ShredType, ScheduleLoaded
  <2> QED BY <1>3, <2>1, <2>2 DEF ShredInv
<1>6. CASE Advance
  BY <1>1, <1>3, <1>6, ShredConstants DEF Advance, ShredInv, ShredType, ScheduleLoaded, Slot
<1> QED BY <1>4, <1>5, <1>6

\* DedupWindow, LeaderSchedule: for every window, epoch length and lag of the RPC node, the
\* first signed copy of a shred goes on and no other does while its slot is in the window.
THEOREM ShredsForwardedOnce == ShredSpec => []ForwardedOnce
<1>1. ShredInv /\ [ShredNext]_shredVars => ShredInv'
  <2> SUFFICES ASSUME ShredInv, [ShredNext]_shredVars PROVE ShredInv'
    OBVIOUS
  <2>1. CASE ShredNext
    BY <2>1, CopyKeeps, RefreshKeeps DEF ShredNext
  <2>2. CASE UNCHANGED shredVars
    BY <2>2 DEF shredVars, ShredInv, ShredType, WindowRemembers, ScheduleLoaded, ForwardedOnce,
      horizon, fingerprint, Slot
  <2> QED BY <2>1, <2>2
<1>2. ShredInv => ForwardedOnce
  BY DEF ShredInv
<1> QED BY ShredStart, <1>1, <1>2, PTL DEF ShredSpec

-----------------------------------------------------------------------------
(* The venue clock.                                                         *)

\* A stamp or an instant that may not be there.
Opt == Nat \cup {None}

ClockState == [newest_ts : Opt, moved_at : Nat, ahead_since : Opt, sample : Opt]

AtMost(a, b) == a # None => a <= b

ClockType ==
  /\ mono \in Nat /\ clk \in ClockState
  /\ trail \in [since : Opt, top : Opt, at : Nat]

\* What the clock took or sampled never passes the host's clock, nor its timer the present.
BelowHost ==
  /\ AtMost(clk.newest_ts, host_cap) /\ AtMost(clk.sample, host_cap)
  /\ AtMost(clk.ahead_since, mono)

\* A clock that trails holds a sample at least as new as what it trails, and has had its
\* ahead timer running from no later than the start.
TrailTimed ==
  IF trail.since = None THEN trail.top = None
  ELSE /\ trail.top # None /\ clk.sample # None /\ clk.sample >= trail.top
       /\ clk.ahead_since # None /\ clk.ahead_since <= trail.since
       /\ trail.at - clk.ahead_since < reseat_after_ns

ClockInv == ClockType /\ BelowHost /\ TrailTimed

\* What a batch makes of the clock c: it is at the batch's stamp and at the former sample;
\* or at the stamp, with a newer sample kept; or the timer of that sample runs.
BatchOutcome(c, ts, m, lid, d) ==
  /\ d \in ClockState /\ AtMost(d.newest_ts, lid) /\ AtMost(d.sample, lid)
  /\ d.ahead_since \in {None, c.ahead_since, FirstSet(c.ahead_since, m)}
  /\ \/ /\ d.newest_ts # None /\ d.newest_ts >= Least(ts, lid)
        /\ AtMost(c.sample, d.newest_ts)
     \/ /\ d.newest_ts # None /\ d.newest_ts >= Least(ts, lid)
        /\ d.sample # None /\ d.sample >= Least(ts, lid) /\ AtMost(c.sample, d.sample)
        /\ d.ahead_since = c.ahead_since
        /\ c.ahead_since # None => m - c.ahead_since < reseat_after_ns
     \/ /\ d.sample # None /\ d.sample >= Least(ts, lid) /\ AtMost(c.sample, d.sample)
        /\ d.ahead_since = FirstSet(c.ahead_since, m)
        /\ m - d.ahead_since < reseat_after_ns

\* ChannelClock::observe and reseat, one after the other on a batch, have no other outcome.
LEMMA BatchClock ==
  ASSUME NEW c \in ClockState, NEW ts \in Nat, NEW m \in Nat, NEW lid \in Nat,
         AtMost(c.newest_ts, lid), AtMost(c.sample, lid), None \notin Int
  PROVE  BatchOutcome(c, ts, m, lid, reseat(observe(c, ts, m, lid), m))
<1> DEFINE d == reseat(observe(c, ts, m, lid), m)
<1> SUFFICES BatchOutcome(c, ts, m, lid, d)
  OBVIOUS
<1> USE DEF BatchOutcome
<1> DEFINE top == Least(ts, lid)
           smp == Later(c.sample, top)
           s == [c EXCEPT !.sample = smp]
           o == observe(c, ts, m, lid)
<1>1. top \in Nat /\ top <= lid /\ top <= ts
  BY DEF Least
<1>2. smp \in Nat /\ top <= smp /\ smp <= lid /\ AtMost(c.sample, smp)
  BY <1>1 DEF Later, AtMost, ClockState, Opt
<1>3. s \in ClockState /\ s.sample = smp /\ s.newest_ts = c.newest_ts
      /\ s.ahead_since = c.ahead_since
  BY <1>2 DEF ClockState, Opt
<1> HIDE DEF top, smp
<1>4. \/ o = [s EXCEPT !.ahead_since = FirstSet(c.ahead_since, m)]
      \/ o = s /\ c.newest_ts # None /\ top <= c.newest_ts
      \/ o = clock_set(s, ts, m) /\ ts = top
  BY <1>1 DEF observe, ClockState, Opt, top, smp, Least
<1> HIDE DEF s
<1>5. \A x \in ClockState : x.sample # None =>
        LET r == reseat(x, m) IN
        \/ r = [newest_ts |-> x.sample, moved_at |-> m, ahead_since |-> None, sample |-> None]
        \/ r = x /\ (x.ahead_since # None => m - x.ahead_since < reseat_after_ns)
  BY GuardAssumption DEF reseat, clock_set, ClockState, Opt
<1>6. CASE o = [s EXCEPT !.ahead_since = FirstSet(c.ahead_since, m)]
  <2>1. o \in ClockState /\ o.sample = smp /\ o.newest_ts = c.newest_ts
        /\ o.ahead_since = FirstSet(c.ahead_since, m) /\ o.ahead_since # None
    BY <1>3, <1>6 DEF ClockState, Opt, FirstSet
  <2> HIDE DEF o
  <2> QED BY <1>1, <1>2, <1>5, <2>1 DEF ClockState, Opt, AtMost, top, o
<1>7. CASE o = s /\ c.newest_ts # None /\ top <= c.newest_ts
  <2>1. o \in ClockState /\ o.sample = smp /\ o.newest_ts = c.newest_ts
        /\ o.ahead_since = c.ahead_since
    BY <1>3, <1>7
  <2> HIDE DEF o
  <2> QED BY <1>1, <1>2, <1>5, <1>7, <2>1 DEF ClockState, Opt, AtMost, top, o
<1>8. CASE o = clock_set(s, ts, m) /\ ts = top
  <2>1. CASE ts >= smp
    <3>1. o = [newest_ts |-> ts, moved_at |-> m, ahead_since |-> None, sample |-> None]
      BY <1>1, <1>2, <1>3, <1>8, <2>1 DEF clock_set
    <3>2. d = o
      BY <3>1 DEF reseat
    <3> QED BY <1>1, <1>2, <1>8, <2>1, <3>1, <3>2 DEF ClockState, Opt, AtMost, top
  <2>2. CASE ts < smp
    <3>1. o = [newest_ts |-> ts, moved_at |-> m, ahead_since |-> c.ahead_since, sample |-> smp]
      BY <1>1, <1>2, <1>3, <1>8, <2>2 DEF clock_set
    <3>2. o \in ClockState /\ o.sample = smp /\ o.newest_ts = ts /\ o.ahead_since = c.ahead_since
      BY <1>2, <3>1 DEF ClockState, Opt
    <3> HIDE DEF o
    <3> QED BY <1>1, <1>2, <1>5, <1>8, <3>2 DEF ClockState, Opt, AtMost, top, o
  <2> QED BY <1>1, <1>2, <2>1, <2>2
<1> QED BY <1>4, <1>6, <1>7, <1>8

\* The clock starts with nothing seen.
LEMMA ClockStarts == ClockInit => ClockInv
BY ClockAssumption, GuardAssumption DEF ClockInit, ClockInv, ClockType, BelowHost, TrailTimed, Caught,
  NewClock, ClockState, Opt, AtMost

\* emit_order_level_book: a batch that leaves the clock behind leaves its timer running.
LEMMA ClockBatchKeeps ==
  ASSUME ClockInv, NEW ts \in Stamp, ClockBatch(ts)
  PROVE  ClockInv'
<1> DEFINE lid == host_cap
           top == Later(trail.top, Least(ts, lid))
<1>1. /\ ts \in Nat /\ mono \in Nat /\ lid \in Nat /\ clk \in ClockState /\ None \notin Int
      /\ AtMost(clk.newest_ts, lid) /\ AtMost(clk.sample, lid) /\ AtMost(clk.ahead_since, mono)
      /\ trail \in [since : Opt, top : Opt, at : Nat]
  BY ClockAssumption, GuardAssumption DEF ClockInv, ClockType, BelowHost, host_cap
<1>2. clk' = reseat(observe(clk, ts, mono, lid), mono) /\ mono' = mono /\ host_cap' = lid
  BY DEF ClockBatch, host_cap
<1> HIDE DEF lid
<1>3. BatchOutcome(clk, ts, mono, lid, clk')
  BY <1>1, <1>2, BatchClock, Zenon
<1> USE DEF BatchOutcome
<1>4. Least(ts, lid) \in Nat /\ top \in Nat
      /\ top = IF trail.top = None \/ Least(ts, lid) > trail.top THEN Least(ts, lid) ELSE trail.top
  <2>1. trail.top = None \/ trail.top \in Nat
    BY <1>1 DEF Opt
  <2>2. Least(ts, lid) \in Nat
    BY <1>1 DEF Least
  <2> QED BY <2>1, <2>2 DEF Later
<1>5. TrailTimed
  BY DEF ClockInv
<1>6. CASE clk'.newest_ts # None /\ clk'.newest_ts >= top
  <2>1. trail' = [since |-> None, top |-> None, at |-> mono]
    BY <1>6 DEF ClockBatch, Caught, top, lid
  <2> QED BY <1>1, <1>2, <1>3, <2>1
       DEF ClockInv, ClockType, BelowHost, TrailTimed, Opt, AtMost, FirstSet
<1>7. CASE ~ (clk'.newest_ts # None /\ clk'.newest_ts >= top)
  <2> HIDE DEF top
  <2>1. trail' = [since |-> FirstSet(trail.since, mono), top |-> top, at |-> mono]
    BY <1>7 DEF ClockBatch, top, lid
  <2>2. trail'.since # None /\ trail'.since \in Nat /\ trail' \in [since : Opt, top : Opt, at : Nat]
    BY <1>1, <1>4, <2>1 DEF FirstSet, Opt
  <2>3. CASE trail.since = None
    <3>1. trail.top = None /\ top = Least(ts, lid)
      BY <1>4, <1>5, <2>3 DEF TrailTimed
    <3>2. /\ clk'.sample # None /\ clk'.sample >= top
          /\ clk'.ahead_since = FirstSet(clk.ahead_since, mono)
          /\ mono - clk'.ahead_since < reseat_after_ns
      BY <1>3, <1>7, <3>1
    <3>3. clk'.ahead_since # None /\ clk'.ahead_since <= mono
      BY <1>1, <3>2 DEF FirstSet, AtMost, ClockState, Opt
    <3>4. trail'.since = mono /\ trail'.top = top /\ trail'.at = mono
      BY <2>1, <2>3 DEF FirstSet
    <3>5. TrailTimed'
      BY <1>1, <1>4, <2>2, <3>2, <3>3, <3>4 DEF TrailTimed
    <3> QED BY <1>1, <1>2, <1>3, <2>2, <3>3, <3>5 DEF ClockInv, ClockType, BelowHost, AtMost
  <2>4. CASE trail.since # None
    <3>1. /\ trail.top # None /\ trail.top \in Nat /\ trail.since \in Nat
          /\ clk.sample # None /\ clk.sample \in Nat /\ clk.sample >= trail.top
          /\ clk.ahead_since # None /\ clk.ahead_since \in Nat /\ clk.ahead_since <= trail.since
      BY <1>1, <1>5, <2>4 DEF TrailTimed, Opt, ClockState
    <3>2. /\ clk'.sample # None /\ clk'.sample >= top
          /\ clk'.ahead_since = clk.ahead_since
          /\ mono - clk.ahead_since < reseat_after_ns
      BY <1>3, <1>4, <1>7, <3>1 DEF AtMost, FirstSet, ClockState, Opt
    <3>3. trail'.since = trail.since /\ trail'.top = top /\ trail'.at = mono
      BY <2>1, <2>4 DEF FirstSet
    <3>4. TrailTimed'
      BY <1>1, <1>4, <2>2, <3>1, <3>2, <3>3 DEF TrailTimed
    <3> QED BY <1>1, <1>2, <1>3, <2>2, <3>2, <3>4 DEF ClockInv, ClockType, BelowHost, AtMost
  <2> QED BY <2>3, <2>4
<1> QED BY <1>6, <1>7

\* ChannelClock: for every window and every stamp on the wire, the clock of a channel is
\* behind its newest batch for less than reseat_after_ns of traffic, and never past the host.
THEOREM ClockAlwaysCatchesUp == ClockSpec => []ClockCatchesUp
<1>1. ClockInv /\ [ClockNext]_clockVars => ClockInv'
  <2> SUFFICES ASSUME ClockInv, [ClockNext]_clockVars PROVE ClockInv'
    OBVIOUS
  <2>1. CASE ClockTick
    BY <2>1, ClockAssumption, GuardAssumption DEF ClockTick, ClockInv, ClockType, BelowHost, TrailTimed, AtMost,
      host_cap, ClockState, Opt
  <2>2. CASE ClockSession
    BY <2>2, ClockAssumption DEF ClockSession, clock_set, Caught, ClockInv, ClockType, BelowHost,
      TrailTimed, AtMost, ClockState, Opt
  <2>3. CASE UNCHANGED clockVars
    BY <2>3 DEF clockVars, ClockInv, ClockType, BelowHost, TrailTimed, host_cap
  <2> QED BY <2>1, <2>2, <2>3, ClockBatchKeeps DEF ClockNext
<1>2. ClockInv => ClockCatchesUp
  BY ClockAssumption, GuardAssumption DEF ClockInv, ClockType, BelowHost, TrailTimed, AtMost, ClockCatchesUp,
    ClockState, Opt
<1> QED BY ClockStarts, <1>1, <1>2, PTL DEF ClockSpec

-----------------------------------------------------------------------------
(* The tape.                                                                *)

TapePrint == [sig : Signature, at : Nat]
TapeLead == [path : TapePath, last_ns : Nat, honored_election : TapePath \cup {Nobody}]
IdOwner  == [path : TapePath, last_ns : Nat]

LogState == [lost : Nat, unseen : BOOLEAN, term : Nat, yields : Nat, abrupt : BOOLEAN,
             conflict : BOOLEAN, overrun : BOOLEAN, mispaired : BOOLEAN]

TapeType ==
  /\ tnow \in Nat /\ sticky \in BOOLEAN /\ noId \subseteq TapePath
  /\ prints \in Seq(TapePrint)
  /\ tpos \in [TapePath -> Nat] /\ \A p \in TapePath : tpos[p] <= Len(prints)
  /\ tracked \subseteq TapePath /\ elected \in TapePath \cup {Nobody}
  /\ tlead \in TapeLead \cup {Nobody} /\ noIdOwner \in IdOwner \cup {Nobody}
  /\ ids \in Seq(Nat) /\ Len(ids) <= TRADE_DEDUP_WINDOW
  /\ out \in Seq(Nat) /\ Len(out) = Len(prints)
  /\ tapeLog \in LogState

\* The election in force was spent by the transfer that yielded to it.
ElectionSpent ==
  /\ tapeLog.yields <= 1
  /\ tapeLog.yields = 1 =>
       tlead # Nobody /\ elected # Nobody /\ tlead.honored_election = elected

\* No copy is later than TapeLag.
CopiesDue ==
  \A k \in 1..Len(prints) :
    /\ prints[k].at <= tnow
    /\ \A p \in TapePath : k > tpos[p] => tnow - prints[k].at <= TapeLag

\* All that went out is behind the path that owns the tape, and it served it since.
BehindOwner(lead) ==
  \A k \in 1..Len(prints) :
    /\ out[k] <= 1
    /\ out[k] > 0 => /\ lead # Nobody /\ prints[k].at <= lead.last_ns
                     /\ k <= tpos[lead.path]

OwnedTape ==
  /\ sticky /\ ~tapeLog.abrupt => BehindOwner(tlead)
  /\ ~sticky /\ noId = TapePath /\ ~tapeLog.conflict => BehindOwner(noIdOwner)

\* The ids of the window are of prints that went out, each once, and one path is past them.
WindowHolds ==
  /\ \A i \in 1..Len(ids) : ids[i] \in 1..Len(prints) /\ out[ids[i]] > 0
  /\ \A i, j \in 1..Len(ids) : ids[i] = ids[j] => i = j
  /\ ids # <<>> => \E q \in TapePath : \A i \in 1..Len(ids) : ids[i] <= tpos[q]

\* The prints up to n that never went out, and those below the i-th id of the window that
\* had not gone out when it did.
Unsent(n) == {j \in 1..n : out[j] = 0}
Debt(i) == {j \in 1..ids[i] - 1 : out[j] = 0 \/ \E h \in i + 1 .. Len(ids) : ids[h] = j}

\* When every path stamps ids, only a loss keeps a print from going out, so an id leaves
\* the window when some path is, but for the prints lost, a window past it.
WindowCounts ==
  /\ \A q \in TapePath : Cardinality(Unsent(tpos[q])) <= tapeLog.lost
  /\ \A i \in 1..Len(ids) : Cardinality(Debt(i)) <= tapeLog.lost
  /\ \A k \in 1..Len(prints) :
       /\ out[k] <= 1
       /\ out[k] > 0 => \/ Contains(ids, k)
                        \/ \E q \in TapePath : tpos[q] + tapeLog.lost >= k + TRADE_DEDUP_WINDOW

NamedTape == ~sticky /\ noId = {} /\ ~tapeLog.overrun => WindowCounts

TapeInv ==
  TapeType /\ ElectionSpent /\ CopiesDue /\ OwnedTape /\ WindowHolds /\ NamedTape

\* What TradeFrom lets through: the gate, then the sentinel or the window.
Admits(p) == ~sticky \/ tape_path_admits(p)
Sends(p, k) == Admits(p) /\ (p \in noId \/ ~Contains(ids, k))

\* WindowedDedup::admit: the id comes last, and once the window is full the first one goes.
LEMMA WindowSlides ==
  ASSUME ids \in Seq(Nat), Len(ids) <= TRADE_DEDUP_WINDOW, NEW k \in Nat
  PROVE  \E d \in {0, 1} :
           /\ d = 1 <=> Len(ids) = TRADE_DEDUP_WINDOW
           /\ Remembered(k) \in Seq(Nat) /\ Len(Remembered(k)) = Len(ids) + 1 - d
           /\ \A i \in 1 .. Len(ids) - d : Remembered(k)[i] = ids[i + d]
           /\ Remembered(k)[Len(ids) + 1 - d] = k
<1> DEFINE q == Append(ids, k)
<1>1. /\ q \in Seq(Nat) /\ Len(q) = Len(ids) + 1 /\ q[Len(ids) + 1] = k
      /\ \A i \in 1..Len(ids) : q[i] = ids[i]
  OBVIOUS
<1>2. Len(ids) \in Nat /\ TRADE_DEDUP_WINDOW \in Nat \ {0}
  BY TapeAssumption
<1> HIDE DEF q
<1>3. CASE Len(ids) = TRADE_DEDUP_WINDOW
  <2>1. Remembered(k) = Tail(q)
    BY <1>1, <1>2, <1>3 DEF Remembered, q
  <2>2. /\ Tail(q) \in Seq(Nat) /\ Len(Tail(q)) = Len(ids)
        /\ \A i \in 1..Len(ids) : Tail(q)[i] = q[i + 1]
    BY <1>1, <1>2
  <2>3. \A i \in 1..Len(ids) - 1 : Tail(q)[i] = ids[i + 1]
    BY <1>1, <1>2, <2>2
  <2>4. Tail(q)[Len(ids)] = k
    BY <1>1, <1>2, <1>3, <2>2
  <2>5. /\ 1 = 1 <=> Len(ids) = TRADE_DEDUP_WINDOW
        /\ Remembered(k) \in Seq(Nat) /\ Len(Remembered(k)) = Len(ids) + 1 - 1
        /\ \A i \in 1 .. Len(ids) - 1 : Remembered(k)[i] = ids[i + 1]
        /\ Remembered(k)[Len(ids) + 1 - 1] = k
    BY <1>2, <1>3, <2>1, <2>2, <2>3, <2>4
  <2> QED BY <2>5, Zenon
<1>4. CASE Len(ids) # TRADE_DEDUP_WINDOW
  BY <1>1, <1>2, <1>4 DEF Remembered, q
<1> QED BY <1>3, <1>4

\* TradeFrom as the proofs use it.
LEMMA PathPrintsStep ==
  ASSUME TapeType, NEW p \in TapePath, PathPrints(p)
  PROVE  /\ tpos[p] + 1 \in 1..Len(prints) /\ tpos' = [tpos EXCEPT ![p] = @ + 1]
         /\ UNCHANGED <<tnow, sticky, noId, prints, tracked, elected>>
         /\ tlead' = IF sticky /\ Admits(p) THEN LeadAfter(p) ELSE tlead
         /\ noIdOwner' = IF ~sticky /\ p \in noId /\ ~Concurrent(p)
                         THEN [path |-> p, last_ns |-> tnow] ELSE noIdOwner
         /\ ids' = IF Sends(p, tpos[p] + 1) /\ p \notin noId THEN Remembered(tpos[p] + 1) ELSE ids
         /\ out' = IF Sends(p, tpos[p] + 1) THEN [out EXCEPT ![tpos[p] + 1] = @ + 1] ELSE out
         /\ tapeLog' \in LogState /\ tapeLog'.lost = tapeLog.lost
         /\ tapeLog'.yields = Logged(p, Admits(p)).yields
         /\ tapeLog'.abrupt = Logged(p, Admits(p)).abrupt
         /\ tapeLog'.conflict = (tapeLog.conflict \/ (~sticky /\ p \in noId /\ Concurrent(p)))
         /\ tapeLog'.overrun = (tapeLog.overrun \/ \E q \in TapePath :
               tpos[q] + tapeLog.lost >= tpos[p] + 1 + TRADE_DEDUP_WINDOW)
         /\ TapeType'
<1> DEFINE k == tpos[p] + 1
           r == on_trade(race, prints[k].sig, [path |-> p, recv_ns |-> tnow, print |-> k])
           unseen == tapeLog.unseen \/ p \notin tracked
                       \/ (r.match = NoMatch /\ Capped(evict_stale(race, tnow), prints[k].sig))
           mis == tapeLog.mispaired \/ (p \in tracked /\ r.match # NoMatch
                                          /\ r.match.first.print # k)
           con == tapeLog.conflict \/ (~sticky /\ p \in noId /\ Concurrent(p))
           over == tapeLog.overrun \/ \E q \in TapePath :
               tpos[q] + tapeLog.lost >= k + TRADE_DEDUP_WINDOW
           L == Logged(p, Admits(p))
<1>1. /\ tpos[p] < Len(prints) /\ tpos' = [tpos EXCEPT ![p] = @ + 1]
      /\ UNCHANGED <<tnow, sticky, noId, prints, tracked, elected>>
      /\ k \in 1..Len(prints)
  BY DEF PathPrints, TapeType
<1>2. /\ tlead' = IF sticky /\ Admits(p) THEN LeadAfter(p) ELSE tlead
      /\ noIdOwner' = IF ~sticky /\ p \in noId /\ ~Concurrent(p)
                         THEN [path |-> p, last_ns |-> tnow] ELSE noIdOwner
      /\ ids' = IF Sends(p, k) /\ p \notin noId THEN Remembered(k) ELSE ids
      /\ out' = IF Sends(p, k) THEN [out EXCEPT ![k] = @ + 1] ELSE out
  BY DEF PathPrints, TradeFrom, Admits, Sends
<1>3. tapeLog' = [L EXCEPT !.unseen = @ \/ p \notin tracked
                       \/ (r.match = NoMatch /\ Capped(evict_stale(race, tnow), prints[k].sig)),
                    !.conflict = @ \/ (~sticky /\ p \in noId /\ Concurrent(p)),
                    !.overrun = @ \/ \E q \in TapePath :
                       tpos[q] + tapeLog.lost >= k + TRADE_DEDUP_WINDOW,
                    !.mispaired = @ \/ (p \in tracked /\ r.match # NoMatch
                                          /\ r.match.first.print # k)]
  BY Zenon DEF PathPrints, TradeFrom, Admits
<1>4. /\ L \in LogState /\ L.lost = tapeLog.lost /\ L.conflict = tapeLog.conflict
      /\ L.overrun = tapeLog.overrun /\ L.unseen = tapeLog.unseen
      /\ L.mispaired = tapeLog.mispaired
  <2> DEFINE moves == sticky /\ tlead # Nobody /\ ~Serves(p)
             abr == tapeLog.abrupt \/ (moves /\ Admits(p) /\ ~silent(tlead.last_ns))
             yld == IF moves /\ Admits(p) /\ p = elected /\ tlead.path \in tracked
                         /\ ~silent(tlead.last_ns) THEN tapeLog.yields + 1 ELSE tapeLog.yields
  <2>1. abr \in BOOLEAN /\ yld \in Nat
    BY DEF TapeType, LogState
  <2>2. L = [tapeLog EXCEPT !.abrupt = abr, !.yields = yld]
    BY Zenon DEF Logged
  <2> HIDE DEF abr, yld, L
  <2> QED BY <2>1, <2>2 DEF LogState, TapeType
<1> HIDE DEF L
<1>5. tapeLog' = [L EXCEPT !.unseen = unseen, !.conflict = con, !.overrun = over, !.mispaired = mis]
  BY <1>3, <1>4 DEF LogState
<1>6. unseen \in BOOLEAN /\ con \in BOOLEAN /\ over \in BOOLEAN /\ mis \in BOOLEAN
  BY DEF TapeType, LogState
<1> HIDE DEF unseen, con, over, mis
<1>7. /\ tapeLog' \in LogState /\ tapeLog'.lost = tapeLog.lost /\ tapeLog'.yields = L.yields
      /\ tapeLog'.abrupt = L.abrupt /\ tapeLog'.conflict = con /\ tapeLog'.overrun = over
  BY <1>4, <1>5, <1>6 DEF LogState
<1>8. tlead' \in TapeLead \cup {Nobody}
  BY <1>1, <1>2 DEF TapeType, LeadAfter, HonoredBy, TapeLead
<1>9. noIdOwner' \in IdOwner \cup {Nobody}
  BY <1>1, <1>2 DEF TapeType, IdOwner
<1>10. ids' \in Seq(Nat) /\ Len(ids') <= TRADE_DEDUP_WINDOW
  <2>1. CASE ids' = Remembered(k)
    <3>1. ids \in Seq(Nat) /\ Len(ids) <= TRADE_DEDUP_WINDOW /\ k \in Nat
      BY <1>1 DEF TapeType
    <3>2. PICK d \in {0, 1} :
             /\ d = 1 <=> Len(ids) = TRADE_DEDUP_WINDOW
             /\ Remembered(k) \in Seq(Nat) /\ Len(Remembered(k)) = Len(ids) + 1 - d
      <4> HIDE DEF k
      <4> QED BY <3>1, WindowSlides
    <3> HIDE DEF k
    <3> QED BY <2>1, <3>1, <3>2, TapeAssumption
  <2> QED BY <1>2, <2>1 DEF TapeType
<1>11. out' \in Seq(Nat) /\ Len(out') = Len(prints)
  BY <1>1, <1>2 DEF TapeType
<1>12. TapeType'
  BY <1>1, <1>7, <1>8, <1>9, <1>10, <1>11 DEF TapeType
<1> QED BY <1>1, <1>2, <1>7, <1>12 DEF con, over, L

\* The tape gate starts with no trade seen and nobody elected.
LEMMA TapeStarts == TapeInit => TapeInv
<1> SUFFICES ASSUME TapeInit PROVE TapeInv
  OBVIOUS
<1>1. TapeType
  BY TapeAssumption DEF TapeInit, TapeType, NewLog, LogState, TapeLead, IdOwner
<1>2. ElectionSpent /\ CopiesDue /\ OwnedTape /\ WindowHolds
  BY DEF TapeInit, ElectionSpent, CopiesDue, OwnedTape, BehindOwner, WindowHolds, NewLog
<1>3. WindowCounts
  <2>1. \A q \in TapePath : Unsent(tpos[q]) = {}
    BY DEF TapeInit, Unsent
  <2>2. \A q \in TapePath : Cardinality(Unsent(tpos[q])) = 0
    BY <2>1, FS_EmptySet
  <2>3. Len(ids) = 0 /\ Len(prints) = 0 /\ tapeLog.lost = 0
    BY DEF TapeInit, NewLog
  <2> QED BY <2>2, <2>3 DEF WindowCounts
<1> QED BY <1>1, <1>2, <1>3 DEF TapeInv, NamedTape

\* The actions of the venue, the losses and the authority keep the types.
LEMMA OthersStep ==
  ASSUME TapeType,
         \/ TapeTick
         \/ \E sig \in Signature : VenuePrints(sig)
         \/ \E p \in TapePath : LosesPrint(p) \/ Tracks(p) \/ Elects(p)
  PROVE  TapeType'
<1>1. CASE TapeTick
  BY <1>1 DEF TapeTick, TapeType
<1>2. ASSUME NEW sig \in Signature, VenuePrints(sig) PROVE TapeType'
  BY <1>2 DEF VenuePrints, TapeType, TapePrint
<1>3. ASSUME NEW p \in TapePath, LosesPrint(p) PROVE TapeType'
  <2>1. tapeLog' \in LogState
    <3>1. tapeLog \in LogState /\ tapeLog' = [tapeLog EXCEPT !.lost = @ + 1]
      BY <1>3 DEF LosesPrint, TapeType
    <3> QED BY <3>1 DEF LogState
  <2> QED BY <1>3, <2>1 DEF LosesPrint, TapeType
<1>4. ASSUME NEW p \in TapePath, Tracks(p) PROVE TapeType'
  BY <1>4 DEF Tracks, TapeType
<1>5. ASSUME NEW p \in TapePath, Elects(p) PROVE TapeType'
  <2>1. tapeLog' \in LogState
    <3> DEFINE term == tapeLog.term + 1
    <3>1. tapeLog \in LogState /\ tapeLog' = [tapeLog EXCEPT !.term = term, !.yields = 0]
      BY <1>5 DEF Elects, TapeType
    <3>2. term \in Nat
      BY <3>1 DEF LogState
    <3> HIDE DEF term
    <3> QED BY <3>1, <3>2 DEF LogState
  <2> QED BY <1>5, <2>1 DEF Elects, TapeType
<1> QED BY <1>1, <1>2, <1>3, <1>4, <1>5

\* tape_path_admits: the elected path takes the tape from a tracked, live one only under an
\* election that no transfer has spent yet, and spends it.
LEMMA ElectionKeeps ==
  ASSUME TapeType, ElectionSpent, NEW p \in TapePath, PathPrints(p)
  PROVE  ElectionSpent'
<1>1. /\ UNCHANGED <<elected, tracked>>
      /\ tlead' = IF sticky /\ Admits(p) THEN LeadAfter(p) ELSE tlead
      /\ tapeLog'.yields = Logged(p, Admits(p)).yields
  BY PathPrintsStep
<1> DEFINE moves == sticky /\ tlead # Nobody /\ ~Serves(p)
           yielding == moves /\ Admits(p) /\ p = elected /\ tlead.path \in tracked
                         /\ ~silent(tlead.last_ns)
<1>2. tapeLog'.yields = IF yielding THEN tapeLog.yields + 1 ELSE tapeLog.yields
  BY <1>1 DEF Logged, TapeType, LogState
<1>3. tapeLog.yields \in Nat
  BY DEF TapeType, LogState
<1>4. yielding => tapeLog.yields = 0
  BY <1>3 DEF Admits, tape_path_admits, Takes, displaces_uncorroborated, new_election, ElectionSpent
<1>5. /\ LeadAfter(p) # Nobody
      /\ LeadAfter(p).honored_election = HonoredBy(p)
  BY TapeAssumption DEF LeadAfter, HonoredBy, TapeType, TapeLead
<1>6. ASSUME tapeLog'.yields = 1
      PROVE  tlead' # Nobody /\ elected # Nobody /\ tlead'.honored_election = elected
  <2>1. CASE yielding
    BY <1>1, <1>5, <2>1, TapeAssumption DEF HonoredBy
  <2>2. CASE ~yielding
    <3>1. tlead # Nobody /\ elected # Nobody /\ tlead.honored_election = elected
      BY <1>2, <1>6, <2>2 DEF ElectionSpent
    <3> QED BY <1>1, <1>5, <3>1 DEF HonoredBy
  <2> QED BY <2>1, <2>2
<1>7. tapeLog'.yields <= 1
  BY <1>2, <1>3, <1>4 DEF ElectionSpent
<1> QED BY <1>1, <1>6, <1>7 DEF ElectionSpent

\* What was due a copy and was not settled by the step still is.
LEMMA DueKeeps ==
  ASSUME TapeType, CopiesDue, NEW p \in TapePath, PathPrints(p)
  PROVE  CopiesDue'
<1>1. tpos' = [tpos EXCEPT ![p] = @ + 1] /\ prints' = prints /\ tnow' = tnow
  BY PathPrintsStep
<1>2. \A q \in TapePath : tpos[q] \in Nat /\ tpos'[q] \in Nat /\ tpos[q] <= tpos'[q]
  BY <1>1 DEF TapeType
<1>3. Len(prints) \in Nat
  BY DEF TapeType
<1> QED BY <1>1, <1>2, <1>3 DEF CopiesDue

\* The latch of the path that owns the tape: a path takes it only when nobody has it, when
\* it has it already, or after a silence longer than any copy is late, so it is past all
\* that went out and its next print did not go out before.
LEMMA OwnerMoves ==
  ASSUME TapeType, CopiesDue, NEW p \in TapePath,
         NEW lead \in [path : TapePath, last_ns : Nat] \cup TapeLead \cup {Nobody},
         BehindOwner(lead), lead = Nobody \/ lead.path = p \/ silent(lead.last_ns),
         NEW j \in 1..Len(prints), out[j] > 0
  PROVE  j <= tpos[p]
<1>1. lead # Nobody /\ prints[j].at <= lead.last_ns /\ j <= tpos[lead.path]
  BY DEF BehindOwner
<1>2. lead.last_ns \in Nat /\ prints[j].at \in Nat /\ tpos[p] \in Nat /\ tnow \in Nat
  <2>1. lead \in [path : TapePath, last_ns : Nat] \/ lead \in TapeLead
    BY <1>1
  <2>2. lead.last_ns \in Nat
    BY <2>1 DEF TapeLead
  <2>3. prints[j] \in TapePrint
    BY DEF TapeType
  <2> QED BY <2>2, <2>3 DEF TapeType, TapePrint
<1>3. CASE silent(lead.last_ns)
  <2>1. tnow - prints[j].at > TapeLag
    BY <1>1, <1>2, <1>3, TapeAssumption DEF silent
  <2> QED BY <1>2, <2>1, TapeAssumption DEF CopiesDue
<1> QED BY <1>1, <1>3

\* A print that goes out under an owner that was past all of the earlier ones goes out once.
LEMMA OwnerKeeps ==
  ASSUME TapeType, CopiesDue, NEW p \in TapePath, PathPrints(p),
         \A j \in 1..Len(prints) : out[j] <= 1 /\ (out[j] > 0 => j <= tpos[p])
  PROVE  \A j \in 1..Len(prints) :
           /\ out'[j] <= 1
           /\ out'[j] > 0 => prints[j].at <= tnow /\ j <= tpos'[p]
<1> DEFINE k == tpos[p] + 1
<1>1. /\ k \in 1..Len(prints) /\ tpos' = [tpos EXCEPT ![p] = @ + 1] /\ prints' = prints
      /\ out' = out \/ out' = [out EXCEPT ![k] = @ + 1]
  BY PathPrintsStep
<1>2. tpos'[p] = k /\ tpos[p] \in Nat /\ out \in Seq(Nat) /\ Len(out) = Len(prints)
  BY <1>1 DEF TapeType
<1>3. out[k] = 0
  BY <1>1, <1>2
<1> SUFFICES ASSUME NEW j \in 1..Len(prints)
             PROVE  out'[j] <= 1 /\ prints[j].at <= tnow /\ (out'[j] > 0 => j <= k)
  BY <1>2
<1>4. prints[j].at <= tnow
  BY DEF CopiesDue
<1> QED BY <1>1, <1>2, <1>3, <1>4

\* tape_path_admits, claim_no_id_tape: while no handover is abrupt and no second emitter is
\* reported, all that went out stays behind the owner of the tape.
LEMMA OwnedKeeps ==
  ASSUME TapeType, CopiesDue, OwnedTape, NEW p \in TapePath, PathPrints(p)
  PROVE  OwnedTape'
<1>1. /\ UNCHANGED <<tnow, sticky, noId, prints>>
      /\ tlead' = IF sticky /\ Admits(p) THEN LeadAfter(p) ELSE tlead
      /\ noIdOwner' = IF ~sticky /\ p \in noId /\ ~Concurrent(p)
                      THEN [path |-> p, last_ns |-> tnow] ELSE noIdOwner
      /\ out' = IF Sends(p, tpos[p] + 1) THEN [out EXCEPT ![tpos[p] + 1] = @ + 1] ELSE out
      /\ tapeLog'.abrupt = Logged(p, Admits(p)).abrupt
      /\ tapeLog'.conflict = (tapeLog.conflict \/ (~sticky /\ p \in noId /\ Concurrent(p)))
      /\ tpos' = [tpos EXCEPT ![p] = @ + 1]
  BY PathPrintsStep
<1>2. \A q \in TapePath : tpos[q] \in Nat /\ tpos'[q] \in Nat /\ tpos[q] <= tpos'[q]
  BY <1>1 DEF TapeType
<1>3. ASSUME sticky, ~tapeLog'.abrupt PROVE BehindOwner(tlead)'
  <2> DEFINE moves == tlead # Nobody /\ ~Serves(p) /\ Admits(p)
  <2>1. tapeLog'.abrupt = (tapeLog.abrupt \/ (moves /\ ~silent(tlead.last_ns)))
    <3>1. tapeLog \in LogState
      BY DEF TapeType
    <3> QED BY <1>1, <1>3, <3>1 DEF Logged, LogState
  <2>2. ~tapeLog.abrupt /\ (moves => silent(tlead.last_ns))
    BY <1>3, <2>1
  <2>3. BehindOwner(tlead)
    BY <1>3, <2>2 DEF OwnedTape
  <2>4. CASE Admits(p)
    <3>1. tlead = Nobody \/ tlead.path = p \/ silent(tlead.last_ns)
      BY <2>2, <2>4 DEF Serves
    <3>2. tlead \in [path : TapePath, last_ns : Nat] \cup TapeLead \cup {Nobody}
      BY DEF TapeType
    <3>3. \A j \in 1..Len(prints) : out[j] <= 1 /\ (out[j] > 0 => j <= tpos[p])
      BY <2>3, <3>1, <3>2, OwnerMoves DEF BehindOwner
    <3>4. \A j \in 1..Len(prints) :
            out'[j] <= 1 /\ (out'[j] > 0 => prints[j].at <= tnow /\ j <= tpos'[p])
      BY <3>3, OwnerKeeps
    <3>5. tlead' # Nobody /\ tlead'.path = p /\ tlead'.last_ns = tnow
      BY <1>1, <1>3, <2>4, TapeAssumption DEF LeadAfter, HonoredBy, TapeType, TapeLead
    <3> QED BY <1>1, <3>4, <3>5 DEF BehindOwner
  <2>5. CASE ~Admits(p)
    <3>1. out' = out /\ tlead' = tlead
      BY <1>1, <2>5 DEF Sends
    <3>2. tlead # Nobody => tlead.path \in TapePath
      BY DEF TapeType, TapeLead
    <3> SUFFICES ASSUME NEW j \in 1..Len(prints)
                 PROVE  /\ out[j] <= 1
                        /\ out[j] > 0 => /\ tlead # Nobody /\ prints[j].at <= tlead.last_ns
                                         /\ j <= tpos'[tlead.path]
      BY <1>1, <3>1 DEF BehindOwner
    <3> QED BY <1>2, <2>3, <3>2 DEF BehindOwner
  <2> QED BY <2>4, <2>5
<1>4. ASSUME ~sticky, noId = TapePath, ~tapeLog'.conflict PROVE BehindOwner(noIdOwner)'
  <2>1. ~tapeLog.conflict /\ ~Concurrent(p)
    BY <1>1, <1>4
  <2>2. BehindOwner(noIdOwner)
    BY <1>4, <2>1 DEF OwnedTape
  <2>3. noIdOwner = Nobody \/ noIdOwner.path = p \/ silent(noIdOwner.last_ns)
    BY <2>1 DEF Concurrent
  <2>4. noIdOwner \in [path : TapePath, last_ns : Nat] \cup TapeLead \cup {Nobody}
    BY DEF TapeType, IdOwner
  <2>5. \A j \in 1..Len(prints) : out[j] <= 1 /\ (out[j] > 0 => j <= tpos[p])
    BY <2>2, <2>3, <2>4, OwnerMoves DEF BehindOwner
  <2>6. \A j \in 1..Len(prints) :
          out'[j] <= 1 /\ (out'[j] > 0 => prints[j].at <= tnow /\ j <= tpos'[p])
    BY <2>5, OwnerKeeps
  <2>7. noIdOwner' = [path |-> p, last_ns |-> tnow] /\ noIdOwner' # Nobody
    BY <1>1, <1>4, <2>1, TapeAssumption DEF TapeType
  <2> QED BY <1>1, <2>6, <2>7 DEF BehindOwner
<1> QED BY <1>1, <1>3, <1>4 DEF OwnedTape

\* As many distinct ids as the window is long fit among those of D and those from m to n.
LEMMA IdsFit ==
  ASSUME NEW W \in Nat, NEW f, \A i, j \in 1..W : f[i] = f[j] => i = j,
         NEW D, IsFiniteSet(D), NEW m \in Nat, NEW n \in Nat,
         \A i \in 1..W : f[i] \in D \/ f[i] \in m + 1 .. n
  PROVE  W <= Cardinality(D) + (IF n > m THEN n - m ELSE 0)
<1> DEFINE T == D \cup (m + 1 .. n)
           g == [i \in 1..W |-> f[i]]
<1>1. /\ IsFiniteSet(m + 1 .. n)
      /\ Cardinality(m + 1 .. n) = IF n > m THEN n - m ELSE 0
  BY FS_Interval
<1>2. /\ IsFiniteSet(T) /\ Cardinality(T) \in Nat /\ Cardinality(D) \in Nat
      /\ Cardinality(T) <= Cardinality(D) + Cardinality(m + 1 .. n)
  <2>1. IsFiniteSet(T) /\ Cardinality(T) = Cardinality(D) + Cardinality(m + 1 .. n)
                             - Cardinality(D \cap (m + 1 .. n))
    BY <1>1, FS_Union
  <2>2. IsFiniteSet(D \cap (m + 1 .. n))
    BY FS_Intersection
  <2>3. Cardinality(D \cap (m + 1 .. n)) \in Nat /\ Cardinality(T) \in Nat
        /\ Cardinality(D) \in Nat /\ Cardinality(m + 1 .. n) \in Nat
    BY <1>1, <2>1, <2>2, FS_CardinalityType
  <2> QED BY <2>1, <2>3
<1>3. g \in Injection(1..W, T)
  BY DEF Injection, IsInjective
<1>4. Cardinality(1..W) <= Cardinality(T)
  BY <1>2, <1>3, FS_Injection
<1>5. Cardinality(1..W) = W
  BY FS_Interval
<1> QED BY <1>1, <1>2, <1>4, <1>5

\* A part of a finite set counts no more.
LEMMA FewerDebts ==
  ASSUME NEW S, NEW T, T \subseteq S, IsFiniteSet(S), NEW n \in Nat, Cardinality(S) <= n
  PROVE  Cardinality(T) <= n
<1>1. IsFiniteSet(T) /\ Cardinality(T) <= Cardinality(S)
  BY FS_Subset
<1>2. Cardinality(T) \in Nat /\ Cardinality(S) \in Nat
  BY <1>1, FS_CardinalityType
<1> QED BY <1>1, <1>2

\* WindowedDedup::admit keeps its ids distinct, and of prints that went out.
LEMMA WindowHoldsKeeps ==
  ASSUME TapeType, WindowHolds, NEW p \in TapePath, PathPrints(p)
  PROVE  WindowHolds'
<1> DEFINE k == tpos[p] + 1
           n == Len(ids)
<1>1. /\ k \in 1..Len(prints) /\ tpos' = [tpos EXCEPT ![p] = @ + 1]
      /\ prints' = prints /\ TapeType'
      /\ ids' = IF Sends(p, k) /\ p \notin noId THEN Remembered(k) ELSE ids
      /\ out' = IF Sends(p, k) THEN [out EXCEPT ![k] = @ + 1] ELSE out
  BY PathPrintsStep
<1>2. /\ \A q \in TapePath : tpos[q] \in Nat /\ tpos'[q] \in Nat /\ tpos[q] <= tpos'[q]
      /\ tpos'[p] = k
  BY <1>1 DEF TapeType
<1>3. \A j \in 1..Len(prints) : out[j] \in Nat /\ out'[j] \in Nat /\ out[j] <= out'[j]
  BY <1>1 DEF TapeType
<1>4. n \in Nat /\ ids \in Seq(Nat) /\ n <= TRADE_DEDUP_WINDOW /\ k \in Nat
      /\ \A i \in 1..n : ids[i] \in Nat
  BY <1>2 DEF TapeType
<1>5. CASE ids' = ids
  <2>1. \A i \in 1..Len(ids') : ids'[i] \in 1..Len(prints') /\ out'[ids'[i]] > 0
    BY <1>1, <1>3, <1>5 DEF WindowHolds
  <2>2. ids' # <<>> => \E q \in TapePath : \A i \in 1..Len(ids') : ids'[i] <= tpos'[q]
    <3> SUFFICES ASSUME ids # <<>>
                 PROVE  \E q \in TapePath : \A i \in 1..n : ids[i] <= tpos'[q]
      BY <1>5
    <3>1. PICK q \in TapePath : \A i \in 1..n : ids[i] <= tpos[q]
      BY DEF WindowHolds
    <3> QED BY <1>2, <1>4, <3>1
  <2> QED BY <1>5, <2>1, <2>2 DEF WindowHolds
<1>6. CASE ids' # ids
  <2>1. /\ ids' = Remembered(k) /\ ~Contains(ids, k)
        /\ out' = [out EXCEPT ![k] = @ + 1]
    BY <1>1, <1>6 DEF Sends
  <2> HIDE DEF k, n
  <2>2. PICK d \in {0, 1} :
           /\ Len(ids') = n + 1 - d
           /\ \A i \in 1 .. n - d : ids'[i] = ids[i + d]
           /\ ids'[n + 1 - d] = k
    BY <1>4, <2>1, WindowSlides DEF n
  <2>3. out'[k] > 0
    BY <1>1, <1>3, <2>1 DEF TapeType
  <2>4. \A i \in 1..Len(ids') : i = n + 1 - d \/ (i \in 1 .. n - d /\ i + d \in 1..n)
    BY <1>4, <2>2
  <2>5. \A i \in 1..Len(ids') : ids'[i] \in 1..Len(prints') /\ out'[ids'[i]] > 0
    <3> SUFFICES ASSUME NEW i \in 1..Len(ids')
                 PROVE  ids'[i] \in 1..Len(prints) /\ out'[ids'[i]] > 0
      BY <1>1
    <3>1. CASE i = n + 1 - d
      BY <1>1, <2>2, <2>3, <3>1
    <3>2. CASE i \in 1 .. n - d /\ i + d \in 1..n
      <4>1. ids'[i] = ids[i + d] /\ ids[i + d] \in 1..Len(prints) /\ out[ids[i + d]] > 0
        BY <2>2, <3>2 DEF WindowHolds, n
      <4> HIDE DEF n
      <4> QED BY <1>3, <4>1
    <3> QED BY <2>4, <3>1, <3>2
  <2>6. \A i, j \in 1..Len(ids') : ids'[i] = ids'[j] => i = j
    <3> SUFFICES ASSUME NEW i \in 1..Len(ids'), NEW j \in 1..Len(ids'), ids'[i] = ids'[j]
                 PROVE  i = j
      OBVIOUS
    <3>1. \A h \in 1..n : ids[h] # k
      BY <2>1 DEF Contains, n
    <3>2. CASE i \in 1 .. n - d /\ j \in 1 .. n - d
      <4>1. ids[i + d] = ids[j + d] /\ i + d \in 1..n /\ j + d \in 1..n
        BY <1>4, <2>2, <3>2
      <4>2. i + d = j + d
        BY <4>1 DEF WindowHolds, n
      <4> QED BY <4>2, <2>2, <3>2, <1>4
    <3> QED BY <2>2, <2>4, <3>1, <3>2
  <2>7. \E q \in TapePath : \A i \in 1..Len(ids') : ids'[i] <= tpos'[q]
    <3>1. CASE ids = <<>>
      <4>1. \A i \in 1..Len(ids') : ids'[i] = k
        BY <2>2, <2>4, <3>1 DEF n
      <4> QED BY <1>2, <1>4, <4>1
    <3>2. CASE ids # <<>>
      <4>1. PICK q \in TapePath : \A i \in 1..n : ids[i] <= tpos[q]
        BY <3>2 DEF WindowHolds, n
      <4>2. \A i \in 1..Len(ids') : ids'[i] = k \/ (ids'[i] \in Nat /\ ids'[i] <= tpos[q])
        <5> SUFFICES ASSUME NEW i \in 1..Len(ids'), i \in 1 .. n - d, i + d \in 1..n
                     PROVE  ids'[i] \in Nat /\ ids'[i] <= tpos[q]
          BY <2>2, <2>4
        <5> QED BY <1>4, <2>2, <4>1
      <4>3. CASE k <= tpos[q]
        <5>1. \A i \in 1..Len(ids') : ids'[i] <= tpos'[q]
          BY <1>2, <1>4, <4>2, <4>3
        <5> QED BY <5>1
      <4>4. CASE k > tpos[q]
        <5>1. \A i \in 1..Len(ids') : ids'[i] <= tpos'[p]
          BY <1>2, <1>4, <4>2, <4>4
        <5> QED BY <5>1
      <4> QED BY <1>2, <1>4, <4>3, <4>4
    <3> QED BY <3>1, <3>2
  <2> QED BY <2>5, <2>6, <2>7 DEF WindowHolds
<1> QED BY <1>5, <1>6

\* What WindowCounts counts is finite.
LEMMA DebtsFinite ==
  ASSUME TapeType, WindowHolds
  PROVE  /\ \A m \in Nat : IsFiniteSet(Unsent(m))
         /\ \A i \in 1..Len(ids) : IsFiniteSet(Debt(i))
<1>1. ASSUME NEW m \in Nat PROVE IsFiniteSet(Unsent(m))
  <2>1. IsFiniteSet(1..m)
    BY FS_Interval
  <2>2. Unsent(m) \in SUBSET (1..m)
    BY DEF Unsent
  <2> QED BY <2>1, <2>2, FS_Subset
<1>2. ASSUME NEW i \in 1..Len(ids) PROVE IsFiniteSet(Debt(i))
  <2>1. ids[i] - 1 \in Int
    BY DEF TapeType
  <2>2. IsFiniteSet(1..ids[i] - 1)
    BY <2>1, FS_Interval
  <2>3. Debt(i) \in SUBSET (1..ids[i] - 1)
    BY DEF Debt
  <2> QED BY <2>2, <2>3, FS_Subset
<1> QED BY <1>1, <1>2

\* A new id of a full window: the one it pushes out is, but for the prints lost, a window
\* behind some path.
LEMMA EvictedIsFar ==
  ASSUME TapeType, WindowHolds, WindowCounts, NEW p \in TapePath, PathPrints(p),
         ids' = Remembered(tpos[p] + 1), out[tpos[p] + 1] = 0, WindowHolds',
         Len(ids) = TRADE_DEDUP_WINDOW
  PROVE  \E q \in TapePath : tpos'[q] + tapeLog.lost >= ids[1] + TRADE_DEDUP_WINDOW
<1> DEFINE k == tpos[p] + 1
           W == TRADE_DEDUP_WINDOW
           m == ids[1]
<1>1. /\ k \in 1..Len(prints) /\ tpos' = [tpos EXCEPT ![p] = @ + 1] /\ TapeType'
  BY PathPrintsStep
<1>2. \A q \in TapePath : tpos[q] \in Nat /\ tpos'[q] \in Nat /\ tpos[q] <= tpos'[q]
  BY <1>1 DEF TapeType
<1>3. /\ ids \in Seq(Nat) /\ k \in Nat /\ W \in Nat \ {0} /\ Len(ids) = W
      /\ m \in Nat /\ tapeLog.lost \in Nat /\ Len(ids) <= TRADE_DEDUP_WINDOW
  <2>1. W \in Nat \ {0} /\ ids \in Seq(Nat) /\ Len(ids) = W /\ tapeLog.lost \in Nat
    BY TapeAssumption DEF TapeType, LogState
  <2>2. m \in Nat
    BY <2>1
  <2> QED BY <1>2, <2>1, <2>2
<1>4. /\ Len(ids') = W /\ ids'[W] = k
      /\ \A i \in 1 .. W - 1 : ids'[i] = ids[i + 1]
  <2> HIDE DEF k
  <2>1. PICK d \in {0, 1} :
           /\ d = 1 <=> Len(ids) = TRADE_DEDUP_WINDOW
           /\ Len(Remembered(k)) = Len(ids) + 1 - d
           /\ \A i \in 1 .. Len(ids) - d : Remembered(k)[i] = ids[i + d]
           /\ Remembered(k)[Len(ids) + 1 - d] = k
    <3> HIDE DEF W, m
    <3> QED BY <1>3, WindowSlides
  <2>2. d = 1 /\ ids' = Remembered(k)
    BY <1>3, <2>1 DEF k
  <2> QED BY <1>3, <2>1, <2>2
<1> HIDE DEF W, k
<1>5. ids # <<>> /\ ids' # <<>> /\ 1 \in 1..Len(ids)
  BY <1>3, <1>4
<1>6. PICK q \in TapePath : \A i \in 1..W : ids'[i] <= tpos'[q]
  BY <1>4, <1>5 DEF WindowHolds
<1>7. PICK r \in TapePath : m <= tpos[r]
  BY <1>5 DEF WindowHolds
<1>8. \A i, j \in 1..W : ids'[i] = ids'[j] => i = j
  BY <1>4 DEF WindowHolds
<1>9. ASSUME NEW i \in 1..W PROVE ids'[i] \in Debt(1) \/ ids'[i] \in m + 1 .. tpos'[q]
  <2>1. ids'[i] \in Nat /\ ids'[i] >= 1
    BY <1>4, <1>9 DEF WindowHolds
  <2>2. ids'[i] # m
    <3>1. CASE i = W
      BY <1>1, <1>4, <1>5, <3>1 DEF WindowHolds, k
    <3>2. CASE i \in 1 .. W - 1
      <4>1. ids'[i] = ids[i + 1] /\ i + 1 # 1 /\ i + 1 \in 1..Len(ids)
        BY <1>3, <1>4, <3>2
      <4>2. \A a, b \in 1..Len(ids) : ids[a] = ids[b] => a = b
        BY DEF WindowHolds
      <4> HIDE DEF m
      <4>3. ids[i + 1] # ids[1]
        BY ONLY <1>5, <4>1, <4>2
      <4> QED BY <4>1, <4>3 DEF m
    <3> QED BY <1>3, <3>1, <3>2
  <2>3. CASE ids'[i] > m
    BY <1>2, <1>3, <1>6, <2>1, <2>3
  <2>4. CASE ids'[i] < m
    <3>1. CASE i = W
      BY <1>3, <1>4, <2>1, <2>4, <3>1 DEF Debt, k
    <3>2. CASE i \in 1 .. W - 1
      BY <1>3, <1>4, <2>1, <2>4, <3>2 DEF Debt
    <3> QED BY <1>3, <3>1, <3>2
  <2> QED BY <1>3, <2>1, <2>2, <2>3, <2>4
<1>10. IsFiniteSet(Debt(1)) /\ Cardinality(Debt(1)) <= tapeLog.lost
  BY <1>5, DebtsFinite DEF WindowCounts
<1>11. Cardinality(Debt(1)) \in Nat
  BY <1>10, FS_CardinalityType
<1>12. W <= Cardinality(Debt(1)) + (IF tpos'[q] > m THEN tpos'[q] - m ELSE 0)
  <2> DEFINE D == Debt(1)
             f == ids'
             n == tpos'[q]
  <2>1. /\ W \in Nat /\ IsFiniteSet(D) /\ m \in Nat /\ n \in Nat
        /\ \A i, j \in 1..W : f[i] = f[j] => i = j
        /\ \A i \in 1..W : f[i] \in D \/ f[i] \in m + 1 .. n
    BY <1>2, <1>3, <1>8, <1>9, <1>10
  <2> HIDE DEF D, f, n, m
  <2>2. W <= Cardinality(D) + (IF n > m THEN n - m ELSE 0)
    BY <2>1, IdsFit
  <2> QED BY <2>2 DEF D, n
<1>13. CASE tpos'[q] > m
  BY <1>2, <1>3, <1>10, <1>11, <1>12, <1>13 DEF W
<1>14. CASE ~(tpos'[q] > m)
  BY <1>2, <1>3, <1>7, <1>10, <1>11, <1>12, <1>14 DEF W
<1> QED BY <1>13, <1>14

\* Trades of paths that all stamp ids: one goes out again only after an overrun.
LEMMA NamedKeeps ==
  ASSUME TapeType, WindowHolds, NamedTape, NEW p \in TapePath, PathPrints(p)
  PROVE  NamedTape'
<1> DEFINE k == tpos[p] + 1
           n == Len(ids)
           W == TRADE_DEDUP_WINDOW
           lst == tapeLog.lost
<1>1. /\ k \in 1..Len(prints) /\ tpos' = [tpos EXCEPT ![p] = @ + 1]
      /\ UNCHANGED <<sticky, noId, prints>> /\ tapeLog'.lost = lst
      /\ ids' = IF Sends(p, k) /\ p \notin noId THEN Remembered(k) ELSE ids
      /\ out' = IF Sends(p, k) THEN [out EXCEPT ![k] = @ + 1] ELSE out
      /\ tapeLog'.overrun = (tapeLog.overrun \/ \E q \in TapePath : tpos[q] + lst >= k + W)
      /\ TapeType'
  BY PathPrintsStep
<1> SUFFICES ASSUME ~sticky, noId = {}, ~tapeLog'.overrun PROVE WindowCounts'
  BY <1>1 DEF NamedTape
<1>2. WindowCounts /\ ~ \E q \in TapePath : tpos[q] + lst >= k + W
  BY <1>1 DEF NamedTape
<1>3. Sends(p, k) <=> ~Contains(ids, k)
  BY DEF Sends, Admits
<1>4. /\ \A q \in TapePath : tpos[q] \in Nat /\ tpos'[q] \in Nat /\ tpos[q] <= tpos'[q]
      /\ tpos'[p] = k /\ \A q \in TapePath \ {p} : tpos'[q] = tpos[q]
  BY <1>1 DEF TapeType
<1>5. /\ n \in Nat /\ ids \in Seq(Nat) /\ n <= W /\ k \in Nat /\ lst \in Nat /\ W \in Nat \ {0}
      /\ out \in Seq(Nat) /\ Len(out) = Len(prints)
  BY <1>4, TapeAssumption DEF TapeType, LogState
<1>6. WindowHolds'
  BY WindowHoldsKeeps
<1>7. /\ \A m \in Nat : IsFiniteSet(Unsent(m))
      /\ \A i \in 1..n : IsFiniteSet(Debt(i))
  BY DebtsFinite
<1>8. \A m \in 1..Len(prints) : (\E q \in TapePath : tpos[q] + lst >= m + W)
                                  => \E q \in TapePath : tpos'[q] + lst >= m + W
  <2> SUFFICES ASSUME NEW m \in 1..Len(prints), NEW q \in TapePath, tpos[q] + lst >= m + W
               PROVE  tpos'[q] + lst >= m + W
    OBVIOUS
  <2>1. tpos[q] \in Nat /\ tpos'[q] \in Nat /\ tpos[q] <= tpos'[q] /\ m \in Nat
    BY <1>4, <1>5
  <2>2. lst \in Nat /\ W \in Nat
    BY <1>5
  <2> HIDE DEF W, lst
  <2> QED BY <2>1, <2>2
<1>9. CASE Contains(ids, k)
  <2>1. ids' = ids /\ out' = out
    BY <1>1, <1>3, <1>9
  <2>2. out[k] > 0
    BY <1>9 DEF Contains, WindowHolds
  <2>3. \A q \in TapePath : Unsent(tpos[q])' = Unsent(tpos[q])
    BY <1>4, <2>1, <2>2 DEF Unsent
  <2>4. \A i \in 1..n : Debt(i)' = Debt(i)
    BY <2>1 DEF Debt
  <2> QED BY <1>1, <1>2, <1>8, <2>1, <2>3, <2>4 DEF WindowCounts
<1>10. CASE ~Contains(ids, k)
  <2>1. ids' = Remembered(k) /\ out' = [out EXCEPT ![k] = @ + 1]
    BY <1>1, <1>3, <1>10
  <2>2. out[k] = 0
    <3>1. out[k] \in Nat
      BY <1>1, <1>5
    <3> QED BY <1>1, <1>2, <1>10, <3>1 DEF WindowCounts
  <2>3. /\ \A j \in 1..Len(prints) : out'[j] = IF j = k THEN 1 ELSE out[j]
        /\ Len(out') = Len(prints)
    BY <1>1, <1>5, <2>1, <2>2
  <2>4. ASSUME NEW q \in TapePath PROVE Cardinality(Unsent(tpos[q])') <= lst
    <3>1. Unsent(tpos[q])' \subseteq Unsent(tpos[q])
      <4> SUFFICES ASSUME NEW j \in 1..tpos'[q], out'[j] = 0
                   PROVE  j \in 1..tpos[q] /\ out[j] = 0
        BY DEF Unsent
      <4>1. j \in 1..Len(prints)
        BY <1>1, <1>4 DEF TapeType
      <4>2. j # k /\ out[j] = 0
        BY <2>3, <4>1
      <4>3. j \in 1..tpos[q]
        BY <1>4, <4>2
      <4> QED BY <4>2, <4>3
    <3>2. Cardinality(Unsent(tpos[q])) <= lst /\ IsFiniteSet(Unsent(tpos[q]))
      BY <1>2, <1>4, <1>7 DEF WindowCounts
    <3> QED BY <1>5, <3>1, <3>2, FewerDebts
  <2>5. PICK d \in {0, 1} :
           /\ d = 1 <=> n = W
           /\ Len(ids') = n + 1 - d
           /\ \A i \in 1 .. n - d : ids'[i] = ids[i + d]
           /\ ids'[n + 1 - d] = k
    <3> HIDE DEF k
    <3> QED BY <1>5, <2>1, WindowSlides
  <2> HIDE DEF W, n, k
  <2>6. ASSUME NEW i \in 1..Len(ids') PROVE Cardinality(Debt(i)') <= lst
    <3>1. CASE i \in 1 .. n - d
      <4>1. ids'[i] = ids[i + d] /\ i + d \in 1..n
        BY <1>5, <2>5, <3>1
      <4>2. ids[i + d] \in 1..Len(prints)
        BY <4>1 DEF WindowHolds, n
      <4>3. Debt(i)' \subseteq Debt(i + d)
        <5> SUFFICES ASSUME NEW j \in 1..ids[i + d] - 1,
                            out'[j] = 0 \/ \E h \in i + 1 .. Len(ids') : ids'[h] = j
                     PROVE  out[j] = 0 \/ \E h \in i + d + 1 .. n : ids[h] = j
          BY <4>1 DEF Debt, n
        <5>1. j \in 1..Len(prints)
          BY <4>2, <1>1
        <5>2. CASE out'[j] = 0
          BY <2>3, <5>1, <5>2
        <5>3. ASSUME NEW h \in i + 1 .. Len(ids'), ids'[h] = j
              PROVE  out[j] = 0 \/ \E g \in i + d + 1 .. n : ids[g] = j
          <6>1. CASE h = n + 1 - d
            BY <2>2, <2>5, <5>3, <6>1
          <6>2. CASE h # n + 1 - d
            <7>1. h \in 1 .. n - d /\ h + d \in i + d + 1 .. n
              BY <1>5, <2>5, <3>1, <5>3, <6>2
            <7>2. ids[h + d] = j
              BY <2>5, <5>3, <7>1
            <7> QED BY <7>1, <7>2
          <6> QED BY <6>1, <6>2
        <5> QED BY <5>2, <5>3
      <4>4. Cardinality(Debt(i + d)) <= lst /\ IsFiniteSet(Debt(i + d))
        BY <1>2, <1>7, <4>1 DEF WindowCounts, n
      <4> QED BY <1>5, <4>3, <4>4, FewerDebts
    <3>2. CASE i = n + 1 - d
      <4>1. Debt(i)' \subseteq Unsent(tpos[p])
        <5> SUFFICES ASSUME NEW j \in 1..k - 1,
                            out'[j] = 0 \/ \E h \in i + 1 .. Len(ids') : ids'[h] = j
                     PROVE  j \in 1..tpos[p] /\ out[j] = 0
          BY <2>5, <3>2 DEF Debt, Unsent
        <5>1. j \in 1..tpos[p] /\ j \in 1..Len(prints) /\ j # k
          BY <1>1, <1>4 DEF k
        <5>2. out'[j] = 0
          BY <1>5, <2>5, <3>2
        <5> QED BY <2>3, <5>1, <5>2
      <4>2. Cardinality(Unsent(tpos[p])) <= lst /\ IsFiniteSet(Unsent(tpos[p]))
        BY <1>2, <1>4, <1>7 DEF WindowCounts
      <4> QED BY <1>5, <4>1, <4>2, FewerDebts
    <3> QED BY <1>5, <2>5, <3>1, <3>2
  <2>7. ASSUME NEW m \in 1..Len(prints), out'[m] > 0
        PROVE  Contains(ids', m) \/ \E q \in TapePath : tpos'[q] + lst >= m + W
    <3>1. n + 1 - d \in 1..Len(ids')
      BY <1>5, <2>5
    <3>2. CASE m = k
      BY <2>5, <3>1, <3>2 DEF Contains
    <3>3. CASE m # k
      <4>1. out[m] > 0
        BY <2>3, <2>7, <3>3
      <4>2. CASE \E q \in TapePath : tpos[q] + lst >= m + W
        BY <1>8, <4>2
      <4>3. ASSUME NEW i \in 1..n, ids[i] = m
            PROVE  Contains(ids', m) \/ \E q \in TapePath : tpos'[q] + lst >= m + W
        <5>1. CASE i - d \in 1 .. n - d
          <6>1. ids'[i - d] = m /\ i - d \in 1..Len(ids')
            BY <1>5, <2>5, <4>3, <5>1
          <6> QED BY <6>1 DEF Contains
        <5>2. CASE i - d \notin 1 .. n - d
          <6>1. i = 1 /\ d = 1
            BY <1>5, <5>2
          <6>2. Len(ids) = TRADE_DEDUP_WINDOW /\ ids' = Remembered(tpos[p] + 1)
                /\ out[tpos[p] + 1] = 0
            BY <2>1, <2>2, <2>5, <6>1 DEF n, W, k
          <6> QED BY <1>2, <1>6, <4>3, <6>1, <6>2, EvictedIsFar DEF W
        <5> QED BY <5>1, <5>2
      <4> QED BY <1>2, <4>1, <4>2, <4>3 DEF WindowCounts, Contains, n, W
    <3> QED BY <3>2, <3>3
  <2>8. \A m \in 1..Len(prints) : out'[m] <= 1
    BY <1>2, <2>3 DEF WindowCounts
  <2>9. \A q \in TapePath : Cardinality(Unsent(tpos[q]))' <= lst
    BY <2>4
  <2>10. \A i \in 1..Len(ids)' : Cardinality(Debt(i))' <= lst
    BY <2>6
  <2> QED BY <1>1, <2>7, <2>8, <2>9, <2>10 DEF WindowCounts, W
<1> QED BY <1>9, <1>10

\* A print that is lost on one path: one more that may be missing below any point.
LEMMA LossKeeps ==
  ASSUME TapeInv, NEW p \in TapePath, LosesPrint(p)
  PROVE  TapeInv'
<1> DEFINE k == tpos[p] + 1
<1>1. TapeType /\ ElectionSpent /\ CopiesDue /\ OwnedTape /\ WindowHolds /\ NamedTape
  BY DEF TapeInv
<1>2. /\ k \in 1..Len(prints) /\ tpos' = [tpos EXCEPT ![p] = @ + 1]
      /\ tapeLog' = [tapeLog EXCEPT !.lost = @ + 1]
      /\ UNCHANGED <<tnow, sticky, noId, prints, tracked, elected, tlead, noIdOwner, ids, out>>
  BY <1>1 DEF LosesPrint, TapeType
<1>3. TapeType'
  BY <1>1, OthersStep
<1>4. /\ \A q \in TapePath : tpos[q] \in Nat /\ tpos'[q] \in Nat /\ tpos[q] <= tpos'[q]
      /\ tpos'[p] = k /\ \A q \in TapePath \ {p} : tpos'[q] = tpos[q]
  BY <1>1, <1>2 DEF TapeType
<1>5. /\ tapeLog.lost \in Nat /\ tapeLog'.lost = tapeLog.lost + 1
      /\ tapeLog'.yields = tapeLog.yields /\ tapeLog'.abrupt = tapeLog.abrupt
      /\ tapeLog'.conflict = tapeLog.conflict /\ tapeLog'.overrun = tapeLog.overrun
  <2>1. tapeLog \in LogState
    BY <1>1 DEF TapeType
  <2> QED BY <1>2, <2>1 DEF LogState
<1>6. ElectionSpent'
  BY <1>1, <1>2, <1>5 DEF ElectionSpent
<1>7. CopiesDue'
  BY <1>1, <1>2, <1>4 DEF CopiesDue, TapeType
<1>8. OwnedTape'
  <2>1. ASSUME NEW lead \in IdOwner \cup TapeLead \cup {Nobody}, BehindOwner(lead),
               NEW j \in 1..Len(prints), out[j] > 0
        PROVE  lead # Nobody /\ prints[j].at <= lead.last_ns /\ j <= tpos'[lead.path]
    <3>1. lead # Nobody /\ prints[j].at <= lead.last_ns /\ j <= tpos[lead.path]
      BY <2>1 DEF BehindOwner
    <3>2. lead.path \in TapePath
      BY <3>1 DEF IdOwner, TapeLead
    <3> QED BY <1>4, <3>1, <3>2
  <2>2. tlead \in IdOwner \cup TapeLead \cup {Nobody} /\ noIdOwner \in IdOwner \cup TapeLead \cup {Nobody}
    BY <1>1 DEF TapeType
  <2>3. BehindOwner(tlead) => BehindOwner(tlead)'
    BY <1>2, <2>1, <2>2 DEF BehindOwner
  <2>4. BehindOwner(noIdOwner) => BehindOwner(noIdOwner)'
    BY <1>2, <2>1, <2>2 DEF BehindOwner
  <2> QED BY <1>1, <1>2, <1>5, <2>3, <2>4 DEF OwnedTape
<1>9. WindowHolds'
  <2>1. ASSUME NEW q \in TapePath, \A i \in 1..Len(ids) : ids[i] <= tpos[q]
        PROVE  \A i \in 1..Len(ids) : ids[i] <= tpos'[q]
    BY <1>1, <1>4, <2>1 DEF TapeType
  <2> QED BY <1>1, <1>2, <2>1 DEF WindowHolds
<1>10. ASSUME WindowCounts PROVE WindowCounts'
  <2>1. ASSUME NEW q \in TapePath PROVE Cardinality(Unsent(tpos[q]))' <= tapeLog.lost + 1
    <3> DEFINE S == Unsent(tpos[q])
    <3>1. IsFiniteSet(S) /\ Cardinality(S) <= tapeLog.lost
      BY <1>1, <1>4, <1>10, DebtsFinite DEF WindowCounts
    <3>2. /\ IsFiniteSet(S \cup {k}) /\ Cardinality(S) \in Nat
          /\ Cardinality(S \cup {k}) <= Cardinality(S) + 1
      <4> HIDE DEF S, k
      <4>1. Cardinality(S) \in Nat
        BY <3>1, FS_CardinalityType
      <4>2. /\ IsFiniteSet(S \cup {k})
            /\ Cardinality(S \cup {k}) = IF k \in S THEN Cardinality(S) ELSE Cardinality(S) + 1
        BY <3>1, FS_AddElement, Zenon
      <4> QED BY <4>1, <4>2
    <3>3. Unsent(tpos[q])' \subseteq S \cup {k}
      BY <1>2, <1>4 DEF Unsent
    <3>4. Cardinality(S \cup {k}) \in Nat
      BY <3>2, FS_CardinalityType
    <3> HIDE DEF S, k
    <3>5. Cardinality(S \cup {k}) <= tapeLog.lost + 1
      BY <1>5, <3>1, <3>2, <3>4
    <3> QED BY <1>5, <3>2, <3>3, <3>5, FewerDebts
  <2>2. ASSUME NEW i \in 1..Len(ids) PROVE Cardinality(Debt(i))' <= tapeLog.lost + 1
    <3>1. Debt(i)' = Debt(i)
      BY <1>2 DEF Debt
    <3>2. Cardinality(Debt(i)) <= tapeLog.lost /\ IsFiniteSet(Debt(i))
      BY <1>1, <1>10, DebtsFinite DEF WindowCounts
    <3>3. Cardinality(Debt(i)) \in Nat
      BY <3>2, FS_CardinalityType
    <3> QED BY <1>5, <3>1, <3>2, <3>3
  <2>3. ASSUME NEW m \in 1..Len(prints), NEW q \in TapePath,
               tpos[q] + tapeLog.lost >= m + TRADE_DEDUP_WINDOW
        PROVE  tpos'[q] + tapeLog'.lost >= m + TRADE_DEDUP_WINDOW
    <3>1. tpos[q] \in Nat /\ tpos'[q] \in Nat /\ tpos[q] <= tpos'[q] /\ TRADE_DEDUP_WINDOW \in Nat
      BY <1>4, TapeAssumption
    <3> QED BY <1>5, <2>3, <3>1
  <2>4. \A m \in 1..Len(prints) :
          /\ out[m] <= 1
          /\ out[m] > 0 => \/ Contains(ids, m)
                           \/ \E q \in TapePath :
                                tpos'[q] + tapeLog'.lost >= m + TRADE_DEDUP_WINDOW
    BY <1>10, <2>3 DEF WindowCounts
  <2> QED BY <1>2, <1>5, <2>1, <2>2, <2>4 DEF WindowCounts
<1> QED BY <1>1, <1>2, <1>3, <1>5, <1>6, <1>7, <1>8, <1>9, <1>10 DEF TapeInv, NamedTape

\* A new print of the venue has not gone out, is due, and is above every id of the window.
LEMMA VenuePrintsKeeps ==
  ASSUME TapeInv, NEW sig \in Signature, VenuePrints(sig)
  PROVE  TapeInv'
<1> DEFINE n == Len(prints)
           e == [sig |-> sig, at |-> tnow]
<1>1. TapeType /\ ElectionSpent /\ CopiesDue /\ OwnedTape /\ WindowHolds /\ NamedTape
  BY DEF TapeInv
<1>2. /\ prints' = Append(prints, e) /\ out' = Append(out, 0)
      /\ UNCHANGED <<tnow, sticky, noId, tpos, tracked, elected, tlead, noIdOwner, ids, tapeLog>>
  BY DEF VenuePrints
<1>3. TapeType'
  BY <1>1, OthersStep
<1>4. /\ n \in Nat /\ Len(prints') = n + 1 /\ prints'[n + 1].at = tnow
      /\ \A k \in 1..n : prints'[k] = prints[k] /\ out'[k] = out[k]
      /\ out'[n + 1] = 0
  <2>1. prints \in Seq(TapePrint) /\ out \in Seq(Nat) /\ Len(out) = Len(prints) /\ e.at = tnow
    BY <1>1 DEF TapeType
  <2>2. e \in TapePrint
    BY <1>1 DEF TapeType, TapePrint
  <2> HIDE DEF e
  <2> QED BY <1>2, <2>1, <2>2
<1>5. \A k \in 1..Len(prints') : k \in 1..n \/ k = n + 1
  BY <1>4
<1>6. \A q \in TapePath : tpos[q] \in Nat /\ tpos[q] <= n
  BY <1>1 DEF TapeType
<1>7. ElectionSpent'
  BY <1>1, <1>2 DEF ElectionSpent
<1>8. CopiesDue'
  <2>1. tnow \in Nat /\ TapeLag \in Nat
    BY <1>1, TapeAssumption DEF TapeType
  <2> SUFFICES ASSUME NEW k \in 1..Len(prints')
               PROVE  /\ prints'[k].at <= tnow
                      /\ \A p \in TapePath : k > tpos[p] => tnow - prints'[k].at <= TapeLag
    BY <1>2 DEF CopiesDue
  <2>2. CASE k \in 1..n
    BY <1>1, <1>4, <2>2 DEF CopiesDue
  <2>3. CASE k = n + 1
    BY <1>4, <2>1, <2>3
  <2> QED BY <1>5, <2>2, <2>3
<1>9. OwnedTape'
  <2>1. ASSUME NEW lead, BehindOwner(lead), NEW k \in 1..Len(prints')
        PROVE  /\ out'[k] <= 1
               /\ out'[k] > 0 => /\ lead # Nobody /\ prints'[k].at <= lead.last_ns
                                 /\ k <= tpos[lead.path]
    <3>1. CASE k \in 1..n
      BY <1>4, <2>1, <3>1 DEF BehindOwner
    <3>2. CASE k = n + 1
      BY <1>4, <3>2
    <3> QED BY <1>5, <3>1, <3>2
  <2> HIDE DEF n
  <2>2. BehindOwner(tlead) => BehindOwner(tlead)'
    BY <1>2, <2>1 DEF BehindOwner
  <2>3. BehindOwner(noIdOwner) => BehindOwner(noIdOwner)'
    BY <1>2, <2>1 DEF BehindOwner
  <2> QED BY <1>1, <1>2, <2>2, <2>3 DEF OwnedTape
<1>10. WindowHolds'
  <2>1. ASSUME NEW i \in 1..Len(ids) PROVE ids[i] \in 1..Len(prints') /\ out'[ids[i]] > 0
    <3>1. ids[i] \in 1..n /\ out[ids[i]] > 0
      BY <1>1 DEF WindowHolds
    <3> HIDE DEF n
    <3> QED BY <1>4, <3>1
  <2> QED BY <1>1, <1>2, <2>1 DEF WindowHolds
<1>11. ASSUME WindowCounts PROVE WindowCounts'
  <2>1. ASSUME NEW q \in TapePath PROVE Unsent(tpos[q])' = Unsent(tpos[q])
    <3>1. \A j \in 1..tpos[q] : j \in 1..n
      BY <1>4, <1>6
    <3> HIDE DEF n
    <3> QED BY <1>2, <1>4, <3>1 DEF Unsent
  <2>2. ASSUME NEW i \in 1..Len(ids) PROVE Debt(i)' = Debt(i)
    <3>1. ids[i] \in 1..n
      BY <1>1 DEF WindowHolds
    <3>2. \A j \in 1..ids[i] - 1 : j \in 1..n
      BY <1>4, <3>1
    <3> HIDE DEF n
    <3> QED BY <1>2, <1>4, <3>2 DEF Debt
  <2>3. ASSUME NEW m \in 1..Len(prints')
        PROVE  /\ out'[m] <= 1
               /\ out'[m] > 0 => \/ Contains(ids, m)
                    \/ \E q \in TapePath : tpos[q] + tapeLog.lost >= m + TRADE_DEDUP_WINDOW
    <3>1. CASE m \in 1..n
      BY <1>4, <1>11, <3>1 DEF WindowCounts
    <3>2. CASE m = n + 1
      BY <1>4, <3>2
    <3> QED BY <1>5, <3>1, <3>2
  <2> HIDE DEF n
  <2>4. (\A q \in TapePath : Cardinality(Unsent(tpos[q])) <= tapeLog.lost)'
    BY <1>2, <1>11, <2>1 DEF WindowCounts
  <2>5. (\A i \in 1..Len(ids) : Cardinality(Debt(i)) <= tapeLog.lost)'
    BY <1>2, <1>11, <2>2 DEF WindowCounts
  <2> QED BY <1>2, <2>3, <2>4, <2>5 DEF WindowCounts
<1> QED BY <1>1, <1>2, <1>3, <1>7, <1>8, <1>9, <1>10, <1>11 DEF TapeInv, NamedTape

\* Time and the authority: an election resets what it allows, and nothing else moves.
LEMMA AuthorityKeeps ==
  ASSUME TapeInv, TapeTick \/ \E p \in TapePath : Tracks(p) \/ Elects(p)
  PROVE  TapeInv'
<1>1. TapeType /\ ElectionSpent /\ CopiesDue /\ OwnedTape /\ WindowHolds /\ NamedTape
  BY DEF TapeInv
<1>2. UNCHANGED <<sticky, noId, prints, tpos, tlead, noIdOwner, ids, out>>
  BY DEF TapeTick, Tracks, Elects
<1>3. TapeType'
  BY <1>1, OthersStep
<1>4. ElectionSpent'
  <2>1. CASE TapeTick
    BY <1>1, <2>1 DEF TapeTick, ElectionSpent
  <2>2. ASSUME NEW p \in TapePath, Tracks(p) PROVE ElectionSpent'
    BY <1>1, <2>2 DEF Tracks, ElectionSpent
  <2>3. ASSUME NEW p \in TapePath, Elects(p) PROVE ElectionSpent'
    <3>1. tapeLog \in LogState
      BY <1>1 DEF TapeType
    <3>2. tapeLog'.yields = 0
      BY <2>3, <3>1 DEF Elects, LogState
    <3> QED BY <3>2 DEF ElectionSpent
  <2> QED BY <2>1, <2>2, <2>3
<1>5. /\ tapeLog'.lost = tapeLog.lost /\ tapeLog'.abrupt = tapeLog.abrupt
      /\ tapeLog'.conflict = tapeLog.conflict /\ tapeLog'.overrun = tapeLog.overrun
  <2>1. tapeLog \in LogState
    BY <1>1 DEF TapeType
  <2> QED BY <2>1 DEF TapeTick, Tracks, Elects, LogState
<1>6. CopiesDue'
  <2>1. CASE TapeTick
    <3>1. tnow' = tnow + 1 /\ prints' = prints /\ tpos' = tpos
      BY <2>1 DEF TapeTick
    <3> SUFFICES ASSUME NEW k \in 1..Len(prints)
                 PROVE  /\ prints[k].at <= tnow'
                        /\ \A q \in TapePath : k > tpos[q] => tnow' - prints[k].at <= TapeLag
      BY <3>1 DEF CopiesDue
    <3>2. prints[k].at \in Nat /\ tnow \in Nat
      <4>1. prints[k] \in TapePrint /\ tnow \in Nat
        BY <1>1 DEF TapeType
      <4> QED BY <4>1 DEF TapePrint
    <3>3. prints[k].at <= tnow
      BY <1>1 DEF CopiesDue
    <3>4. ASSUME NEW q \in TapePath, k > tpos[q] PROVE tnow - prints[k].at < TapeLag
      <4>1. k \in tpos[q] + 1 .. Len(prints)
        BY <1>1, <3>4 DEF TapeType
      <4> QED BY <2>1, <4>1 DEF TapeTick
    <3> QED BY <3>1, <3>2, <3>3, <3>4, TapeAssumption
  <2>2. CASE \E p \in TapePath : Tracks(p) \/ Elects(p)
    BY <1>1, <1>2, <2>2 DEF Tracks, Elects, CopiesDue
  <2> QED BY <2>1, <2>2
<1>7. OwnedTape' /\ WindowHolds'
  BY <1>1, <1>2, <1>5 DEF OwnedTape, BehindOwner, WindowHolds
<1>8. NamedTape'
  <2>1. WindowCounts => WindowCounts'
    BY <1>2, <1>5 DEF WindowCounts, Unsent, Debt
  <2> QED BY <1>1, <1>2, <1>5, <2>1 DEF NamedTape
<1> QED BY <1>3, <1>4, <1>6, <1>7, <1>8 DEF TapeInv

\* The inductive invariant of the tape.
THEOREM TapeSafe == TapeSpec => []TapeInv
<1>1. TapeInv /\ [TapeNext]_tapeVars => TapeInv'
  <2> SUFFICES ASSUME TapeInv, [TapeNext]_tapeVars PROVE TapeInv'
    OBVIOUS
  <2>1. ASSUME NEW p \in TapePath, PathPrints(p) PROVE TapeInv'
    BY <2>1, PathPrintsStep, ElectionKeeps, DueKeeps, OwnedKeeps, WindowHoldsKeeps, NamedKeeps
      DEF TapeInv
  <2>2. CASE UNCHANGED tapeVars
    <3> USE <2>2 DEF tapeVars
    <3>1. TapeType => TapeType'
      BY DEF TapeType
    <3>2. ElectionSpent /\ CopiesDue /\ OwnedTape => (ElectionSpent /\ CopiesDue /\ OwnedTape)'
      BY DEF ElectionSpent, CopiesDue, OwnedTape, BehindOwner
    <3>3. WindowHolds /\ NamedTape => (WindowHolds /\ NamedTape)'
      BY DEF WindowHolds, NamedTape, WindowCounts, Unsent, Debt
    <3> QED BY <3>1, <3>2, <3>3 DEF TapeInv
  <2> QED BY <2>1, <2>2, LossKeeps, VenuePrintsKeeps, AuthorityKeeps DEF TapeNext
<1> QED BY TapeStarts, <1>1, PTL DEF TapeSpec

\* tape_path_admits: with any number of paths and elections, an election moves the tape
\* from a live, tracked mirror at most once.
THEOREM TapeDefersOnce == TapeSpec => []DefersOnce
<1>1. TapeInv => DefersOnce
  BY DEF TapeInv, ElectionSpent, DefersOnce
<1> QED BY TapeSafe, <1>1, PTL

\* The trade arm of emit_scoped: for every set of paths, every length of the window and
\* every lag within the handover, no print goes out twice unseen.
THEOREM TapePrintedOnce == TapeSpec => []PrintedOnce
<1>1. TapeInv => PrintedOnce
  <2> SUFFICES ASSUME TapeInv, NEW k \in 1..Len(prints), out[k] > 1,
                      ~tapeLog.abrupt, ~tapeLog.conflict, ~tapeLog.overrun,
                      sticky \/ noId = {} \/ noId = TapePath
               PROVE  FALSE
    BY DEF PrintedOnce
  <2>1. sticky \in BOOLEAN /\ out[k] \in Nat
    BY DEF TapeInv, TapeType
  <2>2. out[k] <= 1
    BY <2>1 DEF TapeInv, OwnedTape, BehindOwner, NamedTape, WindowCounts
  <2> QED BY <2>1, <2>2
<1> QED BY TapeSafe, <1>1, PTL

-----------------------------------------------------------------------------
(* The order-level sink.                                                    *)

Message == [n : Nat, batch : Batch]
Entry == Frame \cup {Bare, Resync}
Sizes == [SinkOrder -> Nat]

Rendered(x) == x # Bare /\ x # Resync
Touches(b, o) == b.clear = TRUE \/ \E i \in DOMAIN b.changes : b.changes[i].order = o
Val(b, o) == IF b.clear = TRUE THEN b.orders[o] ELSE FinalSize(b.changes, o)
Hit(x, o) == Rendered(x) /\ Touches(x.batch, o)

\* The last of the first h entries that names order o is the l-th; there is none.
LastIn(q, l, h, o) == Hit(q[l], o) /\ \A k \in l + 1 .. h : ~Hit(q[k], o)
NoneIn(q, h, o) == \A k \in 1..h : ~Hit(q[k], o)

\* What a client that holds `copy` holds of order o once it has read the first h entries.
Reads(copy, q, h, o, z) ==
  \/ NoneIn(q, h, o) /\ z = copy[o]
  \/ \E l \in 1..h : LastIn(q, l, h, o) /\ z = Val(q[l].batch, o)

\* No Resync is after the i-th entry up to the h-th.
Calm(q, i, h) == \A k \in i + 1 .. h : q[k] # Resync

\* The i-th entry is a whole book with every batch after it rendered.
Whole(q, i) ==
  /\ Rendered(q[i]) /\ q[i].batch.clear = TRUE
  /\ \A k \in i + 1 .. Len(q) : q[k] # Bare

Diff(x) == Rendered(x) /\ x.batch.clear = FALSE

\* Each change of order o that a frame tells says whether the order is held at size z.
Says(x, o, z) ==
  \A i \in DOMAIN x.batch.changes : x.batch.changes[i].order = o =>
    (x.told[i] = "update" => z # 0) /\ (x.told[i] = "new" => z = 0)

QueueFit(q) ==
  \A i, l, j \in DOMAIN q : \A o \in SinkOrder :
    /\ i <= l /\ l < j /\ Whole(q, i) /\ Calm(q, i, j - 1) /\ Diff(q[j]) /\ q[j].n > q[i].n
    /\ LastIn(q, l, j - 1, o)
    => Says(q[j], o, Val(q[l].batch, o))

BookFit(copy, base, q) ==
  \A j \in DOMAIN q : \A o \in SinkOrder : \A z \in Nat :
    /\ Calm(q, 0, j - 1) /\ Diff(q[j]) /\ q[j].n > base
    /\ Reads(copy, q, j - 1, o, z)
    => Says(q[j], o, z)

\* No batch on its way to the stage that names o is up to `base` or before `sure`.
Onward(P, o, base, sure) == \A m \in P : Touches(m.batch, o) => m.n > base /\ m.n >= sure
Settled(P, o) == \A m \in P : ~Touches(m.batch, o)

QueueStage(q, P, sure, sizes) ==
  \A i, l \in DOMAIN q : \A o \in SinkOrder :
    /\ i <= l /\ Whole(q, i) /\ Calm(q, i, Len(q)) /\ LastIn(q, l, Len(q), o)
    /\ Onward(P, o, q[i].n, sure)
    => sizes[o] = Val(q[l].batch, o)

BookStage(copy, base, q, P, sure, sizes) ==
  Calm(q, 0, Len(q)) =>
    \A o \in SinkOrder : \A z \in Nat :
      Reads(copy, q, Len(q), o, z) /\ Onward(P, o, base, sure) => sizes[o] = z

QueueNow(q, P, orders) ==
  \A l \in DOMAIN q : \A o \in SinkOrder :
    /\ LastIn(q, l, Len(q), o) /\ Settled(P, o)
    /\ \A k \in l + 1 .. Len(q) : Rendered(q[k])
    => Val(q[l].batch, o) = orders[o]

BookNow(copy, q, P, orders) ==
  Calm(q, 0, Len(q)) =>
    \A o \in SinkOrder : Settled(P, o) /\ NoneIn(q, Len(q), o) => copy[o] = orders[o]

PendNow(P, orders) ==
  \A m \in P : \A o \in SinkOrder :
    Touches(m.batch, o) /\ (\A k \in P : k.n > m.n => ~Touches(k.batch, o))
      => Val(m.batch, o) = orders[o]

StageNow(P, sizes, orders) == \A o \in SinkOrder : Settled(P, o) => sizes[o] = orders[o]

\* m is the oldest of P.
Oldest(P, m) == m \in P /\ \A k \in P : k # m => k.n > m.n

-----------------------------------------------------------------------------
\* Sequences over a set, element by element.
LEMMA SeqIs ==
  ASSUME NEW S
  PROVE  /\ \A c \in Seq(S) : \A i \in DOMAIN c : c[i] \in S
         /\ \A k \in Nat : \A c \in [1..k -> S] : c \in Seq(S)
OBVIOUS

\* Of the changes of an order there is a last one.
LEMMA LastChange ==
  ASSUME NEW c \in Seq([order : SinkOrder, size : Nat]), NEW o,
         \E i \in DOMAIN c : c[i].order = o
  PROVE  FinalSize(c, o) \in Nat
<1> DEFINE mine == {i \in DOMAIN c : c[i].order = o}
           S == {Len(c) - i : i \in mine}
<1>1. DOMAIN c = 1..Len(c) /\ Len(c) \in Nat
  OBVIOUS
<1>2. S \in SUBSET Nat /\ S # {}
  BY <1>1
<1>3. PICK k \in S : \A j \in S : k <= j
  <2> HIDE DEF S
  <2> QED BY <1>2, LeastExists
<1>4. PICK i \in mine : k = Len(c) - i
  BY <1>3
<1>5. \A j \in mine : j <= i
  <2> SUFFICES ASSUME NEW j \in mine PROVE j <= i
    OBVIOUS
  <2>1. Len(c) - i <= Len(c) - j
    BY <1>3, <1>4
  <2>2. i \in Int /\ j \in Int
    BY <1>1
  <2> QED BY <1>1, <2>1, <2>2
<1>6. (CHOOSE h \in mine : \A j \in mine : j <= h) \in mine
  <2> HIDE DEF mine
  <2> QED BY <1>5
<1>7. \A h \in mine : c[h].size \in Nat
  <2>1. \A h \in DOMAIN c : c[h] \in [order : SinkOrder, size : Nat]
    BY SeqIs, Zenon
  <2> QED BY <2>1
<1> QED BY <1>6, <1>7 DEF FinalSize

\* A batch is one of two.
LEMMA BatchIs ==
  ASSUME NEW b \in Batch
  PROVE  /\ b.clear \in BOOLEAN
         /\ b.clear = TRUE => b.orders \in Sizes
         /\ b.clear = FALSE => b.changes \in Seq([order : SinkOrder, size : Nat])
         /\ \A o \in SinkOrder : Touches(b, o) => Val(b, o) \in Nat
<1>1. CASE b \in [clear : {TRUE}, orders : [SinkOrder -> Nat]]
  BY <1>1 DEF Sizes, Val
<1>2. CASE b \in [clear : {FALSE}, changes : Seq([order : SinkOrder, size : Nat])]
  <2>1. b.clear = FALSE /\ b.changes \in Seq([order : SinkOrder, size : Nat])
    BY <1>2
  <2>2. \A o : Touches(b, o) => Val(b, o) \in Nat
    BY <2>1, LastChange DEF Touches, Val
  <2> QED BY <2>1, <2>2
<1> QED BY <1>1, <1>2 DEF Batch

\* Put sets what the batch names.
LEMMA PutIs ==
  ASSUME NEW b \in Batch, NEW f \in Sizes
  PROVE  /\ Put(f, b) \in Sizes
         /\ \A o \in SinkOrder : Put(f, b)[o] = IF Touches(b, o) THEN Val(b, o) ELSE f[o]
<1>1. CASE b.clear = TRUE
  BY <1>1, BatchIs DEF Put, Touches, Val
<1>2. CASE b.clear = FALSE
  <2>1. \A o : o \in Names(b) <=> Touches(b, o)
    BY <1>2 DEF Names, Touches
  <2>2. Put(f, b) = [o \in SinkOrder |-> IF Touches(b, o) THEN Val(b, o) ELSE f[o]]
    BY <1>2, <2>1 DEF Put, Val
  <2>3. \A o \in SinkOrder : (IF Touches(b, o) THEN Val(b, o) ELSE f[o]) \in Nat
    BY BatchIs DEF Sizes
  <2> QED BY <2>2, <2>3 DEF Sizes
<1> QED BY <1>1, <1>2, BatchIs

\* An entry that is rendered is a frame.
LEMMA RenderedIs ==
  ASSUME NEW x \in Entry
  PROVE  (Rendered(x) <=> x \in Frame) /\ (x \in Frame => x.n \in Nat /\ x.batch \in Batch)
BY SinkConstants DEF Entry, Rendered, Frame

\* Append, entry by entry.
LEMMA AppendIs ==
  ASSUME NEW q \in Seq(Entry), NEW x \in Entry
  PROVE  /\ Append(q, x) \in Seq(Entry) /\ Len(q) \in Nat /\ Len(Append(q, x)) = Len(q) + 1
         /\ DOMAIN q = 1..Len(q) /\ DOMAIN Append(q, x) = 1 .. Len(q) + 1
         /\ \A k \in 1..Len(q) : Append(q, x)[k] = q[k] /\ q[k] \in Entry
         /\ Append(q, x)[Len(q) + 1] = x
OBVIOUS

\* Tail, entry by entry.
LEMMA TailIs ==
  ASSUME NEW q \in Seq(Entry), q # <<>>
  PROVE  /\ Tail(q) \in Seq(Entry) /\ Len(q) \in Nat \ {0} /\ Len(Tail(q)) = Len(q) - 1
         /\ DOMAIN q = 1..Len(q) /\ DOMAIN Tail(q) = 1 .. Len(q) - 1
         /\ \A k \in 1 .. Len(q) - 1 : Tail(q)[k] = q[k + 1]
         /\ \A k \in 1..Len(q) : q[k] \in Entry
OBVIOUS

-----------------------------------------------------------------------------
(* The client's queue gets one more entry.                                  *)

\* What holds between the entries of a queue holds of them in the longer one.
LEMMA GrownSame ==
  ASSUME NEW q \in Seq(Entry), NEW x \in Entry, NEW r, r = Append(q, x)
  PROVE  /\ \A i \in 1..Len(q) : Whole(r, i) => Whole(q, i)
         /\ \A i \in Nat, h \in 0..Len(q) : Calm(r, i, h) <=> Calm(q, i, h)
         /\ \A l \in 1..Len(q), h \in 0..Len(q) : \A o : LastIn(r, l, h, o) <=> LastIn(q, l, h, o)
         /\ \A h \in 0..Len(q) : \A o : NoneIn(r, h, o) <=> NoneIn(q, h, o)
         /\ \A i \in Nat : Calm(r, i, Len(q) + 1) => Calm(q, i, Len(q))
         /\ \A i \in 0..Len(q) : Calm(r, i, Len(q) + 1) => x # Resync
<1>1. /\ Len(q) \in Nat /\ Len(r) = Len(q) + 1 /\ DOMAIN q = 1..Len(q)
      /\ \A k \in 1..Len(q) : r[k] = q[k]
      /\ r[Len(q) + 1] = x
  BY AppendIs
<1>2. \A i \in 1..Len(q) : Whole(r, i) => Whole(q, i)
  BY <1>1 DEF Whole
<1>3. \A i \in Nat, h \in 0..Len(q) : Calm(r, i, h) <=> Calm(q, i, h)
  BY <1>1 DEF Calm
<1>4. \A l \in 1..Len(q), h \in 0..Len(q) : \A o : LastIn(r, l, h, o) <=> LastIn(q, l, h, o)
  <2> SUFFICES ASSUME NEW l \in 1..Len(q), NEW h \in 0..Len(q), NEW o
               PROVE  LastIn(r, l, h, o) <=> LastIn(q, l, h, o)
    OBVIOUS
  <2>1. \A k \in l + 1 .. h : r[k] = q[k]
    BY <1>1
  <2> QED BY <1>1, <2>1 DEF LastIn
<1>5. \A h \in 0..Len(q) : \A o : NoneIn(r, h, o) <=> NoneIn(q, h, o)
  <2> SUFFICES ASSUME NEW h \in 0..Len(q), NEW o
               PROVE  NoneIn(r, h, o) <=> NoneIn(q, h, o)
    OBVIOUS
  <2>1. \A k \in 1..h : r[k] = q[k]
    BY <1>1
  <2> QED BY <2>1 DEF NoneIn
<1>6. \A i \in Nat : Calm(r, i, Len(q) + 1) => Calm(q, i, Len(q))
  BY <1>1 DEF Calm
<1>7. \A i \in 0..Len(q) : Calm(r, i, Len(q) + 1) => x # Resync
  BY <1>1 DEF Calm
<1> QED BY <1>2, <1>3, <1>4, <1>5, <1>6, <1>7

GrownFrom(q, x, r, l, o) ==
  \/ Hit(x, o) /\ l = Len(q) + 1 /\ r[l] = x
  \/ ~Hit(x, o) /\ l \in 1..Len(q) /\ r[l] = q[l] /\ LastIn(q, l, Len(q), o)

\* The last entry that names an order, in the longer queue.
LEMMA GrownLast ==
  ASSUME NEW q \in Seq(Entry), NEW x \in Entry, NEW r, r = Append(q, x),
         NEW l \in 1 .. Len(q) + 1, NEW o, LastIn(r, l, Len(q) + 1, o)
  PROVE  GrownFrom(q, x, r, l, o)
<1>1. /\ Len(q) \in Nat /\ Len(r) = Len(q) + 1
      /\ \A k \in 1..Len(q) : r[k] = q[k]
      /\ r[Len(q) + 1] = x
  BY AppendIs
<1>2. CASE l = Len(q) + 1
  BY <1>1, <1>2 DEF LastIn, GrownFrom
<1>3. CASE l \in 1..Len(q)
  <2>1. ~Hit(x, o)
    BY <1>1, <1>3 DEF LastIn
  <2>2. LastIn(r, l, Len(q), o)
    BY <1>1, <1>3 DEF LastIn
  <2>3. LastIn(q, l, Len(q), o)
    <3>1. Len(q) \in 0..Len(q)
      BY <1>1
    <3> QED BY <1>3, <2>2, <3>1, GrownSame
  <2> QED BY <1>1, <1>3, <2>1, <2>3 DEF GrownFrom
<1> QED BY <1>1, <1>2, <1>3

\* What a client will have read of the longer queue.
LEMMA GrownReads ==
  ASSUME NEW q \in Seq(Entry), NEW x \in Entry, NEW r, r = Append(q, x), NEW copy, NEW o, NEW z
  PROVE  /\ \A h \in 0..Len(q) : Reads(copy, r, h, o, z) => Reads(copy, q, h, o, z)
         /\ Reads(copy, r, Len(q) + 1, o, z) =>
              \/ Hit(x, o) /\ z = Val(x.batch, o)
              \/ ~Hit(x, o) /\ Reads(copy, q, Len(q), o, z)
<1>1. /\ Len(q) \in Nat
      /\ \A k \in 1..Len(q) : r[k] = q[k]
      /\ r[Len(q) + 1] = x
  BY AppendIs
<1>2. ASSUME NEW h \in 0..Len(q), Reads(copy, r, h, o, z)
      PROVE  Reads(copy, q, h, o, z)
  <2>1. CASE NoneIn(r, h, o) /\ z = copy[o]
    BY <2>1, GrownSame DEF Reads
  <2>2. CASE \E l \in 1..h : LastIn(r, l, h, o) /\ z = Val(r[l].batch, o)
    <3>1. PICK l \in 1..h : LastIn(r, l, h, o) /\ z = Val(r[l].batch, o)
      BY <2>2
    <3>2. l \in 1..Len(q)
      BY <1>1
    <3>3. LastIn(q, l, h, o) /\ r[l] = q[l]
      BY <1>1, <3>1, <3>2, GrownSame
    <3> QED BY <3>1, <3>3 DEF Reads
  <2> QED BY <1>2, <2>1, <2>2, Zenon DEF Reads
<1>3. ASSUME Reads(copy, r, Len(q) + 1, o, z)
      PROVE  \/ Hit(x, o) /\ z = Val(x.batch, o)
             \/ ~Hit(x, o) /\ Reads(copy, q, Len(q), o, z)
  <2>1. CASE NoneIn(r, Len(q) + 1, o) /\ z = copy[o]
    <3>1. ~Hit(x, o) /\ NoneIn(r, Len(q), o)
      BY <1>1, <2>1 DEF NoneIn
    <3>2. Len(q) \in 0..Len(q)
      BY <1>1
    <3>3. NoneIn(q, Len(q), o)
      BY <3>1, <3>2, GrownSame
    <3> QED BY <2>1, <3>1, <3>3, Zenon DEF Reads
  <2>2. CASE \E l \in 1 .. Len(q) + 1 : LastIn(r, l, Len(q) + 1, o) /\ z = Val(r[l].batch, o)
    <3>1. PICK l \in 1 .. Len(q) + 1 : LastIn(r, l, Len(q) + 1, o) /\ z = Val(r[l].batch, o)
      BY <2>2
    <3>2. GrownFrom(q, x, r, l, o)
      BY <3>1, GrownLast
    <3> QED BY <3>1, <3>2, Zenon DEF Reads, GrownFrom
  <2> QED BY <1>3, <2>1, <2>2, Zenon DEF Reads
<1> QED BY <1>2, <1>3

\* A frame that claims nothing of what the client holds.
Mute(x) == \A i \in DOMAIN x.batch.changes : x.told[i] \notin {"update", "new"}

\* What the stage renders of batch m: the frame x says of an order what the sizes before it do.
RenderedAs(x, m, sure, sizes) ==
  /\ x \in Frame /\ x.n = m.n /\ x.batch = m.batch
  /\ Diff(x) => Mute(x) \/ (x.n >= sure /\ \A o \in SinkOrder : Says(x, o, sizes[o]))

\* The oldest batch is ahead of an anchor when its frame is, and so are those after it.
LEMMA AheadOf ==
  ASSUME NEW P \in SUBSET Message, NEW m, Oldest(P, m), NEW a \in Int, NEW sure \in Nat,
         m.n > a, m.n >= sure, NEW o
  PROVE  Onward(P, o, a, sure)
<1> SUFFICES ASSUME NEW k \in P PROVE k.n > a /\ k.n >= sure
  BY DEF Onward
<1>1. k.n \in Nat /\ m.n \in Nat /\ (k = m \/ k.n > m.n)
  BY DEF Oldest, Message
<1> QED BY <1>1

\* Without a batch that does not name o, what is left and all are alike for o.
LEMMA AheadWithout ==
  ASSUME NEW P, NEW m, NEW a, NEW sure, NEW o, ~Touches(m.batch, o)
  PROVE  /\ Onward(P \ {m}, o, a, sure) => Onward(P, o, a, sure)
         /\ Settled(P \ {m}, o) => Settled(P, o)
BY DEF Onward, Settled

\* What the frames in the queue tell stays right.
LEMMA FitGrows ==
  ASSUME NEW q \in Seq(Entry), QueueFit(q), NEW P \in SUBSET Message, NEW m, Oldest(P, m),
         NEW sure \in Nat, NEW sizes \in Sizes, NEW x, RenderedAs(x, m, sure, sizes),
         sure <= m.n => QueueStage(q, P, sure, sizes), NEW r, r = Append(q, x)
  PROVE  QueueFit(r)
<1>0. x \in Entry /\ x.n \in Nat /\ x.batch \in Batch /\ m.n \in Nat
  BY DEF RenderedAs, Entry, Frame
<1>1. /\ r \in Seq(Entry) /\ Len(q) \in Nat /\ Len(r) = Len(q) + 1
      /\ DOMAIN q = 1..Len(q) /\ DOMAIN r = 1 .. Len(q) + 1
      /\ \A k \in 1..Len(q) : r[k] = q[k] /\ q[k] \in Entry
      /\ r[Len(q) + 1] = x
  BY <1>0, AppendIs
<1> SUFFICES ASSUME NEW i \in 1 .. Len(q) + 1, NEW l \in 1 .. Len(q) + 1, NEW j \in 1 .. Len(q) + 1,
                    NEW o \in SinkOrder, i <= l, l < j, Whole(r, i), Calm(r, i, j - 1),
                    Diff(r[j]), r[j].n > r[i].n, LastIn(r, l, j - 1, o)
             PROVE  Says(r[j], o, Val(r[l].batch, o))
  BY <1>1 DEF QueueFit
<1>2. i \in 1..Len(q) /\ l \in 1..Len(q) /\ j - 1 \in 0..Len(q) /\ i \in Nat
  BY <1>1
<1>3. /\ Whole(q, i) /\ Calm(q, i, j - 1) /\ LastIn(q, l, j - 1, o)
      /\ r[i] = q[i] /\ r[l] = q[l]
  <2>1. PICK h \in 0..Len(q) : h = j - 1
    BY <1>2
  <2>2. Whole(r, i) /\ Calm(r, i, h) /\ LastIn(r, l, h, o)
    BY <2>1
  <2>3. Whole(q, i) /\ Calm(q, i, h) /\ LastIn(q, l, h, o)
    BY <1>0, <1>2, <2>2, GrownSame
  <2> QED BY <1>1, <1>2, <2>1, <2>3
<1>4. CASE j \in 1..Len(q)
  <2>1. r[j] = q[j] /\ q[j].n > q[i].n /\ Diff(q[j])
    BY <1>1, <1>3, <1>4
  <2>2. Says(q[j], o, Val(q[l].batch, o))
    BY <1>1, <1>2, <1>3, <1>4, <2>1 DEF QueueFit
  <2> QED BY <1>3, <2>1, <2>2
<1>5. CASE j = Len(q) + 1
  <2>1. r[j] = x /\ j - 1 = Len(q)
    BY <1>1, <1>5
  <2>2. CASE ~Mute(x)
    <3>1. x.n >= sure /\ Says(x, o, sizes[o]) /\ x.n = m.n
      BY <2>1, <2>2 DEF RenderedAs
    <3>3. q[i].n \in Nat
      BY <1>1, <1>2, <1>3, RenderedIs DEF Whole
    <3>4. Onward(P, o, q[i].n, sure)
      <4>1. m.n > q[i].n /\ m.n >= sure /\ q[i].n \in Int
        BY <1>3, <2>1, <3>1, <3>3
      <4> QED BY <4>1, AheadOf
    <3>5. QueueStage(q, P, sure, sizes)
      BY <1>0, <3>1
    <3>6. sizes[o] = Val(q[l].batch, o)
      BY <1>1, <1>2, <1>3, <2>1, <3>4, <3>5 DEF QueueStage
    <3> QED BY <1>3, <2>1, <3>1, <3>6
  <2>3. CASE Mute(x)
    BY <2>1, <2>3 DEF Says, Mute
  <2> QED BY <2>2, <2>3
<1>6. j \in 1..Len(q) \/ j = Len(q) + 1
  BY <1>1
<1> QED BY <1>4, <1>5, <1>6

\* The stage's sizes are those the client reads of its queue, the frame included.
LEMMA StageGrows ==
  ASSUME NEW q \in Seq(Entry), NEW P, NEW m, NEW sure, NEW s, NEW sizes \in Sizes,
         NEW x \in Frame, x.batch = m.batch,
         \/ m.batch.clear = TRUE
         \/ s = sure /\ QueueStage(q, P, sure, sizes),
         NEW r, r = Append(q, x)
  PROVE  QueueStage(r, P \ {m}, s, Put(sizes, m.batch))
<1>0. x \in Entry /\ x.batch \in Batch /\ Rendered(x)
  BY RenderedIs DEF Entry, Frame
<1>1. /\ r \in Seq(Entry) /\ Len(q) \in Nat /\ Len(r) = Len(q) + 1
      /\ DOMAIN q = 1..Len(q) /\ DOMAIN r = 1 .. Len(q) + 1
      /\ \A k \in 1..Len(q) : r[k] = q[k] /\ q[k] \in Entry
      /\ r[Len(q) + 1] = x
  BY <1>0, AppendIs
<1> SUFFICES ASSUME NEW i \in 1 .. Len(q) + 1, NEW l \in 1 .. Len(q) + 1, NEW o \in SinkOrder,
                    i <= l, Whole(r, i), Calm(r, i, Len(q) + 1), LastIn(r, l, Len(q) + 1, o),
                    Onward(P \ {m}, o, r[i].n, s)
             PROVE  Put(sizes, m.batch)[o] = Val(r[l].batch, o)
  BY <1>1 DEF QueueStage
<1>2. GrownFrom(q, x, r, l, o)
  BY <1>0, GrownLast
<1>3. Put(sizes, m.batch)[o] = IF Touches(m.batch, o) THEN Val(m.batch, o) ELSE sizes[o]
  BY <1>0, PutIs
<1>4. Hit(x, o) <=> Touches(m.batch, o)
  BY <1>0 DEF Hit
<1>5. CASE Hit(x, o)
  BY <1>2, <1>3, <1>4, <1>5 DEF GrownFrom
<1>6. CASE ~Hit(x, o)
  <2>1. l \in 1..Len(q) /\ r[l] = q[l] /\ LastIn(q, l, Len(q), o)
    BY <1>2, <1>6 DEF GrownFrom
  <2>2. s = sure /\ QueueStage(q, P, sure, sizes)
    BY <1>4, <1>6 DEF Touches
  <2>3. i \in 1..Len(q) /\ i \in Nat
    BY <1>1, <2>1
  <2>4. Whole(q, i) /\ Calm(q, i, Len(q)) /\ r[i] = q[i]
    BY <1>0, <1>1, <2>3, GrownSame
  <2>5. Onward(P, o, q[i].n, sure)
    BY <1>4, <1>6, <2>2, <2>4, AheadWithout
  <2> QED BY <1>1, <1>3, <1>4, <1>6, <2>1, <2>2, <2>3, <2>4, <2>5 DEF QueueStage
<1> QED BY <1>5, <1>6

\* The last frame that names an order carries what the map has.
LEMMA NowGrows ==
  ASSUME NEW q \in Seq(Entry), NEW P, NEW m \in P, NEW orders,
         QueueNow(q, P, orders), PendNow(P, orders),
         NEW x \in Frame, x.batch = m.batch, NEW r, r = Append(q, x),
         \A k \in P : k.n > m.n => k # m
  PROVE  QueueNow(r, P \ {m}, orders)
<1>0. x \in Entry /\ x.batch \in Batch /\ Rendered(x)
  BY RenderedIs DEF Entry, Frame
<1>1. /\ r \in Seq(Entry) /\ Len(q) \in Nat /\ Len(r) = Len(q) + 1
      /\ DOMAIN q = 1..Len(q) /\ DOMAIN r = 1 .. Len(q) + 1
      /\ \A k \in 1..Len(q) : r[k] = q[k] /\ q[k] \in Entry
      /\ r[Len(q) + 1] = x
  BY <1>0, AppendIs
<1> SUFFICES ASSUME NEW l \in 1 .. Len(q) + 1, NEW o \in SinkOrder,
                    LastIn(r, l, Len(q) + 1, o), Settled(P \ {m}, o),
                    \A k \in l + 1 .. Len(q) + 1 : Rendered(r[k])
             PROVE  Val(r[l].batch, o) = orders[o]
  BY <1>1 DEF QueueNow
<1>2. GrownFrom(q, x, r, l, o)
  BY <1>0, GrownLast
<1>4. Hit(x, o) <=> Touches(m.batch, o)
  BY <1>0 DEF Hit
<1>5. CASE Hit(x, o)
  <2>1. Touches(m.batch, o) /\ \A k \in P : k.n > m.n => ~Touches(k.batch, o)
    BY <1>4, <1>5 DEF Settled
  <2>2. Val(m.batch, o) = orders[o]
    BY <2>1 DEF PendNow
  <2> QED BY <1>2, <1>5, <2>2 DEF GrownFrom
<1>6. CASE ~Hit(x, o)
  <2>1. l \in 1..Len(q) /\ r[l] = q[l] /\ LastIn(q, l, Len(q), o)
    BY <1>2, <1>6 DEF GrownFrom
  <2>2. Settled(P, o)
    BY <1>4, <1>6, AheadWithout
  <2>3. \A k \in l + 1 .. Len(q) : Rendered(q[k])
    BY <1>1, <2>1
  <2> QED BY <1>1, <2>1, <2>2, <2>3 DEF QueueNow
<1> QED BY <1>5, <1>6

\* The client's own book: what is told next stays right.
LEMMA BookFitGrows ==
  ASSUME NEW q \in Seq(Entry), NEW copy, NEW base \in Int, BookFit(copy, base, q),
         NEW P \in SUBSET Message, NEW m, Oldest(P, m),
         NEW sure \in Nat, NEW sizes \in Sizes, NEW x, RenderedAs(x, m, sure, sizes),
         sure <= m.n => BookStage(copy, base, q, P, sure, sizes), NEW r, r = Append(q, x)
  PROVE  BookFit(copy, base, r)
<1>0. x \in Entry /\ x.n \in Nat /\ x.batch \in Batch /\ m.n \in Nat
  BY DEF RenderedAs, Entry, Frame
<1>1. /\ r \in Seq(Entry) /\ Len(q) \in Nat /\ Len(r) = Len(q) + 1
      /\ DOMAIN q = 1..Len(q) /\ DOMAIN r = 1 .. Len(q) + 1
      /\ \A k \in 1..Len(q) : r[k] = q[k] /\ q[k] \in Entry
      /\ r[Len(q) + 1] = x
  BY <1>0, AppendIs
<1> SUFFICES ASSUME NEW j \in 1 .. Len(q) + 1, NEW z \in Nat,
                    NEW o \in SinkOrder, Calm(r, 0, j - 1), Diff(r[j]), r[j].n > base,
                    Reads(copy, r, j - 1, o, z)
             PROVE  Says(r[j], o, z)
  BY <1>1 DEF BookFit
<1>2. PICK h \in 0..Len(q) : h = j - 1
  BY <1>1
<1>3. Calm(r, 0, h) /\ Reads(copy, r, h, o, z)
  BY <1>2
<1>4. Calm(q, 0, h)
  BY <1>0, <1>3, GrownSame
<1>5. Reads(copy, q, h, o, z)
  BY <1>0, <1>3, GrownReads
<1>6. CASE j \in 1..Len(q)
  <2>1. r[j] = q[j] /\ j \in DOMAIN q
    BY <1>1, <1>6
  <2> QED BY <1>2, <1>4, <1>5, <2>1 DEF BookFit
<1>7. CASE j = Len(q) + 1
  <2>1. r[j] = x /\ h = Len(q)
    BY <1>1, <1>2, <1>7
  <2>2. CASE ~Mute(x)
    <3>1. x.n >= sure /\ Says(x, o, sizes[o]) /\ x.n = m.n
      BY <2>1, <2>2 DEF RenderedAs
    <3>3. Onward(P, o, base, sure)
      <4>1. m.n > base /\ m.n >= sure
        BY <2>1, <3>1
      <4> QED BY <4>1, AheadOf
    <3>4. BookStage(copy, base, q, P, sure, sizes)
      BY <1>0, <3>1
    <3>5. sizes[o] = z
      BY <1>4, <1>5, <2>1, <3>3, <3>4 DEF BookStage
    <3> QED BY <2>1, <3>1, <3>5
  <2>3. CASE Mute(x)
    BY <2>1, <2>3 DEF Says, Mute
  <2> QED BY <2>2, <2>3
<1>8. j \in 1..Len(q) \/ j = Len(q) + 1
  BY <1>1
<1> QED BY <1>6, <1>7, <1>8

\* The stage's sizes are those the client will have read, the frame included.
LEMMA BookStageGrows ==
  ASSUME NEW q \in Seq(Entry), NEW copy, NEW base, NEW P, NEW m, NEW sure, NEW s,
         NEW sizes \in Sizes, NEW x \in Frame, x.batch = m.batch,
         \/ m.batch.clear = TRUE
         \/ s = sure /\ BookStage(copy, base, q, P, sure, sizes),
         NEW r, r = Append(q, x)
  PROVE  BookStage(copy, base, r, P \ {m}, s, Put(sizes, m.batch))
<1>0. x \in Entry /\ x.batch \in Batch /\ Rendered(x)
  BY RenderedIs DEF Entry, Frame
<1>1. Len(r) = Len(q) + 1 /\ Len(q) \in Nat
  BY <1>0, AppendIs
<1> SUFFICES ASSUME Calm(r, 0, Len(q) + 1), NEW o \in SinkOrder, NEW z \in Nat,
                    Reads(copy, r, Len(q) + 1, o, z), Onward(P \ {m}, o, base, s)
             PROVE  Put(sizes, m.batch)[o] = z
  BY <1>1 DEF BookStage
<1>2. \/ Hit(x, o) /\ z = Val(x.batch, o)
      \/ ~Hit(x, o) /\ Reads(copy, q, Len(q), o, z)
  BY <1>0, GrownReads
<1>3. Put(sizes, m.batch)[o] = IF Touches(m.batch, o) THEN Val(m.batch, o) ELSE sizes[o]
  BY <1>0, PutIs
<1>4. Hit(x, o) <=> Touches(m.batch, o)
  BY <1>0 DEF Hit
<1>5. CASE Hit(x, o)
  BY <1>2, <1>3, <1>4, <1>5
<1>6. CASE ~Hit(x, o)
  <2>1. s = sure /\ BookStage(copy, base, q, P, sure, sizes)
    BY <1>4, <1>6 DEF Touches
  <2>2. Calm(q, 0, Len(q))
    BY <1>0, GrownSame
  <2>3. Onward(P, o, base, sure)
    BY <1>4, <1>6, <2>1, AheadWithout
  <2>4. sizes[o] = z
    BY <1>2, <1>6, <2>1, <2>2, <2>3 DEF BookStage
  <2> QED BY <1>3, <1>4, <1>6, <2>4
<1> QED BY <1>5, <1>6

\* An order that no entry names is as the map has it, the frame included.
LEMMA BookNowGrows ==
  ASSUME NEW q \in Seq(Entry), NEW copy, NEW P, NEW m, NEW orders, BookNow(copy, q, P, orders),
         NEW x \in Frame, x.batch = m.batch, NEW r, r = Append(q, x)
  PROVE  BookNow(copy, r, P \ {m}, orders)
<1>0. x \in Entry /\ Rendered(x)
  BY RenderedIs DEF Entry, Frame
<1>1. Len(r) = Len(q) + 1 /\ Len(q) \in Nat /\ r[Len(q) + 1] = x
  BY <1>0, AppendIs
<1> SUFFICES ASSUME Calm(r, 0, Len(q) + 1), NEW o \in SinkOrder,
                    Settled(P \ {m}, o), NoneIn(r, Len(q) + 1, o)
             PROVE  copy[o] = orders[o]
  BY <1>1 DEF BookNow
<1>2. ~Hit(x, o) /\ NoneIn(r, Len(q), o)
  BY <1>1 DEF NoneIn
<1>3. Len(q) \in 0..Len(q)
  BY <1>1
<1>4. NoneIn(q, Len(q), o) /\ Calm(q, 0, Len(q))
  BY <1>0, <1>2, <1>3, GrownSame
<1>5. Settled(P, o)
  BY <1>0, <1>2, AheadWithout DEF Hit
<1> QED BY <1>4, <1>5 DEF BookNow

-----------------------------------------------------------------------------
(* The entry says nothing: Bare or Resync.                                  *)

\* What the frames in the queue tell stays right.
LEMMA FitDull ==
  ASSUME NEW q \in Seq(Entry), QueueFit(q), NEW x \in {Bare, Resync}, NEW r, r = Append(q, x)
  PROVE  QueueFit(r)
<1>0. x \in Entry /\ ~Rendered(x)
  BY DEF Entry, Rendered
<1>1. /\ r \in Seq(Entry) /\ Len(q) \in Nat /\ Len(r) = Len(q) + 1
      /\ DOMAIN q = 1..Len(q) /\ DOMAIN r = 1 .. Len(q) + 1
      /\ \A k \in 1..Len(q) : r[k] = q[k] /\ q[k] \in Entry
      /\ r[Len(q) + 1] = x
  BY <1>0, AppendIs
<1> SUFFICES ASSUME NEW i \in 1 .. Len(q) + 1, NEW l \in 1 .. Len(q) + 1, NEW j \in 1 .. Len(q) + 1,
                    NEW o \in SinkOrder, i <= l, l < j, Whole(r, i), Calm(r, i, j - 1),
                    Diff(r[j]), r[j].n > r[i].n, LastIn(r, l, j - 1, o)
             PROVE  Says(r[j], o, Val(r[l].batch, o))
  BY <1>1 DEF QueueFit
<1>2. j # Len(q) + 1
  BY <1>0, <1>1 DEF Diff
<1>3. /\ i \in 1..Len(q) /\ l \in 1..Len(q) /\ j \in 1..Len(q) /\ i \in Nat
      /\ r[i] = q[i] /\ r[l] = q[l] /\ r[j] = q[j]
  BY <1>1, <1>2
<1>4. PICK h \in 0..Len(q) : h = j - 1
  BY <1>3
<1>5. Whole(r, i) /\ Calm(r, i, h) /\ LastIn(r, l, h, o)
  BY <1>3, <1>4
<1>6. Whole(q, i) /\ Calm(q, i, h) /\ LastIn(q, l, h, o)
  BY <1>0, <1>3, <1>5, GrownSame
<1>7. Diff(q[j]) /\ q[j].n > q[i].n
  BY <1>3
<1>8. Says(q[j], o, Val(q[l].batch, o))
  BY <1>1, <1>3, <1>4, <1>6, <1>7 DEF QueueFit
<1> QED BY <1>3, <1>8

\* Nothing is claimed across it.
LEMMA QueueDull ==
  ASSUME NEW q \in Seq(Entry), NEW x \in {Bare, Resync}, NEW r, r = Append(q, x)
  PROVE  (\A P, s, sizes : QueueStage(r, P, s, sizes)) /\ (\A P, orders : QueueNow(r, P, orders))
<1>0. x \in Entry /\ ~Rendered(x)
  BY DEF Entry, Rendered
<1>1. /\ r \in Seq(Entry) /\ Len(q) \in Nat /\ Len(r) = Len(q) + 1
      /\ DOMAIN r = 1 .. Len(q) + 1
      /\ r[Len(q) + 1] = x
  BY <1>0, AppendIs
<1>2. ASSUME NEW P, NEW s, NEW sizes PROVE QueueStage(r, P, s, sizes)
  <2> SUFFICES ASSUME NEW i \in 1 .. Len(q) + 1, Whole(r, i), Calm(r, i, Len(q) + 1)
               PROVE  FALSE
    BY <1>1 DEF QueueStage
  <2>1. i # Len(q) + 1
    BY <1>0, <1>1 DEF Whole
  <2>2. Len(q) + 1 \in i + 1 .. Len(q) + 1
    BY <1>1, <2>1
  <2> QED BY <1>1, <2>2 DEF Whole, Calm
<1>3. ASSUME NEW P, NEW orders PROVE QueueNow(r, P, orders)
  <2> SUFFICES ASSUME NEW l \in 1 .. Len(q) + 1, NEW o \in SinkOrder, LastIn(r, l, Len(q) + 1, o),
                      \A k \in l + 1 .. Len(q) + 1 : Rendered(r[k])
               PROVE  FALSE
    BY <1>1 DEF QueueNow
  <2>1. l # Len(q) + 1
    BY <1>0, <1>1 DEF LastIn, Hit
  <2>2. Len(q) + 1 \in l + 1 .. Len(q) + 1
    BY <1>1, <2>1
  <2> QED BY <1>0, <1>1, <2>2
<1> QED BY <1>2, <1>3

\* What is told next stays right.
LEMMA BookFitDull ==
  ASSUME NEW q \in Seq(Entry), NEW copy, NEW base, BookFit(copy, base, q),
         NEW x \in {Bare, Resync}, NEW r, r = Append(q, x)
  PROVE  BookFit(copy, base, r)
<1>0. x \in Entry /\ ~Rendered(x)
  BY DEF Entry, Rendered
<1>1. /\ r \in Seq(Entry) /\ Len(q) \in Nat /\ Len(r) = Len(q) + 1
      /\ DOMAIN q = 1..Len(q) /\ DOMAIN r = 1 .. Len(q) + 1
      /\ \A k \in 1..Len(q) : r[k] = q[k] /\ q[k] \in Entry
      /\ r[Len(q) + 1] = x
  BY <1>0, AppendIs
<1> SUFFICES ASSUME NEW j \in 1 .. Len(q) + 1, NEW z \in Nat,
                    NEW o \in SinkOrder, Calm(r, 0, j - 1), Diff(r[j]), r[j].n > base,
                    Reads(copy, r, j - 1, o, z)
             PROVE  Says(r[j], o, z)
  BY <1>1 DEF BookFit
<1>2. j # Len(q) + 1
  BY <1>0, <1>1 DEF Diff
<1>3. r[j] = q[j] /\ j \in DOMAIN q /\ j \in 1..Len(q)
  BY <1>1, <1>2
<1>4. PICK h \in 0..Len(q) : h = j - 1
  BY <1>3
<1>5. Calm(r, 0, h) /\ Reads(copy, r, h, o, z)
  BY <1>3, <1>4
<1>6. Calm(q, 0, h) /\ Reads(copy, q, h, o, z)
  BY <1>0, <1>5, GrownSame, GrownReads
<1> QED BY <1>3, <1>4, <1>6 DEF BookFit

\* A clear of no orders that goes unrendered says nothing a client without orders does not know.
LEMMA BareDull ==
  ASSUME NEW q \in Seq(Entry), \A k \in 1..Len(q) : ~Rendered(q[k]), NEW r, r = Append(q, Bare),
         NEW P, NEW m \in P, m.batch \in Batch, m.batch.clear = TRUE, m.batch.orders = NoOrders
  PROVE  /\ \A s, base, sizes : BookStage(NoOrders, base, r, P \ {m}, s, Put(sizes, m.batch))
         /\ \A orders : (\A k \in P : k.n > m.n => k # m) /\ PendNow(P, orders)
                          => BookNow(NoOrders, r, P \ {m}, orders)
<1>0. Bare \in Entry /\ ~Rendered(Bare)
  BY DEF Entry, Rendered
<1>1. /\ Len(q) \in Nat /\ Len(r) = Len(q) + 1
      /\ \A k \in 1..Len(q) : r[k] = q[k]
      /\ r[Len(q) + 1] = Bare
  BY <1>0, AppendIs
<1>2. \A k \in 1 .. Len(q) + 1 : ~Rendered(r[k])
  BY <1>0, <1>1
<1>3. ASSUME NEW s, NEW base, NEW sizes
      PROVE  BookStage(NoOrders, base, r, P \ {m}, s, Put(sizes, m.batch))
  <2> SUFFICES ASSUME NEW o \in SinkOrder, NEW z \in Nat, Reads(NoOrders, r, Len(q) + 1, o, z)
               PROVE  Put(sizes, m.batch)[o] = z
    BY <1>1 DEF BookStage
  <2>1. z = NoOrders[o]
    BY <1>2 DEF Reads, LastIn, Hit
  <2> QED BY <2>1 DEF Put
<1>4. ASSUME NEW orders, \A k \in P : k.n > m.n => k # m, PendNow(P, orders)
      PROVE  BookNow(NoOrders, r, P \ {m}, orders)
  <2> SUFFICES ASSUME NEW o \in SinkOrder, Settled(P \ {m}, o) PROVE NoOrders[o] = orders[o]
    BY DEF BookNow
  <2>1. Touches(m.batch, o) /\ \A k \in P : k.n > m.n => ~Touches(k.batch, o)
    BY <1>4 DEF Settled, Touches
  <2>2. Val(m.batch, o) = orders[o]
    BY <1>4, <2>1 DEF PendNow
  <2> QED BY <2>2 DEF Val
<1> QED BY <1>3, <1>4

-----------------------------------------------------------------------------
(* The client's queue loses its first entry.                                *)

\* What holds between the entries of the shorter queue held of them before.
LEMMA TailSame ==
  ASSUME NEW q \in Seq(Entry), q # <<>>, NEW r, r = Tail(q)
  PROVE  /\ \A i \in 1 .. Len(q) - 1 : Whole(r, i) => Whole(q, i + 1)
         /\ \A i \in 0 .. Len(q) - 1, h \in 0 .. Len(q) - 1 : Calm(r, i, h) => Calm(q, i + 1, h + 1)
         /\ \A l \in 1 .. Len(q) - 1, h \in 0 .. Len(q) - 1 : \A o :
              LastIn(r, l, h, o) => LastIn(q, l + 1, h + 1, o)
<1>1. /\ r \in Seq(Entry) /\ Len(q) \in Nat \ {0} /\ Len(r) = Len(q) - 1
      /\ \A k \in 1 .. Len(q) - 1 : r[k] = q[k + 1]
  BY TailIs
<1>0. \A k \in 2 .. Len(q) : r[k - 1] = q[k]
  <2> SUFFICES ASSUME NEW k \in 2 .. Len(q) PROVE r[k - 1] = q[k]
    OBVIOUS
  <2>1. k - 1 \in 1 .. Len(q) - 1 /\ (k - 1) + 1 = k
    BY <1>1
  <2> QED BY <1>1, <2>1
<1>2. ASSUME NEW i \in 1 .. Len(q) - 1, Whole(r, i)
      PROVE  Whole(q, i + 1)
  <2>1. \A k \in (i + 1) + 1 .. Len(q) : q[k] # Bare
    <3> SUFFICES ASSUME NEW k \in (i + 1) + 1 .. Len(q) PROVE q[k] # Bare
      OBVIOUS
    <3>1. k - 1 \in i + 1 .. Len(r) /\ k \in 2 .. Len(q)
      BY <1>1
    <3> QED BY <1>0, <1>2, <3>1 DEF Whole
  <2> QED BY <1>1, <1>2, <2>1 DEF Whole
<1>3. ASSUME NEW i \in 0 .. Len(q) - 1, NEW h \in 0 .. Len(q) - 1, Calm(r, i, h)
      PROVE  Calm(q, i + 1, h + 1)
  <2> SUFFICES ASSUME NEW k \in (i + 1) + 1 .. h + 1 PROVE q[k] # Resync
    BY DEF Calm
  <2>1. k - 1 \in i + 1 .. h /\ k \in 2 .. Len(q)
    BY <1>1
  <2> QED BY <1>0, <1>3, <2>1 DEF Calm
<1>4. ASSUME NEW l \in 1 .. Len(q) - 1, NEW h \in 0 .. Len(q) - 1, NEW o, LastIn(r, l, h, o)
      PROVE  LastIn(q, l + 1, h + 1, o)
  <2>1. \A k \in (l + 1) + 1 .. h + 1 : ~Hit(q[k], o)
    <3> SUFFICES ASSUME NEW k \in (l + 1) + 1 .. h + 1 PROVE ~Hit(q[k], o)
      OBVIOUS
    <3>1. k - 1 \in l + 1 .. h /\ k \in 2 .. Len(q)
      BY <1>1
    <3> QED BY <1>0, <1>4, <3>1 DEF LastIn
  <2> QED BY <1>1, <1>4, <2>1 DEF LastIn
<1> QED BY <1>2, <1>3, <1>4

\* What the entries of a queue say of each other stays true.
LEMMA TailFit ==
  ASSUME NEW q \in Seq(Entry), q # <<>>, QueueFit(q)
  PROVE  QueueFit(Tail(q))
<1> DEFINE r == Tail(q)
<1>1. /\ r \in Seq(Entry) /\ Len(q) \in Nat \ {0} /\ Len(r) = Len(q) - 1
      /\ DOMAIN q = 1..Len(q) /\ DOMAIN r = 1 .. Len(q) - 1
      /\ \A k \in 1 .. Len(q) - 1 : r[k] = q[k + 1]
  BY TailIs
<1> SUFFICES ASSUME NEW i \in 1 .. Len(q) - 1, NEW l \in 1 .. Len(q) - 1, NEW j \in 1 .. Len(q) - 1,
                    NEW o \in SinkOrder, i <= l, l < j, Whole(r, i), Calm(r, i, j - 1),
                    Diff(r[j]), r[j].n > r[i].n, LastIn(r, l, j - 1, o)
             PROVE  Says(r[j], o, Val(r[l].batch, o))
  BY <1>1 DEF QueueFit
<1> HIDE DEF r
<1>2. PICK h \in 0 .. Len(q) - 1 : h = j - 1
  BY <1>1
<1>3. Whole(r, i) /\ Calm(r, i, h) /\ LastIn(r, l, h, o) /\ i \in 0 .. Len(q) - 1
  BY <1>1, <1>2
<1>4. Whole(q, i + 1) /\ Calm(q, i + 1, h + 1) /\ LastIn(q, l + 1, h + 1, o)
  BY <1>3, TailSame DEF r
<1>5i. PICK i1 \in 1..Len(q) : i1 = i + 1
  BY <1>1
<1>5l. PICK l1 \in 1..Len(q) : l1 = l + 1
  BY <1>1
<1>5j. PICK j1 \in 1..Len(q) : j1 = j + 1
  BY <1>1
<1>5. i1 = i + 1 /\ l1 = l + 1 /\ j1 = j + 1
  BY <1>5i, <1>5l, <1>5j
<1>6. /\ i1 <= l1 /\ l1 < j1 /\ Whole(q, i1) /\ Calm(q, i1, j1 - 1) /\ LastIn(q, l1, j1 - 1, o)
      /\ r[i] = q[i1] /\ r[l] = q[l1] /\ r[j] = q[j1]
  <2>1. h + 1 = j1 - 1
    BY <1>2, <1>5
  <2>2. Whole(q, i1) /\ Calm(q, i1, h + 1) /\ LastIn(q, l1, h + 1, o)
    BY <1>4, <1>5
  <2>3. r[i] = q[i1] /\ r[l] = q[l1] /\ r[j] = q[j1]
    BY <1>1, <1>5
  <2>4. i1 <= l1 /\ l1 < j1
    BY <1>1, <1>5
  <2> QED BY <2>1, <2>2, <2>3, <2>4, Zenon
<1>7. Diff(q[j1]) /\ q[j1].n > q[i1].n
  BY <1>6
<1>8. Says(q[j1], o, Val(q[l1].batch, o))
  BY <1>1, <1>6, <1>7 DEF QueueFit
<1> QED BY <1>6, <1>8

\* The stage's sizes are still those of the last entries once the first is read.
LEMMA TailStage ==
  ASSUME NEW q \in Seq(Entry), q # <<>>, NEW P, NEW sure, NEW sizes, QueueStage(q, P, sure, sizes)
  PROVE  QueueStage(Tail(q), P, sure, sizes)
<1> DEFINE r == Tail(q)
<1>1. /\ r \in Seq(Entry) /\ Len(q) \in Nat \ {0} /\ Len(r) = Len(q) - 1
      /\ DOMAIN q = 1..Len(q) /\ DOMAIN r = 1 .. Len(q) - 1
      /\ \A k \in 1 .. Len(q) - 1 : r[k] = q[k + 1]
  BY TailIs
<1> SUFFICES ASSUME NEW i \in 1 .. Len(q) - 1, NEW l \in 1 .. Len(q) - 1, NEW o \in SinkOrder,
                    i <= l, Whole(r, i), Calm(r, i, Len(r)), LastIn(r, l, Len(r), o),
                    Onward(P, o, r[i].n, sure)
             PROVE  sizes[o] = Val(r[l].batch, o)
  BY <1>1 DEF QueueStage
<1> HIDE DEF r
<1>2. Len(r) \in 0 .. Len(q) - 1 /\ i \in 0 .. Len(q) - 1 /\ Len(r) + 1 = Len(q)
  BY <1>1
<1>3. Whole(q, i + 1) /\ Calm(q, i + 1, Len(q)) /\ LastIn(q, l + 1, Len(q), o)
  BY <1>2, TailSame DEF r
<1>4. PICK i1 \in 1..Len(q), l1 \in 1..Len(q) : i1 = i + 1 /\ l1 = l + 1
  BY <1>1
<1>5. /\ i1 <= l1 /\ Whole(q, i1) /\ Calm(q, i1, Len(q)) /\ LastIn(q, l1, Len(q), o)
      /\ r[i] = q[i1] /\ r[l] = q[l1]
  BY <1>1, <1>3, <1>4
<1>6. Onward(P, o, q[i1].n, sure)
  BY <1>5
<1>7. sizes[o] = Val(q[l1].batch, o)
  BY <1>1, <1>5, <1>6 DEF QueueStage
<1> QED BY <1>5, <1>7

\* The map's orders are still those of the last entries once the first is read.
LEMMA TailNow ==
  ASSUME NEW q \in Seq(Entry), q # <<>>, NEW P, NEW orders, QueueNow(q, P, orders)
  PROVE  QueueNow(Tail(q), P, orders)
<1> DEFINE r == Tail(q)
<1>1. /\ r \in Seq(Entry) /\ Len(q) \in Nat \ {0} /\ Len(r) = Len(q) - 1
      /\ DOMAIN q = 1..Len(q) /\ DOMAIN r = 1 .. Len(q) - 1
      /\ \A k \in 1 .. Len(q) - 1 : r[k] = q[k + 1]
  BY TailIs
<1> SUFFICES ASSUME NEW l \in 1 .. Len(q) - 1, NEW o \in SinkOrder,
                    LastIn(r, l, Len(r), o), Settled(P, o),
                    \A k \in l + 1 .. Len(r) : Rendered(r[k])
             PROVE  Val(r[l].batch, o) = orders[o]
  BY <1>1 DEF QueueNow
<1> HIDE DEF r
<1>2. Len(r) \in 0 .. Len(q) - 1 /\ Len(r) + 1 = Len(q)
  BY <1>1
<1>3. LastIn(q, l + 1, Len(q), o)
  BY <1>2, TailSame DEF r
<1>4. PICK l1 \in 1..Len(q) : l1 = l + 1
  BY <1>1
<1>5. \A k \in l1 + 1 .. Len(q) : Rendered(q[k])
  <2> SUFFICES ASSUME NEW k \in l1 + 1 .. Len(q) PROVE Rendered(q[k])
    OBVIOUS
  <2>1. k - 1 \in l + 1 .. Len(r) /\ k - 1 \in 1 .. Len(q) - 1 /\ (k - 1) + 1 = k
    BY <1>1, <1>4
  <2> QED BY <1>1, <2>1
<1> QED BY <1>1, <1>3, <1>4, <1>5 DEF QueueNow

-----------------------------------------------------------------------------
(* The client reads the first entry.                                        *)

AfterRead(copy, x) == IF Rendered(x) THEN Put(copy, x.batch) ELSE copy

\* What the client will have read is what it would have with the entry still to read.
LEMMA ReadOn ==
  ASSUME NEW q \in Seq(Entry), q # <<>>, NEW copy \in Sizes, NEW b2, b2 = AfterRead(copy, q[1]),
         NEW h \in 0 .. Len(q) - 1, NEW o \in SinkOrder, NEW z, Reads(b2, Tail(q), h, o, z)
  PROVE  Reads(copy, q, h + 1, o, z)
<1> DEFINE r == Tail(q)
<1>1. /\ Len(q) \in Nat \ {0} /\ Len(r) = Len(q) - 1 /\ q[1] \in Entry
      /\ \A k \in 1 .. Len(q) - 1 : r[k] = q[k + 1]
  BY TailIs
<1> HIDE DEF r
<1>2. CASE \E l \in 1..h : LastIn(r, l, h, o) /\ z = Val(r[l].batch, o)
  <2>1. PICK l \in 1..h : LastIn(r, l, h, o) /\ z = Val(r[l].batch, o)
    BY <1>2
  <2>2. l \in 1 .. Len(q) - 1 /\ l + 1 \in 1 .. h + 1
    BY <1>1
  <2>3. LastIn(q, l + 1, h + 1, o) /\ z = Val(q[l + 1].batch, o)
    BY <1>1, <2>1, <2>2, TailSame DEF r
  <2> QED BY <2>2, <2>3, Zenon DEF Reads
<1>3. CASE NoneIn(r, h, o) /\ z = b2[o]
  <2>1. \A k \in 2 .. h + 1 : ~Hit(q[k], o)
    <3> SUFFICES ASSUME NEW k \in 2 .. h + 1 PROVE ~Hit(q[k], o)
      OBVIOUS
    <3>1. k - 1 \in 1..h /\ k - 1 \in 1 .. Len(q) - 1 /\ (k - 1) + 1 = k
      BY <1>1
    <3> QED BY <1>1, <1>3, <3>1 DEF NoneIn
  <2>2. CASE Hit(q[1], o)
    <3>1. 1 \in 1 .. h + 1 /\ LastIn(q, 1, h + 1, o)
      BY <2>1, <2>2 DEF LastIn
    <3>2. q[1].batch \in Batch /\ b2 = Put(copy, q[1].batch) /\ Touches(q[1].batch, o)
      BY <1>1, <2>2, RenderedIs DEF Hit, AfterRead
    <3>3. z = Val(q[1].batch, o)
      BY <1>3, <3>2, PutIs
    <3> QED BY <3>1, <3>3, Zenon DEF Reads
  <2>3. CASE ~Hit(q[1], o)
    <3>1. NoneIn(q, h + 1, o)
      BY <1>1, <2>1, <2>3 DEF NoneIn
    <3>2. b2[o] = copy[o]
      <4>1. CASE Rendered(q[1])
        <5>1. q[1].batch \in Batch /\ ~Touches(q[1].batch, o) /\ b2 = Put(copy, q[1].batch)
          BY <1>1, <2>3, <4>1, RenderedIs DEF Hit, AfterRead
        <5> QED BY <5>1, PutIs
      <4>2. CASE ~Rendered(q[1])
        BY <4>2 DEF AfterRead
      <4> QED BY <4>1, <4>2
    <3> QED BY <1>3, <3>1, <3>2, Zenon DEF Reads
  <2> QED BY <2>2, <2>3
<1> QED BY <1>2, <1>3, Zenon DEF Reads, r

\* Past a whole book, what a client will have read is of the queue.
LEMMA ReadsWhole ==
  ASSUME NEW q \in Seq(Entry), q # <<>>, Whole(q, 1), NEW h \in 1..Len(q), NEW copy, NEW o, NEW z,
         Reads(copy, q, h, o, z)
  PROVE  \E l \in 1..h : LastIn(q, l, h, o) /\ z = Val(q[l].batch, o)
<1>1. Hit(q[1], o) /\ 1 \in 1..h
  BY TailIs DEF Whole, Hit, Touches
<1> QED BY <1>1 DEF Reads, NoneIn

\* No Resync among the rest, and none now.
LEMMA CalmOn ==
  ASSUME NEW q \in Seq(Entry), q # <<>>, NEW h \in 0 .. Len(q) - 1, Calm(Tail(q), 0, h)
  PROVE  Calm(q, 1, h + 1) /\ (q[1] # Resync => Calm(q, 0, h + 1))
<1>1. Len(q) \in Nat \ {0}
  BY TailIs
<1>2. Calm(q, 1, h + 1)
  <2> SUFFICES ASSUME NEW k \in 2 .. h + 1 PROVE q[k] # Resync
    BY DEF Calm
  <2>1. k - 1 \in 1..h /\ k - 1 \in 1 .. Len(q) - 1 /\ (k - 1) + 1 = k
    BY <1>1
  <2>2. Tail(q)[k - 1] # Resync
    BY <2>1 DEF Calm
  <2> QED BY <2>1, <2>2, TailIs
<1> QED BY <1>1, <1>2 DEF Calm

\* What is told next stays right when the client reads an entry.
LEMMA BookFitRead ==
  ASSUME NEW q \in Seq(Entry), q # <<>>, q[1] # Resync, NEW copy \in Sizes, NEW base,
         BookFit(copy, base, q)
  PROVE  BookFit(AfterRead(copy, q[1]), base, Tail(q))
<1> DEFINE r == Tail(q)
           b2 == AfterRead(copy, q[1])
<1>1. /\ r \in Seq(Entry) /\ Len(q) \in Nat \ {0} /\ Len(r) = Len(q) - 1
      /\ DOMAIN q = 1..Len(q) /\ DOMAIN r = 1 .. Len(q) - 1
      /\ \A k \in 1 .. Len(q) - 1 : r[k] = q[k + 1]
      /\ \A k \in 1..Len(q) : q[k] \in Entry
  BY TailIs
<1> SUFFICES ASSUME NEW j \in 1 .. Len(q) - 1, NEW z \in Nat,
                    NEW o \in SinkOrder, Calm(r, 0, j - 1), Diff(r[j]), r[j].n > base,
                    Reads(b2, r, j - 1, o, z)
             PROVE  Says(r[j], o, z)
  BY <1>1 DEF BookFit
<1> HIDE DEF r, b2
<1>a. PICK h \in 0 .. Len(q) - 1 : h = j - 1
  BY <1>1
<1>b. PICK j1 \in 1..Len(q) : j1 = j + 1
  BY <1>1
<1>2. h = j - 1 /\ j1 = j + 1
  BY <1>a, <1>b
<1>3. r[j] = q[j1] /\ h + 1 = j1 - 1
  BY <1>1, <1>2
<1>5. Reads(b2, r, h, o, z) /\ Calm(r, 0, h)
  BY <1>2
<1>6. Reads(copy, q, h + 1, o, z) /\ Calm(q, 0, h + 1)
  BY <1>5, ReadOn, CalmOn DEF r, b2
<1>7. Reads(copy, q, j1 - 1, o, z) /\ Calm(q, 0, j1 - 1)
  BY <1>2, <1>3, <1>6, Zenon
<1>8. Diff(q[j1]) /\ q[j1].n > base
  BY <1>3
<1>9. Says(q[j1], o, z)
  BY <1>1, <1>7, <1>8 DEF BookFit
<1> QED BY <1>3, <1>9

\* What is told next is right for a client that has just read a whole book.
LEMMA BookFitWhole ==
  ASSUME NEW q \in Seq(Entry), q # <<>>, NEW copy \in Sizes, QueueFit(q), Whole(q, 1)
  PROVE  BookFit(AfterRead(copy, q[1]), q[1].n, Tail(q))
<1> DEFINE r == Tail(q)
           b2 == AfterRead(copy, q[1])
<1>1. /\ r \in Seq(Entry) /\ Len(q) \in Nat \ {0} /\ Len(r) = Len(q) - 1
      /\ DOMAIN q = 1..Len(q) /\ DOMAIN r = 1 .. Len(q) - 1
      /\ \A k \in 1 .. Len(q) - 1 : r[k] = q[k + 1]
      /\ \A k \in 1..Len(q) : q[k] \in Entry
  BY TailIs
<1> SUFFICES ASSUME NEW j \in 1 .. Len(q) - 1, NEW z \in Nat,
                    NEW o \in SinkOrder, Calm(r, 0, j - 1), Diff(r[j]), r[j].n > q[1].n,
                    Reads(b2, r, j - 1, o, z)
             PROVE  Says(r[j], o, z)
  BY <1>1 DEF BookFit
<1> HIDE DEF r, b2
<1>a. PICK h \in 0 .. Len(q) - 1 : h = j - 1
  BY <1>1
<1>b. PICK j1 \in 2..Len(q) : j1 = j + 1
  BY <1>1
<1>2. h = j - 1 /\ j1 = j + 1
  BY <1>a, <1>b
<1>3. r[j] = q[j1] /\ h + 1 = j1 - 1 /\ h + 1 \in 1..Len(q) /\ j1 \in 1..Len(q) /\ 1 \in 1..Len(q)
  BY <1>1, <1>2
<1>5. Reads(b2, r, h, o, z) /\ Calm(r, 0, h)
  BY <1>2
<1>6. Reads(copy, q, h + 1, o, z) /\ Calm(q, 1, h + 1)
  BY <1>5, ReadOn, CalmOn DEF r, b2
<1>7. PICK l \in 1 .. h + 1 : LastIn(q, l, h + 1, o) /\ z = Val(q[l].batch, o)
  BY <1>3, <1>6, ReadsWhole
<1>8. LastIn(q, l, j1 - 1, o) /\ Calm(q, 1, j1 - 1)
  BY <1>2, <1>3, <1>6, <1>7, Zenon
<1>9. Diff(q[j1]) /\ q[j1].n > q[1].n /\ 1 <= l /\ l < j1 /\ l \in 1..Len(q)
  BY <1>1, <1>3
<1>10. Says(q[j1], o, Val(q[l].batch, o))
  BY <1>1, <1>3, <1>8, <1>9 DEF QueueFit
<1> QED BY <1>3, <1>7, <1>8, <1>10

\* The stage's sizes are still those the client will have read.
LEMMA BookStageRead ==
  ASSUME NEW q \in Seq(Entry), q # <<>>, q[1] # Resync, NEW copy \in Sizes, NEW base,
         NEW P, NEW sure, NEW sizes, BookStage(copy, base, q, P, sure, sizes)
  PROVE  BookStage(AfterRead(copy, q[1]), base, Tail(q), P, sure, sizes)
<1> DEFINE r == Tail(q)
           b2 == AfterRead(copy, q[1])
<1>1. Len(q) \in Nat \ {0} /\ Len(r) = Len(q) - 1
  BY TailIs
<1> SUFFICES ASSUME Calm(r, 0, Len(r)), NEW o \in SinkOrder, NEW z \in Nat,
                    Reads(b2, r, Len(r), o, z), Onward(P, o, base, sure)
             PROVE  sizes[o] = z
  BY DEF BookStage
<1> HIDE DEF r, b2
<1>2. Len(r) \in 0 .. Len(q) - 1 /\ Len(r) + 1 = Len(q)
  BY <1>1
<1>3. Reads(copy, q, Len(q), o, z) /\ Calm(q, 0, Len(q))
  BY <1>2, ReadOn, CalmOn DEF r, b2
<1> QED BY <1>3 DEF BookStage

\* The stage's sizes are those a client past a whole book will have read.
LEMMA BookStageWhole ==
  ASSUME NEW q \in Seq(Entry), q # <<>>, NEW copy \in Sizes, Whole(q, 1),
         NEW P, NEW sure, NEW sizes, QueueStage(q, P, sure, sizes)
  PROVE  BookStage(AfterRead(copy, q[1]), q[1].n, Tail(q), P, sure, sizes)
<1> DEFINE r == Tail(q)
           b2 == AfterRead(copy, q[1])
<1>1. Len(q) \in Nat \ {0} /\ Len(r) = Len(q) - 1 /\ DOMAIN q = 1..Len(q)
  BY TailIs
<1> SUFFICES ASSUME Calm(r, 0, Len(r)), NEW o \in SinkOrder, NEW z \in Nat,
                    Reads(b2, r, Len(r), o, z), Onward(P, o, q[1].n, sure)
             PROVE  sizes[o] = z
  BY DEF BookStage
<1> HIDE DEF r, b2
<1>2. Len(r) \in 0 .. Len(q) - 1 /\ Len(r) + 1 = Len(q) /\ Len(q) \in 1..Len(q) /\ 1 \in 1..Len(q)
  BY <1>1
<1>3. Reads(copy, q, Len(q), o, z) /\ Calm(q, 1, Len(q))
  BY <1>2, ReadOn, CalmOn DEF r, b2
<1>4. PICK l \in 1..Len(q) : LastIn(q, l, Len(q), o) /\ z = Val(q[l].batch, o)
  BY <1>2, <1>3, ReadsWhole
<1>5. 1 <= l
  BY <1>1
<1> QED BY <1>1, <1>2, <1>3, <1>4, <1>5 DEF QueueStage

\* The client's book is still the map's.
LEMMA BookNowRead ==
  ASSUME NEW q \in Seq(Entry), q # <<>>, q[1] # Resync, NEW copy \in Sizes, NEW P, NEW orders,
         Rendered(q[1]) => (\A k \in 2..Len(q) : q[k] # Bare) /\ QueueNow(q, P, orders),
         Diff(q[1]) \/ ~Rendered(q[1]) => BookNow(copy, q, P, orders)
  PROVE  BookNow(AfterRead(copy, q[1]), Tail(q), P, orders)
<1> DEFINE r == Tail(q)
           b2 == AfterRead(copy, q[1])
<1>1. /\ Len(q) \in Nat \ {0} /\ Len(r) = Len(q) - 1 /\ DOMAIN q = 1..Len(q) /\ q[1] \in Entry
      /\ \A k \in 1 .. Len(q) - 1 : r[k] = q[k + 1]
  BY TailIs
<1> SUFFICES ASSUME Calm(r, 0, Len(r)), NEW o \in SinkOrder, Settled(P, o), NoneIn(r, Len(r), o)
             PROVE  b2[o] = orders[o]
  BY DEF BookNow
<1> HIDE DEF r, b2
<1>2. Len(r) \in 0 .. Len(q) - 1 /\ Len(r) + 1 = Len(q)
  BY <1>1
<1>3. Calm(q, 0, Len(q)) /\ Calm(q, 1, Len(q))
  BY <1>2, CalmOn DEF r
<1>4. \A k \in 2..Len(q) : ~Hit(q[k], o)
  <2> SUFFICES ASSUME NEW k \in 2..Len(q) PROVE ~Hit(q[k], o)
    OBVIOUS
  <2>1. k - 1 \in 1..Len(r) /\ k - 1 \in 1 .. Len(q) - 1 /\ (k - 1) + 1 = k
    BY <1>1
  <2> QED BY <1>1, <2>1 DEF NoneIn
<1>5. CASE Hit(q[1], o)
  <2>1. q[1].batch \in Batch /\ b2 = Put(copy, q[1].batch) /\ Touches(q[1].batch, o) /\
          Rendered(q[1])
    BY <1>1, <1>5, RenderedIs DEF Hit, AfterRead, b2
  <2>2. b2[o] = Val(q[1].batch, o)
    BY <2>1, PutIs
  <2>3. 1 \in DOMAIN q /\ LastIn(q, 1, Len(q), o)
    BY <1>1, <1>4, <1>5 DEF LastIn
  <2>4. \A k \in 1 + 1 .. Len(q) : Rendered(q[k])
    BY <1>3, <2>1 DEF Calm, Rendered
  <2> QED BY <2>1, <2>2, <2>3, <2>4 DEF QueueNow
<1>6. CASE ~Hit(q[1], o)
  <2>1. NoneIn(q, Len(q), o)
    BY <1>1, <1>4, <1>6 DEF NoneIn
  <2>2. b2[o] = copy[o] /\ (Diff(q[1]) \/ ~Rendered(q[1]))
    <3>1. CASE Rendered(q[1])
      <4>1. q[1].batch \in Batch /\ ~Touches(q[1].batch, o) /\ b2 = Put(copy, q[1].batch)
        BY <1>1, <1>6, <3>1, RenderedIs DEF Hit, AfterRead, b2
      <4>2. Diff(q[1])
        BY <3>1, <4>1, BatchIs DEF Diff, Touches
      <4> QED BY <4>1, <4>2, PutIs
    <3>2. CASE ~Rendered(q[1])
      BY <3>2 DEF AfterRead, b2
    <3> QED BY <3>1, <3>2
  <2>3. BookNow(copy, q, P, orders)
    BY <2>2
  <2> QED BY <1>3, <2>1, <2>2, <2>3 DEF BookNow
<1> QED BY <1>5, <1>6

\* The client is given the map's orders.
LEMMA Bootstrapped ==
  ASSUME NEW q \in Seq(Entry), ~Holed(q), NEW orders \in Sizes, NEW n \in Nat,
         \A k \in DOMAIN q : Rendered(q[k]) => q[k].n <= n,
         NEW P \in SUBSET Message, \A m \in P : m.n <= n
  PROVE  /\ BookFit(orders, n, q)
         /\ \A sure, sizes : QueueNow(q, P, orders) /\ StageNow(P, sizes, orders)
                               => BookStage(orders, n, q, P, sure, sizes)
         /\ BookNow(orders, q, P, orders)
<1>1. /\ Len(q) \in Nat /\ DOMAIN q = 1..Len(q) /\ \A k \in 1..Len(q) : q[k] \in Entry
  OBVIOUS
<1>2. BookFit(orders, n, q)
  <2> SUFFICES ASSUME NEW j \in DOMAIN q, Diff(q[j]), q[j].n > n PROVE FALSE
    BY DEF BookFit
  <2>1. Rendered(q[j]) /\ q[j].n \in Nat
    BY <1>1, RenderedIs DEF Diff
  <2> QED BY <2>1
<1>3. ASSUME NEW sure, NEW sizes, QueueNow(q, P, orders), StageNow(P, sizes, orders)
      PROVE  BookStage(orders, n, q, P, sure, sizes)
  <2> SUFFICES ASSUME Calm(q, 0, Len(q)), NEW o \in SinkOrder, NEW z \in Nat,
                      Reads(orders, q, Len(q), o, z), Onward(P, o, n, sure)
               PROVE  sizes[o] = z
    BY DEF BookStage
  <2>1. Settled(P, o)
    <3> SUFFICES ASSUME NEW m \in P, Touches(m.batch, o) PROVE FALSE
      BY DEF Settled
    <3>1. m.n > n /\ m.n <= n /\ m.n \in Nat
      BY DEF Onward, Message
    <3> QED BY <3>1
  <2>2. sizes[o] = orders[o]
    BY <1>3, <2>1 DEF StageNow
  <2>3. CASE \E l \in 1..Len(q) : LastIn(q, l, Len(q), o) /\ z = Val(q[l].batch, o)
    <3>1. PICK l \in 1..Len(q) : LastIn(q, l, Len(q), o) /\ z = Val(q[l].batch, o)
      BY <2>3
    <3>2. \A k \in l + 1 .. Len(q) : Rendered(q[k])
      <4> SUFFICES ASSUME NEW k \in l + 1 .. Len(q) PROVE Rendered(q[k])
        OBVIOUS
      <4>1. q[k] # Resync /\ k \in DOMAIN q /\ l \in 1 .. k - 1
        BY <1>1 DEF Calm
      <4>2. q[l] \notin {Bare, Resync}
        BY <3>1 DEF LastIn, Hit, Rendered
      <4>3. q[k] # Bare
        BY <4>1, <4>2 DEF Holed
      <4> QED BY <4>1, <4>3 DEF Rendered
    <3> QED BY <1>1, <1>3, <2>1, <2>2, <3>1, <3>2 DEF QueueNow
  <2> QED BY <2>2, <2>3 DEF Reads
<1>4. BookNow(orders, q, P, orders)
  BY DEF BookNow
<1> QED BY <1>2, <1>3, <1>4

-----------------------------------------------------------------------------
(* The batches on their way to the stage.                                   *)

\* What holds with the batches P and the map's orders holds with Q, one more, and o2.
GrowsTo(P, Q, b, orders, o2) ==
  /\ \A q, sure, sizes : QueueStage(q, P, sure, sizes) => QueueStage(q, Q, sure, sizes)
  /\ \A copy, base, q, sure, sizes :
       BookStage(copy, base, q, P, sure, sizes) => BookStage(copy, base, q, Q, sure, sizes)
  /\ \A q : b.clear = TRUE \/ QueueNow(q, P, orders) => QueueNow(q, Q, o2)
  /\ \A copy, q : b.clear = TRUE \/ BookNow(copy, q, P, orders) => BookNow(copy, q, Q, o2)
  /\ \A sizes : b.clear = TRUE \/ StageNow(P, sizes, orders) => StageNow(Q, sizes, o2)
  /\ b.clear = TRUE \/ PendNow(P, orders) => PendNow(Q, o2)

\* One more is published, and the map takes it.
LEMMA PendGrows ==
  ASSUME NEW P \in SUBSET Message, NEW b \in Batch, NEW n \in Nat, \A m \in P : m.n < n,
         NEW orders \in Sizes, NEW Q, Q = P \cup {[n |-> n, batch |-> b]},
         NEW o2, o2 = Put(orders, b)
  PROVE  GrowsTo(P, Q, b, orders, o2)
<1> DEFINE m == [n |-> n, batch |-> b]
<1>0. m.n = n /\ m.batch = b /\ m \in Q /\ \A k \in Q : k \in P \/ k = m
  OBVIOUS
<1> HIDE DEF m
<1>1. \A o, a, sure : Onward(Q, o, a, sure) => Onward(P, o, a, sure)
  BY DEF Onward
<1>2. \A o \in SinkOrder : Settled(Q, o) => Settled(P, o) /\ b.clear # TRUE /\ o2[o] = orders[o]
  <2> SUFFICES ASSUME NEW o \in SinkOrder, Settled(Q, o)
               PROVE  Settled(P, o) /\ b.clear # TRUE /\ o2[o] = orders[o]
    OBVIOUS
  <2>1. Settled(P, o)
    BY DEF Settled
  <2>2. ~Touches(b, o)
    BY <1>0 DEF Settled
  <2> QED BY <2>1, <2>2, PutIs DEF Touches
<1>3. \A q, sure, sizes : QueueStage(q, P, sure, sizes) => QueueStage(q, Q, sure, sizes)
  <2> SUFFICES ASSUME NEW q, NEW sure, NEW sizes, QueueStage(q, P, sure, sizes)
               PROVE  QueueStage(q, Q, sure, sizes)
    OBVIOUS
  <2> SUFFICES ASSUME NEW i \in DOMAIN q, NEW l \in DOMAIN q, NEW o \in SinkOrder,
                      i <= l, Whole(q, i), Calm(q, i, Len(q)), LastIn(q, l, Len(q), o),
                      Onward(Q, o, q[i].n, sure)
               PROVE  sizes[o] = Val(q[l].batch, o)
    BY Zenon DEF QueueStage
  <2>1. Onward(P, o, q[i].n, sure)
    BY <1>1
  <2> QED BY <2>1 DEF QueueStage
<1>4. \A copy, base, q, sure, sizes :
        BookStage(copy, base, q, P, sure, sizes) => BookStage(copy, base, q, Q, sure, sizes)
  BY <1>1, Zenon DEF BookStage
<1>5. \A q : b.clear = TRUE \/ QueueNow(q, P, orders) => QueueNow(q, Q, o2)
  BY <1>2 DEF QueueNow
<1>6. \A copy, q : b.clear = TRUE \/ BookNow(copy, q, P, orders) => BookNow(copy, q, Q, o2)
  BY <1>2 DEF BookNow
<1>7. \A sizes : b.clear = TRUE \/ StageNow(P, sizes, orders) => StageNow(Q, sizes, o2)
  BY <1>2 DEF StageNow
<1>8. ASSUME b.clear = TRUE \/ PendNow(P, orders)
      PROVE  PendNow(Q, o2)
  <2> SUFFICES ASSUME NEW k \in Q, NEW o \in SinkOrder, Touches(k.batch, o),
                      \A l \in Q : l.n > k.n => ~Touches(l.batch, o)
               PROVE  Val(k.batch, o) = o2[o]
    BY DEF PendNow
  <2>1. CASE k = m
    BY <1>0, <2>1, PutIs
  <2>2. CASE k \in P
    <3>1. m.n > k.n
      BY <1>0, <2>2 DEF Message
    <3>2. ~Touches(b, o)
      BY <1>0, <3>1
    <3>3. o2[o] = orders[o] /\ b.clear # TRUE
      <4>1. o2[o] = orders[o]
        BY <3>2, PutIs
      <4> QED BY <3>2, <4>1 DEF Touches
    <3>4. PendNow(P, orders)
      BY <1>8, <3>3
    <3>5. \A l \in P : l.n > k.n => ~Touches(l.batch, o)
      OBVIOUS
    <3> QED BY <2>2, <3>3, <3>4, <3>5 DEF PendNow
  <2> QED BY <1>0, <2>1, <2>2
<1> QED BY <1>3, <1>4, <1>5, <1>6, <1>7, <1>8 DEF GrowsTo

\* The oldest is lost or taken.
LEMMA PendShrinks ==
  ASSUME NEW P \in SUBSET Message, NEW m, Oldest(P, m), NEW orders, PendNow(P, orders)
  PROVE  PendNow(P \ {m}, orders)
<1> SUFFICES ASSUME NEW k \in P, k # m, NEW o \in SinkOrder, Touches(k.batch, o),
                    \A l \in P \ {m} : l.n > k.n => ~Touches(l.batch, o)
             PROVE  Val(k.batch, o) = orders[o]
  BY DEF PendNow
<1>1. k.n > m.n /\ k.n \in Nat /\ m.n \in Nat
  BY DEF Oldest, Message
<1>2. \A l \in P : l.n > k.n => ~Touches(l.batch, o)
  BY <1>1
<1> QED BY <1>2 DEF PendNow

\* The stage's sizes take it.
LEMMA StageTakes ==
  ASSUME NEW P \in SUBSET Message, NEW m, Oldest(P, m), NEW orders, PendNow(P, orders),
         NEW sizes \in Sizes, m.batch.clear = TRUE \/ StageNow(P, sizes, orders)
  PROVE  StageNow(P \ {m}, Put(sizes, m.batch), orders)
<1>0. m \in P /\ m.batch \in Batch
  BY DEF Oldest, Message
<1> SUFFICES ASSUME NEW o \in SinkOrder, Settled(P \ {m}, o)
             PROVE  Put(sizes, m.batch)[o] = orders[o]
  BY DEF StageNow
<1>1. CASE Touches(m.batch, o)
  <2>1. \A k \in P : k.n > m.n => ~Touches(k.batch, o)
    <3> SUFFICES ASSUME NEW k \in P, k.n > m.n PROVE ~Touches(k.batch, o)
      OBVIOUS
    <3>1. k # m
      BY <1>0 DEF Message
    <3> QED BY <3>1 DEF Settled
  <2>2. Val(m.batch, o) = orders[o]
    BY <1>0, <1>1, <2>1 DEF PendNow
  <2> QED BY <1>0, <1>1, <2>2, PutIs
<1>2. CASE ~Touches(m.batch, o)
  <2>1. Settled(P, o) /\ StageNow(P, sizes, orders)
    BY <1>2, AheadWithout DEF Touches
  <2> QED BY <1>0, <1>2, <2>1, PutIs DEF StageNow
<1> QED BY <1>1, <1>2

-----------------------------------------------------------------------------
(* The inductive invariant, of a market mk, a stage st and a viewer v.      *)

Acc == [orders : Sizes, baselined : BOOLEAN, order_level : BOOLEAN]
Pub == [sizes : Sizes, order_level : BOOLEAN]
MarketType == [n : Nat, acc : Acc \cup {Absent}, sending : Batch \cup {Absent}]
StageType == [queue : Seq(Message), lagged : BOOLEAN, published : Pub \cup {Absent},
              others : BOOLEAN, sure : Nat]
ViewerType == [at : {"off", "select", "claimed", "on"}, queue : Seq(Entry), lagged : BOOLEAN,
               paced : BOOLEAN, book : Sizes, base : Int, holed : BOOLEAN, misfit : BOOLEAN]

Pending(mk, st) ==
  Range(st.queue) \cup
    (IF mk.sending = Absent THEN {} ELSE {[n |-> mk.n, batch |-> mk.sending]})

SizesOf(st) == IF st.published = Absent THEN NoOrders ELSE st.published.sizes
Sure(st) == ~st.lagged /\ st.sure # MaxSinkBatches + 1
Baselined(mk) == mk.acc # Absent /\ mk.acc.baselined

\* The stage's queue is in the order of the batches, the last at most the n-th.
InOrder(q, n) ==
  /\ \A i, j \in DOMAIN q : i < j => q[i].n < q[j].n
  /\ \A i \in DOMAIN q : q[i].n <= n

SentTo(mk) == IF mk.sending = Absent THEN mk.n ELSE mk.n - 1

World(mk, st) ==
  /\ mk \in MarketType /\ st \in StageType /\ mk.n <= MaxSinkBatches
  /\ InOrder(st.queue, SentTo(mk))
  /\ mk.acc # Absent /\ ~mk.acc.order_level => mk.acc.orders = NoOrders
  /\ Baselined(mk) => PendNow(Pending(mk, st), mk.acc.orders)
  /\ Baselined(mk) /\ Sure(st) => StageNow(Pending(mk, st), SizesOf(st), mk.acc.orders)

\* What was rendered is of a batch already published; a whole book is told as one.
Labelled(q, n) ==
  \A k \in DOMAIN q : Rendered(q[k]) =>
    q[k].n <= n /\ (q[k].batch.clear = TRUE => q[k].told = <<>>)

Queued(q, mk, st) ==
  /\ q \in Seq(Entry) /\ Labelled(q, mk.n) /\ QueueFit(q)
  /\ Sure(st) => QueueStage(q, Pending(mk, st), st.sure, SizesOf(st))
  /\ Baselined(mk) /\ ~st.lagged => QueueNow(q, Pending(mk, st), mk.acc.orders)

Held(v, mk, st) ==
  v.at = "on" /\ ~v.holed =>
    /\ ~Holed(v.queue)
    /\ ~v.lagged /\ v.base >= 0 => BookFit(v.book, v.base, v.queue)
    /\ ~v.lagged /\ v.base >= 0 /\ Sure(st) =>
         BookStage(v.book, v.base, v.queue, Pending(mk, st), st.sure, SizesOf(st))
    /\ ~v.lagged /\ Baselined(mk) /\ ~st.lagged =>
         BookNow(v.book, v.queue, Pending(mk, st), mk.acc.orders)

Reader(v, mk, st) ==
  /\ v \in ViewerType /\ ~v.misfit /\ (v.at = "off" => v.queue = <<>>)
  /\ Queued(v.queue, mk, st) /\ Held(v, mk, st)

SinkInv == World(market, stage) /\ Reader(viewer, market, stage)

-----------------------------------------------------------------------------
\* What is on its way to the stage was published.
LEMMA PendingIs ==
  ASSUME NEW mk \in MarketType, NEW st \in StageType, InOrder(st.queue, SentTo(mk))
  PROVE  Pending(mk, st) \in SUBSET Message /\ \A m \in Pending(mk, st) : m.n <= mk.n
<1>1. mk.n \in Nat /\ st.queue \in Seq(Message) /\ mk.sending \in Batch \cup {Absent}
  BY DEF MarketType, StageType
<1>2. ASSUME NEW m \in Range(st.queue) PROVE m \in Message /\ m.n <= mk.n
  <2>1. PICK i \in DOMAIN st.queue : m = st.queue[i]
    BY DEF Range
  <2>2. m \in Message /\ m.n \in Nat /\ m.n <= SentTo(mk)
    <3>1. m \in Message
      BY <1>1, <2>1
    <3>2. m.n <= SentTo(mk)
      BY <2>1 DEF InOrder
    <3> QED BY <3>1, <3>2 DEF Message
  <2> QED BY <1>1, <2>2 DEF SentTo
<1>3. CASE mk.sending = Absent
  BY <1>2, <1>3 DEF Pending
<1>4. CASE mk.sending # Absent
  <2>1. [n |-> mk.n, batch |-> mk.sending] \in Message
    BY <1>1, <1>4 DEF Message
  <2> QED BY <1>1, <1>2, <1>4, <2>1 DEF Pending
<1> QED BY <1>3, <1>4

\* Sizes the stage does not have are none.
LEMMA SizesOfIs ==
  ASSUME NEW st \in StageType
  PROVE  SizesOf(st) \in Sizes /\ NoOrders \in Sizes /\ Absent \notin Acc /\ Absent \notin Pub
<1>1. Absent \notin Acc /\ Absent \notin Pub
  BY SinkConstants DEF Acc, Pub, Sizes
<1>2. NoOrders \in Sizes
  BY DEF NoOrders, Sizes
<1> QED BY <1>1, <1>2 DEF SizesOf, StageType, Pub

\* Nothing is claimed of an empty queue.
LEMMA QueuedEmpty ==
  ASSUME NEW mk, NEW st
  PROVE  Queued(<<>>, mk, st)
<1>1. DOMAIN <<>> = {} /\ <<>> \in Seq(Entry)
  OBVIOUS
<1> QED BY <1>1 DEF Queued, Labelled, QueueFit, QueueStage, QueueNow

\* What is said of a queue holds of the rest of it.
LEMMA QueuedTail ==
  ASSUME NEW mk, NEW st, NEW q, Queued(q, mk, st), q # <<>>
  PROVE  Queued(Tail(q), mk, st)
<1>0. q \in Seq(Entry)
  BY DEF Queued
<1>1. Tail(q) \in Seq(Entry) /\ Labelled(Tail(q), mk.n)
  <2>1. /\ Tail(q) \in Seq(Entry) /\ Len(q) \in Nat \ {0}
        /\ DOMAIN q = 1..Len(q) /\ DOMAIN Tail(q) = 1 .. Len(q) - 1
        /\ \A k \in 1 .. Len(q) - 1 : Tail(q)[k] = q[k + 1]
    BY <1>0, TailIs
  <2>2. \A k \in 1 .. Len(q) - 1 : k + 1 \in 1..Len(q)
    BY <2>1
  <2> QED BY <2>1, <2>2 DEF Queued, Labelled
<1>2. QueueFit(Tail(q))
  BY <1>0, TailFit DEF Queued
<1>3. Sure(st) => QueueStage(Tail(q), Pending(mk, st), st.sure, SizesOf(st))
  BY <1>0, TailStage DEF Queued
<1>4. Baselined(mk) /\ ~st.lagged => QueueNow(Tail(q), Pending(mk, st), mk.acc.orders)
  BY <1>0, TailNow DEF Queued
<1> QED BY <1>1, <1>2, <1>3, <1>4, Zenon DEF Queued

\* A viewer that is not subscribed holds nothing that matters.
LEMMA ReaderAway ==
  ASSUME NEW mk, NEW st, NEW v \in ViewerType, ~v.misfit, v.at # "on",
         v.at = "off" => v.queue = <<>>, Queued(v.queue, mk, st)
  PROVE  Reader(v, mk, st)
BY DEF Reader, Held

\* A viewer given what the map has.
LEMMA ReaderGiven ==
  ASSUME World(market, stage), NEW v \in ViewerType, ~v.misfit, v.at = "on",
         Queued(v.queue, market, stage)
  PROVE  Reader(bootstrap(v), market, stage)
<1> SUFFICES ASSUME NEW w, w = bootstrap(v) PROVE Reader(w, market, stage)
  OBVIOUS
<1> DEFINE P == Pending(market, stage)
<1>0. market \in MarketType /\ stage \in StageType /\ InOrder(stage.queue, SentTo(market))
  BY DEF World
<1>1. P \in SUBSET Message /\ (\A m \in P : m.n <= market.n) /\ market.n \in Nat
  BY <1>0, PendingIs DEF MarketType
<1>2. v.queue \in Seq(Entry) /\ v.book \in Sizes /\ v.holed \in BOOLEAN /\ NoOrders \in Sizes
  BY <1>0, SizesOfIs DEF ViewerType
<1>3. CASE publishable(market.acc)
  <2>1. market.acc \in Acc /\ Baselined(market)
    BY <1>0, <1>3, Zenon DEF publishable, MarketType, Baselined
  <2>2. market.acc.orders \in Sizes /\ Holed(v.queue) \in BOOLEAN
    BY <2>1 DEF Acc, Holed
  <2>a. PICK h \in BOOLEAN : h = Holed(v.queue)
    BY <2>2
  <2>3. w = [v EXCEPT !.book = market.acc.orders, !.base = market.n, !.holed = h]
    BY <1>3, <2>a DEF bootstrap
  <2>b. w.queue = v.queue /\ w.at = "on" /\ w.misfit = v.misfit
    BY <2>3 DEF ViewerType
  <2>c. w.book = market.acc.orders /\ w.base = market.n /\ w.holed = h
    BY <2>3 DEF ViewerType
  <2>d. w \in ViewerType
    <3>1. market.n \in Int
      BY <1>1
    <3> QED BY <2>2, <2>3, <3>1, Zenon DEF ViewerType
  <2>4. /\ w \in ViewerType /\ w.queue = v.queue /\ w.at = "on" /\ w.misfit = v.misfit
        /\ w.book = market.acc.orders /\ w.base = market.n /\ w.holed = h
    BY <2>b, <2>c, <2>d
  <2>5. Held(w, market, stage)
    <3> HIDE DEF P
    <3> SUFFICES ASSUME ~w.holed
                 PROVE  /\ ~Holed(w.queue)
                        /\ BookFit(w.book, w.base, w.queue)
                        /\ Sure(stage) =>
                             BookStage(w.book, w.base, w.queue, P, stage.sure, SizesOf(stage))
                        /\ BookNow(w.book, w.queue, P, market.acc.orders)
      BY Zenon DEF Held, P
    <3>1. ~Holed(v.queue)
      BY <2>a, <2>4
    <3>2. \A k \in DOMAIN v.queue : Rendered(v.queue[k]) => v.queue[k].n <= market.n
      BY DEF Queued, Labelled
    <3>3. /\ BookFit(market.acc.orders, market.n, v.queue)
          /\ QueueNow(v.queue, P, market.acc.orders) /\
               StageNow(P, SizesOf(stage), market.acc.orders)
               => BookStage(market.acc.orders, market.n, v.queue, P, stage.sure, SizesOf(stage))
          /\ BookNow(market.acc.orders, v.queue, P, market.acc.orders)
      BY <1>1, <1>2, <2>2, <3>1, <3>2, Bootstrapped
    <3>4. Sure(stage) => QueueNow(v.queue, P, market.acc.orders) /\
            StageNow(P, SizesOf(stage), market.acc.orders)
      BY <2>1, Zenon DEF Queued, World, Sure, P
    <3> QED BY <2>4, <3>1, <3>3, <3>4
  <2>6. ~w.misfit /\ w.at # "off" /\ Queued(w.queue, market, stage)
    BY <2>4
  <2> QED BY <2>4, <2>5, <2>6, Zenon DEF Reader
<1>4. CASE ~publishable(market.acc)
  <2>a. PICK h \in BOOLEAN : h = (v.holed \/ Holed(v.queue) \/ v.book # NoOrders)
    BY <1>2
  <2>3. w = [v EXCEPT !.base = -1, !.holed = h]
    BY <1>4, <2>a DEF bootstrap
  <2>b. w.queue = v.queue /\ w.at = "on" /\ w.misfit = v.misfit
    BY <2>3 DEF ViewerType
  <2>c. w.book = v.book /\ w.base = -1 /\ w.holed = h
    BY <2>3 DEF ViewerType
  <2>d. w \in ViewerType
    <3>1. -1 \in Int
      OBVIOUS
    <3> QED BY <2>3, <3>1, Zenon DEF ViewerType
  <2>4. /\ w \in ViewerType /\ w.queue = v.queue /\ w.at = "on" /\ w.misfit = v.misfit
        /\ w.book = v.book /\ w.base = -1 /\ w.holed = h
    BY <2>b, <2>c, <2>d
  <2>5. Held(w, market, stage)
    <3> HIDE DEF P
    <3> SUFFICES ASSUME ~w.holed
                 PROVE  /\ ~Holed(w.queue) /\ ~(w.base >= 0)
                        /\ Baselined(market) => BookNow(w.book, w.queue, P, market.acc.orders)
      BY Zenon DEF Held, P
    <3>1. ~Holed(v.queue) /\ v.book = NoOrders
      BY <2>a, <2>4
    <3>2. ~(w.base >= 0)
      BY <2>4
    <3>3. ASSUME Baselined(market) PROVE market.acc.orders = NoOrders
      <4>1. market.acc # Absent /\ ~market.acc.order_level
        BY <1>4, <3>3, Zenon DEF publishable, Baselined
      <4> QED BY <4>1, Zenon DEF World
    <3>4. Baselined(market) => BookNow(w.book, w.queue, P, market.acc.orders)
      BY <2>4, <3>1, <3>3 DEF BookNow
    <3> QED BY <2>4, <3>1, <3>2, <3>4
  <2>6. ~w.misfit /\ w.at # "off" /\ Queued(w.queue, market, stage)
    BY <2>4
  <2> QED BY <2>4, <2>5, <2>6, Zenon DEF Reader
<1> QED BY <1>3, <1>4

-----------------------------------------------------------------------------
(* The client's own steps.                                                  *)

\* A step of the client alone.
LEMMA OwnStep ==
  ASSUME SinkInv, UNCHANGED <<market, stage>>, Reader(viewer', market, stage)
  PROVE  SinkInv'
BY DEF SinkInv

\* A viewer starts off, without orders and with nothing queued.
LEMMA NewViewerIs ==
  NewViewer \in ViewerType /\ NewViewer.at = "off" /\ NewViewer.queue = <<>> /\ ~NewViewer.misfit
<1>1. NoOrders \in Sizes /\ <<>> \in Seq(Entry) /\ -1 \in Int
  BY DEF NoOrders, Sizes
<1> QED BY <1>1, Zenon DEF NewViewer, ViewerType

\* A connection starts with an empty queue.
LEMMA ConnectKeeps == ASSUME SinkInv, Connect PROVE SinkInv'
<1>1. viewer' = [NewViewer EXCEPT !.at = "select"]
  BY DEF Connect
<1>2. viewer' \in ViewerType /\ viewer'.at = "select" /\ viewer'.queue = <<>> /\ ~viewer'.misfit
  BY <1>1, NewViewerIs DEF ViewerType
<1>3. Reader(viewer', market, stage)
  BY <1>2, QueuedEmpty, ReaderAway
<1> QED BY <1>3, OwnStep DEF Connect

\* A connection that ends takes its queue with it.
LEMMA CloseKeeps == ASSUME SinkInv, viewer' = NewViewer, UNCHANGED <<market, stage>> PROVE SinkInv'
<1>1. Reader(viewer', market, stage)
  BY NewViewerIs, QueuedEmpty, ReaderAway
<1> QED BY <1>1, OwnStep

\* The claim comes first: nothing is held yet.
LEMMA SubscribeKeeps == ASSUME SinkInv, Subscribe PROVE SinkInv'
<1>0. viewer \in ViewerType /\ ~viewer.misfit /\ Queued(viewer.queue, market, stage)
  BY DEF SinkInv, Reader
<1>1. viewer' = [viewer EXCEPT !.at = "claimed", !.book = NoOrders] /\ NoOrders \in Sizes
  BY DEF Subscribe, NoOrders, Sizes
<1>2. viewer' \in ViewerType
  BY <1>0, <1>1, Zenon DEF ViewerType
<1>3. viewer'.at = "claimed" /\ viewer'.queue = viewer.queue /\ ~viewer'.misfit
  BY <1>0, <1>1 DEF ViewerType
<1>4. Reader(viewer', market, stage)
  BY <1>0, <1>2, <1>3, ReaderAway
<1> QED BY <1>4, OwnStep DEF Subscribe

\* Nothing is asked of the book any more.
LEMMA UnsubscribeKeeps == ASSUME SinkInv, Unsubscribe PROVE SinkInv'
<1>0. viewer \in ViewerType /\ ~viewer.misfit /\ Queued(viewer.queue, market, stage)
  BY DEF SinkInv, Reader
<1>1. viewer' = [viewer EXCEPT !.at = "select", !.base = -1] /\ -1 \in Int
  BY DEF Unsubscribe
<1>2. viewer' \in ViewerType
  BY <1>0, <1>1, Zenon DEF ViewerType
<1>3. viewer'.at = "select" /\ viewer'.queue = viewer.queue /\ ~viewer'.misfit
  BY <1>0, <1>1 DEF ViewerType
<1>4. Reader(viewer', market, stage)
  BY <1>0, <1>2, <1>3, ReaderAway
<1> QED BY <1>4, OwnStep DEF Unsubscribe

\* The pace of the rebootstraps is not relied on.
LEMMA IntervalKeeps == ASSUME SinkInv, IntervalPasses PROVE SinkInv'
<1>0. viewer \in ViewerType /\ Reader(viewer, market, stage)
  BY DEF SinkInv, Reader
<1>1. viewer' = [viewer EXCEPT !.paced = FALSE]
  BY DEF IntervalPasses
<1>2. viewer' \in ViewerType
  BY <1>0, <1>1, Zenon DEF ViewerType
<1>3. /\ viewer'.at = viewer.at /\ viewer'.queue = viewer.queue /\ viewer'.misfit = viewer.misfit
      /\ viewer'.lagged = viewer.lagged /\ viewer'.book = viewer.book
      /\ viewer'.base = viewer.base /\ viewer'.holed = viewer.holed
  BY <1>0, <1>1 DEF ViewerType
<1>4. Held(viewer', market, stage)
  BY <1>0, <1>3 DEF Reader, Held
<1>5. Reader(viewer', market, stage)
  BY <1>0, <1>2, <1>3, <1>4 DEF Reader
<1> QED BY <1>5, OwnStep DEF IntervalPasses

\* The map's orders are as new as all that is queued.
LEMMA BootstrapKeeps == ASSUME SinkInv, Bootstrap PROVE SinkInv'
<1>0. viewer \in ViewerType /\ ~viewer.misfit /\ Queued(viewer.queue, market, stage) /\
        World(market, stage)
  BY DEF SinkInv, Reader
<1> DEFINE v == [viewer EXCEPT !.at = "on"]
<1>2. v \in ViewerType
  BY <1>0, Zenon DEF ViewerType
<1>3. v.at = "on" /\ v.queue = viewer.queue /\ ~v.misfit
  BY <1>0 DEF ViewerType
<1>4. Reader(bootstrap(v), market, stage)
  <2> HIDE DEF v
  <2> QED BY <1>0, <1>2, <1>3, ReaderGiven
<1> QED BY <1>4, OwnStep DEF Bootstrap

\* A viewer that starts over.
LEMMA ReaderAgain ==
  ASSUME World(market, stage), NEW v \in ViewerType, ~v.misfit, v.at \in {"select", "on"},
         Queued(v.queue, market, stage)
  PROVE  Reader(rebootstrap(v), market, stage)
<1>1. CASE v.paced
  BY <1>1, NewViewerIs, QueuedEmpty, ReaderAway DEF rebootstrap
<1>2. CASE ~v.paced
  <2> DEFINE w == [v EXCEPT !.paced = TRUE]
  <2>1. w \in ViewerType
    BY Zenon DEF ViewerType
  <2>2. w.at = v.at /\ w.queue = v.queue /\ ~w.misfit
    BY DEF ViewerType
  <2>3. rebootstrap(v) = IF v.at = "on" THEN bootstrap(w) ELSE w
    BY <1>2 DEF rebootstrap
  <2> HIDE DEF w
  <2>4. CASE v.at = "on"
    <3>1. Reader(bootstrap(w), market, stage)
      BY <2>1, <2>2, <2>4, ReaderGiven
    <3> QED BY <2>3, <2>4, <3>1
  <2>5. CASE v.at # "on"
    <3>1. Reader(w, market, stage)
      BY <2>1, <2>2, <2>5, ReaderAway
    <3> QED BY <2>3, <2>5, <3>1
  <2> QED BY <2>4, <2>5
<1> QED BY <1>1, <1>2

\* What the client lost is in the map.
LEMMA ClientLaggedKeeps == ASSUME SinkInv, ClientLagged PROVE SinkInv'
<1>0. /\ viewer \in ViewerType /\ ~viewer.misfit /\ Queued(viewer.queue, market, stage)
      /\ World(market, stage) /\ viewer.at \in {"select", "on"}
  BY DEF SinkInv, Reader, ClientLagged
<1> DEFINE v == [viewer EXCEPT !.lagged = FALSE]
<1>2. v \in ViewerType
  BY <1>0, Zenon DEF ViewerType
<1>3. v.at = viewer.at /\ v.queue = viewer.queue /\ ~v.misfit
  BY <1>0 DEF ViewerType
<1>4. Reader(rebootstrap(v), market, stage)
  <2> HIDE DEF v
  <2> QED BY <1>0, <1>2, <1>3, ReaderAgain
<1> QED BY <1>4, OwnStep DEF ClientLagged

\* Reading on makes no hole; without one, nothing unrendered follows a frame.
LEMMA HoledTail ==
  ASSUME NEW q \in Seq(Entry), q # <<>>
  PROVE  /\ ~Holed(q) => ~Holed(Tail(q))
         /\ ~Holed(q) /\ Rendered(q[1]) => \A k \in 2..Len(q) : q[k] # Bare
         /\ Bare \notin Range(Tail(q)) => (\A k \in 2..Len(q) : q[k] # Bare) /\ ~Holed(Tail(q))
<1>1. /\ Len(q) \in Nat \ {0} /\ DOMAIN q = 1..Len(q) /\ DOMAIN Tail(q) = 1 .. Len(q) - 1
      /\ \A k \in 1 .. Len(q) - 1 : Tail(q)[k] = q[k + 1]
  BY TailIs
<1>2. ASSUME Holed(Tail(q)) PROVE Holed(q)
  <2>a. PICK j \in 1 .. Len(q) - 1 :
          Tail(q)[j] = Bare /\ \E i \in 1 .. j - 1 : Tail(q)[i] \notin {Bare, Resync}
    BY <1>1, <1>2 DEF Holed
  <2>1. PICK i \in 1 .. j - 1 : Tail(q)[j] = Bare /\ Tail(q)[i] \notin {Bare, Resync}
    BY <2>a
  <2>2. j + 1 \in 1..Len(q) /\ i + 1 \in 1 .. (j + 1) - 1 /\ i \in 1 .. Len(q) - 1
    BY <1>1, <2>1
  <2>3. q[j + 1] = Bare /\ q[i + 1] \notin {Bare, Resync}
    BY <1>1, <2>1, <2>2
  <2> QED BY <1>1, <2>2, <2>3 DEF Holed
<1>3. ASSUME ~Holed(q), Rendered(q[1]) PROVE \A k \in 2..Len(q) : q[k] # Bare
  <2> SUFFICES ASSUME NEW k \in 2..Len(q), q[k] = Bare PROVE FALSE
    OBVIOUS
  <2>1. k \in 1..Len(q) /\ 1 \in 1 .. k - 1 /\ q[1] \notin {Bare, Resync}
    BY <1>1, <1>3 DEF Rendered
  <2> QED BY <1>1, <1>3, <2>1 DEF Holed
<1>4. ASSUME Bare \notin Range(Tail(q)) PROVE (\A k \in 2..Len(q) : q[k] # Bare) /\ ~Holed(Tail(q))
  <2>1. \A k \in 1 .. Len(q) - 1 : Tail(q)[k] # Bare
    BY <1>1, <1>4 DEF Range
  <2>2. ~Holed(Tail(q))
    BY <1>1, <2>1 DEF Holed
  <2>3. ASSUME NEW k \in 2..Len(q) PROVE q[k] # Bare
    <3>1. k - 1 \in 1 .. Len(q) - 1 /\ (k - 1) + 1 = k
      BY <1>1
    <3> QED BY <1>1, <2>1, <3>1
  <2> QED BY <2>2, <2>3
<1> QED BY <1>2, <1>3, <1>4

\* The client has read an entry that is not a whole book.
LEMMA HeldOn ==
  ASSUME NEW mk, NEW st, NEW v, Reader(v, mk, st), v.queue # <<>>, v.queue[1] # Resync,
         NEW w \in ViewerType, w.at = v.at, w.queue = Tail(v.queue), w.lagged = v.lagged,
         w.book = AfterRead(v.book, v.queue[1]), w.base = v.base, w.holed = v.holed
  PROVE  Held(w, mk, st)
<1> DEFINE q == v.queue
           P == Pending(mk, st)
<1>0. q \in Seq(Entry) /\ v.book \in Sizes
  BY DEF Reader, ViewerType
<1> SUFFICES ASSUME w.at = "on", ~w.holed PROVE
    /\ ~Holed(w.queue)
    /\ ~w.lagged /\ w.base >= 0 => BookFit(w.book, w.base, w.queue)
    /\ ~w.lagged /\ w.base >= 0 /\ Sure(st) =>
         BookStage(w.book, w.base, w.queue, P, st.sure, SizesOf(st))
    /\ ~w.lagged /\ Baselined(mk) /\ ~st.lagged => BookNow(w.book, w.queue, P, mk.acc.orders)
  BY Zenon DEF Held
<1> HIDE DEF P
<1>1. v.at = "on" /\ ~v.holed /\ Held(v, mk, st)
  BY DEF Reader
<1>2. /\ ~Holed(q)
      /\ ~w.lagged /\ w.base >= 0 => BookFit(v.book, w.base, q)
      /\ ~w.lagged /\ w.base >= 0 /\ Sure(st) =>
           BookStage(v.book, w.base, q, P, st.sure, SizesOf(st))
      /\ ~w.lagged /\ Baselined(mk) /\ ~st.lagged => BookNow(v.book, q, P, mk.acc.orders)
  BY <1>1 DEF Held, P
<1>3. Baselined(mk) /\ ~st.lagged => QueueNow(q, P, mk.acc.orders)
  BY Zenon DEF Reader, Queued, P
<1> HIDE DEF q
<1>4. ~Holed(Tail(q)) /\ (Rendered(q[1]) => \A k \in 2..Len(q) : q[k] # Bare)
  BY <1>0, <1>2, HoledTail DEF q
<1>5. w.queue = Tail(q) /\ w.book = AfterRead(v.book, q[1]) /\ q # <<>> /\ q[1] # Resync
  BY DEF q
<1>6. ~w.lagged /\ w.base >= 0 => BookFit(w.book, w.base, w.queue)
  BY <1>0, <1>2, <1>5, BookFitRead
<1>7. ~w.lagged /\ w.base >= 0 /\ Sure(st) =>
        BookStage(w.book, w.base, w.queue, P, st.sure, SizesOf(st))
  BY <1>0, <1>2, <1>5, BookStageRead
<1>8. ~w.lagged /\ Baselined(mk) /\ ~st.lagged => BookNow(w.book, w.queue, P, mk.acc.orders)
  BY <1>0, <1>2, <1>3, <1>4, <1>5, BookNowRead
<1> QED BY <1>4, <1>5, <1>6, <1>7, <1>8

\* The client has read a whole book.
LEMMA HeldWhole ==
  ASSUME NEW mk, NEW st, NEW v, Reader(v, mk, st), v.queue # <<>>,
         Rendered(v.queue[1]), v.queue[1].batch.clear = TRUE,
         NEW w \in ViewerType, w.queue = Tail(v.queue),
         w.book = AfterRead(v.book, v.queue[1]), w.base = v.queue[1].n,
         ~w.holed => Bare \notin Range(Tail(v.queue))
  PROVE  Held(w, mk, st)
<1> DEFINE q == v.queue
           P == Pending(mk, st)
<1>0. q \in Seq(Entry) /\ v.book \in Sizes
  BY DEF Reader, ViewerType
<1> SUFFICES ASSUME w.at = "on", ~w.holed PROVE
    /\ ~Holed(w.queue)
    /\ BookFit(w.book, w.base, w.queue)
    /\ Sure(st) => BookStage(w.book, w.base, w.queue, P, st.sure, SizesOf(st))
    /\ Baselined(mk) /\ ~st.lagged => BookNow(w.book, w.queue, P, mk.acc.orders)
  BY Zenon DEF Held
<1> HIDE DEF P
<1>2. QueueFit(q) /\ (Sure(st) => QueueStage(q, P, st.sure, SizesOf(st)))
  BY Zenon DEF Reader, Queued, P
<1>3. Baselined(mk) /\ ~st.lagged => QueueNow(q, P, mk.acc.orders)
  BY Zenon DEF Reader, Queued, P
<1> HIDE DEF q
<1>5. /\ w.queue = Tail(q) /\ w.book = AfterRead(v.book, q[1]) /\ w.base = q[1].n /\ q # <<>>
      /\ Rendered(q[1]) /\ q[1].batch.clear = TRUE /\ Bare \notin Range(Tail(q))
  BY DEF q
<1>4. ~Holed(Tail(q)) /\ \A k \in 2..Len(q) : q[k] # Bare
  BY <1>0, <1>5, HoledTail
<1>6. Whole(q, 1) /\ q[1] # Resync /\ ~Diff(q[1])
  BY <1>4, <1>5 DEF Whole, Rendered, Diff
<1>7. BookFit(w.book, w.base, w.queue)
  BY <1>0, <1>2, <1>5, <1>6, BookFitWhole
<1>8. Sure(st) => BookStage(w.book, w.base, w.queue, P, st.sure, SizesOf(st))
  BY <1>0, <1>2, <1>5, <1>6, BookStageWhole
<1>9. Baselined(mk) /\ ~st.lagged => BookNow(w.book, w.queue, P, mk.acc.orders)
  BY <1>0, <1>3, <1>4, <1>5, <1>6, BookNowRead
<1> QED BY <1>4, <1>5, <1>7, <1>8, <1>9

\* The frame a client reads says of the order what its book does.
LEMMA ReadFits ==
  ASSUME NEW q \in Seq(Entry), q # <<>>, NEW copy \in Sizes, NEW base, BookFit(copy, base, q),
         Diff(q[1]), q[1].n > base
  PROVE  \A o \in SinkOrder : Says(q[1], o, copy[o])
<1> SUFFICES ASSUME NEW o \in SinkOrder PROVE Says(q[1], o, copy[o])
  OBVIOUS
<1>1. 1 \in DOMAIN q /\ q[1] \in Entry /\ 1 - 1 = 0
  BY TailIs
<1>2. copy[o] \in Nat
  BY DEF Sizes
<1>3. Calm(q, 0, 0) /\ Reads(copy, q, 0, o, copy[o])
  BY DEF Calm, Reads, NoneIn
<1> QED BY <1>1, <1>2, <1>3 DEF BookFit

\* The client reads one entry.
LEMMA RecvKeeps == ASSUME SinkInv, Recv PROVE SinkInv'
<1> DEFINE q == viewer.queue
           x == Head(viewer.queue)
           v == [viewer EXCEPT !.queue = Tail(@)]
<1>0. /\ viewer \in ViewerType /\ ~viewer.misfit /\ Queued(q, market, stage)
      /\ World(market, stage) /\ Reader(viewer, market, stage) /\ Held(viewer, market, stage)
      /\ viewer.at \in {"select", "on"} /\ ~viewer.lagged /\ q # <<>>
  BY DEF SinkInv, Reader, Recv
<1>1. q \in Seq(Entry) /\ x = q[1] /\ x \in Entry /\ Tail(q) \in Seq(Entry)
  <2>1. q \in Seq(Entry)
    BY <1>0 DEF ViewerType
  <2> QED BY <1>0, <2>1, TailIs
<1>2. v \in ViewerType
  <2>1. v = [viewer EXCEPT !.queue = Tail(q)]
    BY <1>0 DEF ViewerType
  <2> QED BY <1>0, <1>1, <2>1, Zenon DEF ViewerType
<1>3. /\ v.at = viewer.at /\ v.queue = Tail(q) /\ v.lagged = viewer.lagged /\ v.book = viewer.book
      /\ v.base = viewer.base /\ v.holed = viewer.holed /\ v.misfit = viewer.misfit
  BY <1>0 DEF ViewerType
<1>4. Queued(Tail(q), market, stage)
  BY <1>0, QueuedTail
<1>5. viewer' = IF v.at = "select" \/ x = Bare THEN v
                ELSE IF x = Resync THEN rebootstrap(v) ELSE Shown(v, x)
  BY DEF Recv
<1>6. UNCHANGED <<market, stage>>
  BY DEF Recv
<1> HIDE DEF v, x
<1>7. CASE v.at = "select"
  <2>1. Reader(v, market, stage)
    BY <1>0, <1>2, <1>3, <1>4, <1>7, ReaderAway
  <2>2. viewer' = v
    BY <1>5, <1>7
  <2> QED BY <1>6, <2>1, <2>2, OwnStep
<1>8. CASE v.at = "on" /\ x = Bare
  <2>1. AfterRead(viewer.book, q[1]) = viewer.book /\ q[1] # Resync
    BY <1>1, <1>8, SinkConstants DEF AfterRead, Rendered
  <2>2. Held(v, market, stage)
    BY <1>0, <1>2, <1>3, <2>1, HeldOn
  <2>3. Reader(v, market, stage)
    BY <1>0, <1>2, <1>3, <1>4, <1>8, <2>2 DEF Reader
  <2>4. viewer' = v
    BY <1>5, <1>8
  <2> QED BY <1>6, <2>3, <2>4, OwnStep
<1>9. CASE v.at = "on" /\ x = Resync
  <2>1. Reader(rebootstrap(v), market, stage)
    BY <1>0, <1>2, <1>3, <1>4, ReaderAgain
  <2>2. viewer' = rebootstrap(v)
    BY <1>5, <1>9, SinkConstants
  <2> QED BY <1>6, <2>1, <2>2, OwnStep
<1>10. CASE v.at = "on" /\ x # Bare /\ x # Resync
  <2> DEFINE w == viewer'
             b == x.batch
             hl == IF b.clear THEN Bare \in Range(v.queue) ELSE v.holed
             mf == v.misfit \/ (v.base >= 0 /\ x.n > v.base /\ ~v.holed /\ Misfits(v, x))
  <2>0. x \in Frame /\ b \in Batch /\ x.n \in Nat /\ Rendered(x) /\ b.clear \in BOOLEAN
    BY <1>1, <1>10, RenderedIs, BatchIs DEF Rendered
  <2>1. w = [v EXCEPT !.book = Put(v.book, b), !.base = IF b.clear THEN x.n ELSE v.base,
                      !.holed = hl, !.misfit = mf]
    <3>1. w = Shown(v, x)
      BY <1>5, <1>10
    <3> QED BY <1>2, <3>1 DEF Shown, ViewerType
  <2>2. Put(v.book, b) \in Sizes /\ hl \in BOOLEAN /\ mf \in BOOLEAN
        /\ (IF b.clear THEN x.n ELSE v.base) \in Int
    <3>1. v.book \in Sizes /\ v.holed \in BOOLEAN /\ v.misfit \in BOOLEAN /\ v.base \in Int
      BY <1>2 DEF ViewerType
    <3>2. Put(v.book, b) \in Sizes
      BY <2>0, <3>1, PutIs
    <3>3. (IF b.clear THEN x.n ELSE v.base) \in Int
      BY <2>0, <3>1
    <3>4. hl \in BOOLEAN
      <4>1. PICK c \in BOOLEAN : c = (Bare \in Range(v.queue))
        <5>1. CASE Bare \in Range(v.queue)
          <6> WITNESS TRUE \in BOOLEAN
          <6> QED BY <5>1
        <5>2. CASE ~(Bare \in Range(v.queue))
          <6>1. (Bare \in Range(v.queue)) = FALSE
            BY <5>2
          <6> QED BY <6>1
        <5> QED BY <5>1, <5>2
      <4>2. hl = c \/ hl = v.holed
        BY <4>1
      <4> QED BY <3>1, <4>2
    <3>5. mf \in BOOLEAN
      BY <3>1
    <3> QED BY <3>2, <3>3, <3>4, <3>5
  <2>3. ~mf
    <3>1. ASSUME v.base >= 0, x.n > v.base, ~v.holed, Misfits(v, x)
          PROVE  FALSE
      <4>1. b.clear = FALSE
        BY <2>0, <3>1 DEF Misfits
      <4>2. PICK i \in DOMAIN b.changes :
              x.told[i] = (IF v.book[b.changes[i].order] # 0 THEN "new" ELSE "update")
        BY <3>1 DEF Misfits
      <4>3. b.changes[i].order \in SinkOrder
        <5>1. b.changes \in Seq([order : SinkOrder, size : Nat])
          BY <2>0, <4>1, BatchIs
        <5>2. b.changes[i] \in [order : SinkOrder, size : Nat]
          BY <4>2, <5>1, SeqIs, Zenon
        <5> QED BY <5>2
      <4>4. BookFit(viewer.book, viewer.base, q)
        <5>1. viewer.at = "on" /\ ~viewer.holed /\ viewer.base >= 0
          BY <1>3, <1>10, <3>1
        <5> QED BY <1>0, <5>1, Zenon DEF Held
      <4>5. viewer.book \in Sizes /\ viewer.base = v.base /\ v.book = viewer.book
        BY <1>0, <1>3 DEF ViewerType
      <4>6. Diff(q[1]) /\ q[1].n > viewer.base
        BY <1>1, <2>0, <3>1, <4>1, <4>5 DEF Diff
      <4>7. Says(x, b.changes[i].order, v.book[b.changes[i].order])
        BY <1>0, <1>1, <4>3, <4>4, <4>5, <4>6, ReadFits
      <4> QED BY <4>2, <4>7 DEF Says
    <3> QED BY <1>0, <1>3, <3>1
  <2> HIDE DEF w, hl, mf, b
  <2>4. w \in ViewerType
    BY <1>2, <2>1, <2>2, Zenon DEF ViewerType
  <2>5. /\ w.at = v.at /\ w.queue = v.queue /\ w.lagged = v.lagged
        /\ w.book = Put(v.book, b) /\ w.base = (IF b.clear THEN x.n ELSE v.base)
        /\ w.holed = hl /\ w.misfit = mf
    BY <1>2, <2>1 DEF ViewerType
  <2>6. w.book = AfterRead(viewer.book, q[1])
    BY <1>1, <1>3, <2>0, <2>5 DEF AfterRead, b
  <2>7. Held(w, market, stage)
    <3>1. CASE b.clear = TRUE
      <4>1. w.base = q[1].n /\ (~w.holed => Bare \notin Range(Tail(q))) /\ w.queue = Tail(q)
        BY <1>1, <1>3, <2>5, <3>1 DEF hl
      <4>2. Rendered(q[1]) /\ q[1].batch.clear = TRUE
        BY <1>1, <2>0, <3>1 DEF b
      <4> QED BY <1>0, <2>4, <2>6, <4>1, <4>2, HeldWhole
    <3>2. CASE b.clear = FALSE
      <4>1. /\ w.at = viewer.at /\ w.queue = Tail(q) /\ w.lagged = viewer.lagged
            /\ w.base = viewer.base /\ w.holed = viewer.holed
        BY <1>3, <2>5, <3>2 DEF hl
      <4>2. q[1] # Resync
        BY <1>1, <1>10
      <4> QED BY <1>0, <2>4, <2>6, <4>1, <4>2, HeldOn
    <3> QED BY <2>0, <3>1, <3>2
  <2>8. Reader(w, market, stage)
    <3>1. w.at # "off" /\ ~w.misfit /\ w.queue = Tail(q)
      BY <1>3, <1>10, <2>3, <2>5
    <3> QED BY <1>4, <2>4, <2>7, <3>1 DEF Reader
  <2> QED BY <1>6, <2>8, OwnStep DEF w
<1> QED BY <1>0, <1>3, <1>7, <1>8, <1>9, <1>10

-----------------------------------------------------------------------------
(* The steps of the stage and of the market.                                *)

\* The stage's sizes are untouched, or not relied on any more.
LEMMA LessSure ==
  ASSUME NEW mk, NEW st, NEW v, World(mk, st), Reader(v, mk, st),
         NEW s2 \in StageType, s2.queue = st.queue, s2.lagged = st.lagged,
         Sure(s2) => Sure(st) /\ s2.sure = st.sure /\ s2.published = st.published
  PROVE  World(mk, s2) /\ Reader(v, mk, s2)
<1>1. Pending(mk, s2) = Pending(mk, st)
  BY DEF Pending
<1>2. Sure(s2) => Sure(st) /\ s2.sure = st.sure /\ SizesOf(s2) = SizesOf(st)
  BY DEF SizesOf
<1>3. World(mk, s2)
  BY <1>1, <1>2, Zenon DEF World
<1>4. Queued(v.queue, mk, st) /\ Held(v, mk, st)
  BY Zenon DEF Reader
<1>5. Queued(v.queue, mk, s2)
  <2>1. Sure(s2) => QueueStage(v.queue, Pending(mk, s2), s2.sure, SizesOf(s2))
    BY <1>1, <1>2, <1>4, Zenon DEF Queued
  <2> QED BY <1>1, <1>4, <2>1, Zenon DEF Queued
<1>6. Held(v, mk, s2)
  <2>1. v.at = "on" /\ ~v.holed /\ ~v.lagged /\ v.base >= 0 /\ Sure(s2) =>
          BookStage(v.book, v.base, v.queue, Pending(mk, s2), s2.sure, SizesOf(s2))
    BY <1>1, <1>2, <1>4, Zenon DEF Held
  <2> QED BY <1>1, <1>4, <2>1, Zenon DEF Held
<1> QED BY <1>3, <1>5, <1>6, Zenon DEF Reader

\* Whether others claim the coin decides what is rendered, not what it says.
LEMMA OthersClaimKeeps == ASSUME SinkInv, OthersClaim PROVE SinkInv'
<1>1. stage' = [stage EXCEPT !.others = ~@] /\ UNCHANGED <<market, viewer>> /\ stage \in StageType
  BY DEF OthersClaim, SinkInv, World
<1>2. stage' \in StageType
  <2>1. stage' = [stage EXCEPT !.others = ~stage.others] /\ (~stage.others) \in BOOLEAN
    BY <1>1 DEF StageType
  <2> QED BY <1>1, <2>1, Zenon DEF StageType
<1>3. /\ stage'.queue = stage.queue /\ stage'.lagged = stage.lagged
      /\ stage'.sure = stage.sure /\ stage'.published = stage.published
  BY <1>1 DEF StageType
<1>4. Sure(stage') => Sure(stage)
  BY <1>3 DEF Sure
<1>5. World(market, stage') /\ Reader(viewer, market, stage')
  BY <1>2, <1>3, <1>4, LessSure DEF SinkInv
<1> QED BY <1>1, <1>5 DEF SinkInv

\* Sizes the stage evicted are not relied on.
LEMMA EvictPublishedKeeps == ASSUME SinkInv, EvictPublished PROVE SinkInv'
<1>1. /\ stage' = [stage EXCEPT !.published = Absent, !.sure = MaxSinkBatches + 1]
      /\ UNCHANGED <<market, viewer>> /\ stage \in StageType
  BY DEF EvictPublished, SinkInv, World
<1>2. stage' \in StageType
  <2>1. MaxSinkBatches + 1 \in Nat /\ Absent \in Pub \cup {Absent}
    BY SinkConstants
  <2> QED BY <1>1, <2>1, Zenon DEF StageType
<1>3. stage'.queue = stage.queue /\ stage'.lagged = stage.lagged /\ stage'.sure = MaxSinkBatches + 1
  BY <1>1 DEF StageType
<1>4. ~Sure(stage')
  BY <1>3 DEF Sure
<1>5. World(market, stage') /\ Reader(viewer, market, stage')
  BY <1>2, <1>3, <1>4, LessSure DEF SinkInv
<1> QED BY <1>1, <1>5 DEF SinkInv

\* The map loses the market: nothing is said of the orders in it.
LEMMA ForgetMarketKeeps == ASSUME SinkInv, ForgetMarket PROVE SinkInv'
<1>1. /\ market' = [market EXCEPT !.acc = Absent]
      /\ UNCHANGED <<stage, viewer>> /\ market \in MarketType
  BY DEF ForgetMarket, SinkInv, World
<1>2. market' \in MarketType
  BY <1>1 DEF MarketType
<1>3. market'.n = market.n /\ market'.sending = market.sending /\ market'.acc = Absent
  BY <1>1 DEF MarketType
<1>4. Pending(market', stage) = Pending(market, stage) /\ ~Baselined(market') /\
        SentTo(market') = SentTo(market)
  BY <1>3 DEF Pending, Baselined, SentTo
<1>5. World(market', stage)
  BY <1>2, <1>3, <1>4, Zenon DEF SinkInv, World
<1>6. Queued(viewer.queue, market', stage)
  BY <1>3, <1>4, Zenon DEF SinkInv, Reader, Queued
<1>7. Held(viewer, market', stage)
  BY <1>3, <1>4, Zenon DEF SinkInv, Reader, Held
<1>8. Reader(viewer, market', stage)
  BY <1>6, <1>7, Zenon DEF SinkInv, Reader
<1> QED BY <1>1, <1>5, <1>8 DEF SinkInv

\* A batch is folded into the map.
LEMMA PublishKeeps == ASSUME SinkInv, NEW b \in Batch, Publish(b) PROVE SinkInv'
<1> DEFINE a == IF market.acc = Absent
                  THEN [orders |-> NoOrders, baselined |-> FALSE, order_level |-> FALSE]
                  ELSE market.acc
           P == Pending(market, stage)
           m == [n |-> market.n + 1, batch |-> b]
           o2 == Put(a.orders, b)
           bl == a.baselined \/ b.clear
           ol == a.order_level \/ Names(b) # {}
<1>0. /\ World(market, stage) /\ Reader(viewer, market, stage)
      /\ market \in MarketType /\ stage \in StageType /\ InOrder(stage.queue, SentTo(market))
      /\ market.n < MaxSinkBatches /\ market.sending = Absent
  BY DEF SinkInv, World, Publish
<1>1. a \in Acc
  BY <1>0, SizesOfIs DEF Acc, MarketType
<1>2. /\ a.orders \in Sizes /\ a.baselined \in BOOLEAN /\ a.order_level \in BOOLEAN
      /\ b.clear \in BOOLEAN /\ bl \in BOOLEAN /\ ol \in BOOLEAN /\ o2 \in Sizes
  <2>1. a.orders \in Sizes /\ a.baselined \in BOOLEAN /\ a.order_level \in BOOLEAN
    BY <1>1 DEF Acc
  <2>2. b.clear \in BOOLEAN /\ o2 \in Sizes
    BY <2>1, BatchIs, PutIs
  <2> QED BY <2>1, <2>2
<1>3. market' = [n |-> market.n + 1, sending |-> b,
                 acc |-> [orders |-> o2, baselined |-> bl, order_level |-> ol]]
  BY DEF Publish
<1>4. UNCHANGED <<stage, viewer>>
  BY DEF Publish
<1>5. P \in SUBSET Message /\ (\A k \in P : k.n < market.n + 1) /\ market.n \in Nat
  <2>1. P \in SUBSET Message /\ (\A k \in P : k.n <= market.n) /\ market.n \in Nat
    BY <1>0, PendingIs DEF MarketType
  <2>2. \A k \in P : k.n \in Nat
    BY <2>1 DEF Message
  <2> QED BY <2>1, <2>2
<1>6. b # Absent
  BY SinkConstants
<1>a. a.orders = (IF market.acc = Absent THEN NoOrders ELSE market.acc.orders)
  OBVIOUS
<1>b. bl => b.clear = TRUE \/ Baselined(market)
  <2>1. CASE market.acc = Absent
    BY <1>2, <2>1
  <2>2. CASE market.acc # Absent
    BY <1>2, <2>2 DEF Baselined
  <2> QED BY <2>1, <2>2
<1>c. ~ol => a.orders = NoOrders /\ Names(b) = {}
  <2>1. CASE market.acc = Absent
    BY <1>2, <2>1
  <2>2. CASE market.acc # Absent
    BY <1>0, <1>2, <2>2, Zenon DEF World
  <2> QED BY <2>1, <2>2
<1> HIDE DEF a, o2, bl, ol
<1>7. /\ market'.n = market.n + 1 /\ market'.sending = b /\ market'.acc.orders = o2
      /\ market'.acc.baselined = bl /\ market'.acc.order_level = ol /\ market'.acc \in Acc
      /\ market' \in MarketType
  BY <1>2, <1>3, <1>5 DEF MarketType, Acc
<1>8. Pending(market', stage) = P \cup {m}
  BY <1>0, <1>6, <1>7 DEF Pending
<1>9. Baselined(market') => b.clear = TRUE \/ Baselined(market)
  BY <1>7, <1>b DEF Baselined
<1>10. Baselined(market) => a.orders = market.acc.orders
  BY <1>a DEF Baselined
<1>11. market.n + 1 \in Nat
  BY <1>5
<1> DEFINE Q == P \cup {m}
           oa == a.orders
<1>d. PICK n1 \in Nat : n1 = market.n + 1
  BY <1>11
<1>e. /\ Q = P \cup {[n |-> n1, batch |-> b]} /\ (\A k \in P : k.n < n1)
      /\ oa \in Sizes /\ o2 = Put(oa, b)
  BY <1>2, <1>5, <1>d DEF o2
<1> HIDE DEF P, Q, m
<1>12. GrowsTo(P, Q, b, oa, o2)
  <2> HIDE DEF oa
  <2> QED BY <1>5, <1>e, PendGrows
<1>13. World(market', stage)
  <2>1. market'.n <= MaxSinkBatches
    BY <1>0, <1>5, <1>7, SinkConstants
  <2>2. InOrder(stage.queue, SentTo(market'))
    <3>1. SentTo(market) = market.n /\ SentTo(market') = market.n
      BY <1>0, <1>5, <1>6, <1>7 DEF SentTo
    <3> QED BY <1>0, <3>1
  <2>3. ASSUME ~market'.acc.order_level PROVE market'.acc.orders = NoOrders
    <3>1. a.orders = NoOrders /\ Names(b) = {}
      BY <1>7, <1>c, <2>3
    <3>2. CASE b.clear = TRUE
      <4>1. b.orders \in Sizes
        BY <3>2, BatchIs
      <4>2. \A o \in SinkOrder : b.orders[o] = 0
        BY <3>1, <3>2 DEF Names
      <4>3. b.orders = NoOrders
        BY <4>1, <4>2 DEF NoOrders, Sizes
      <4> QED BY <1>7, <3>2, <4>3 DEF o2, Put
    <3>3. CASE b.clear = FALSE
      <4>1. o2 = [o \in SinkOrder |-> NoOrders[o]]
        BY <3>1, <3>3 DEF o2, Put
      <4> QED BY <1>7, <4>1 DEF NoOrders
    <3> QED BY <1>2, <3>2, <3>3
  <2>4. Baselined(market') => PendNow(Q, o2)
    BY <1>0, <1>9, <1>10, <1>12 DEF World, P, GrowsTo
  <2>5. Baselined(market') /\ Sure(stage) => StageNow(Q, SizesOf(stage), o2)
    BY <1>0, <1>9, <1>10, <1>12 DEF World, P, GrowsTo
  <2>6. Pending(market', stage) = Q
    BY <1>8 DEF Q
  <2> QED BY <1>0, <1>7, <2>1, <2>2, <2>3, <2>4, <2>5, <2>6 DEF World
<1>14. Queued(viewer.queue, market', stage)
  <2>0. Queued(viewer.queue, market, stage)
    BY <1>0, Zenon DEF Reader
  <2>1. Labelled(viewer.queue, market'.n)
    <3> SUFFICES ASSUME NEW k \in DOMAIN viewer.queue, Rendered(viewer.queue[k])
                 PROVE  /\ viewer.queue[k].n <= market'.n
                        /\ (viewer.queue[k].batch.clear = TRUE =>
                              viewer.queue[k].told = <<>>)
      BY DEF Labelled
    <3>1. viewer.queue[k].n <= market.n /\ (viewer.queue[k].batch.clear = TRUE =>
            viewer.queue[k].told = <<>>)
      BY <2>0 DEF Queued, Labelled
    <3>2. viewer.queue[k].n \in Nat
      BY <2>0, RenderedIs DEF Queued
    <3> QED BY <1>5, <1>7, <3>1, <3>2
  <2>2. Sure(stage) => QueueStage(viewer.queue, Q, stage.sure, SizesOf(stage))
    BY <1>12, <2>0 DEF Queued, P, GrowsTo
  <2>3. Baselined(market') /\ ~stage.lagged => QueueNow(viewer.queue, Q, o2)
    BY <1>9, <1>10, <1>12, <2>0 DEF Queued, P, GrowsTo
  <2>4. Pending(market', stage) = Q /\ market'.acc.orders = o2
    BY <1>7, <1>8 DEF Q
  <2> QED BY <2>0, <2>1, <2>2, <2>3, <2>4, Zenon DEF Queued
<1>15. Held(viewer, market', stage)
  <2>0. Held(viewer, market, stage)
    BY <1>0, Zenon DEF Reader
  <2>4. Pending(market', stage) = Q /\ market'.acc.orders = o2
    BY <1>7, <1>8 DEF Q
  <2>1. viewer.at = "on" /\ ~viewer.holed /\ ~viewer.lagged /\ viewer.base >= 0 /\ Sure(stage) =>
          BookStage(viewer.book, viewer.base, viewer.queue, Q, stage.sure, SizesOf(stage))
    BY <1>12, <2>0 DEF Held, P, GrowsTo
  <2>2. viewer.at = "on" /\ ~viewer.holed /\ ~viewer.lagged /\ Baselined(market') /\
          ~stage.lagged =>
          BookNow(viewer.book, viewer.queue, Q, o2)
    BY <1>9, <1>10, <1>12, <2>0 DEF Held, P, GrowsTo
  <2> QED BY <2>0, <2>1, <2>2, <2>4, Zenon DEF Held
<1>16. Reader(viewer, market', stage)
  BY <1>0, <1>14, <1>15, Zenon DEF Reader
<1> QED BY <1>4, <1>13, <1>16 DEF SinkInv

\* The queue of the stage, and the set of its batches, with one taken or added.
LEMMA StageTail ==
  ASSUME NEW q \in Seq(Message), q # <<>>, NEW n \in Int, InOrder(q, n)
  PROVE  /\ Head(q) \in Message /\ Head(q) \in Range(q) /\ Tail(q) \in Seq(Message)
         /\ InOrder(Tail(q), n) /\ Range(Tail(q)) = Range(q) \ {Head(q)}
         /\ \A k \in Range(q) : k # Head(q) => k.n > Head(q).n
         /\ \A k \in Range(q) : k.n <= n /\ k \in Message
<1>1. /\ Len(q) \in Nat \ {0} /\ DOMAIN q = 1..Len(q) /\ DOMAIN Tail(q) = 1 .. Len(q) - 1
      /\ (\A k \in 1 .. Len(q) - 1 : Tail(q)[k] = q[k + 1]) /\ Head(q) = q[1]
      /\ (\A k \in 1..Len(q) : q[k] \in Message) /\ Tail(q) \in Seq(Message)
  OBVIOUS
<1>2. \A k \in 1..Len(q) : q[k].n \in Nat /\ q[k].n <= n
  BY <1>1 DEF InOrder, Message
<1>3. \A k \in 2..Len(q) : q[1].n < q[k].n
  BY <1>1 DEF InOrder
<1>4. Head(q) \in Message /\ Head(q) \in Range(q) /\ Tail(q) \in Seq(Message)
  BY <1>1 DEF Range
<1>5. InOrder(Tail(q), n)
  <2>1. ASSUME NEW i \in 1 .. Len(q) - 1, NEW j \in 1 .. Len(q) - 1, i < j
        PROVE  Tail(q)[i].n < Tail(q)[j].n
    <3>1. i + 1 \in 1..Len(q) /\ j + 1 \in 1..Len(q) /\ i + 1 < j + 1
      BY <1>1, <2>1
    <3>2. q[i + 1].n < q[j + 1].n
      BY <1>1, <3>1 DEF InOrder
    <3> QED BY <1>1, <3>2
  <2>2. ASSUME NEW i \in 1 .. Len(q) - 1 PROVE Tail(q)[i].n <= n
    <3>1. i + 1 \in 1..Len(q)
      BY <1>1
    <3> QED BY <1>1, <1>2, <3>1
  <2> QED BY <1>1, <2>1, <2>2 DEF InOrder
<1>6. Range(Tail(q)) = Range(q) \ {Head(q)}
  <2>1. ASSUME NEW k \in Range(Tail(q)) PROVE k \in Range(q) /\ k # Head(q)
    <3>1. PICK i \in 1 .. Len(q) - 1 : k = Tail(q)[i]
      BY <1>1 DEF Range
    <3>2. i + 1 \in 2..Len(q) /\ i + 1 \in 1..Len(q) /\ k = q[i + 1]
      BY <1>1, <3>1
    <3>3. q[1].n < k.n /\ q[1].n \in Nat /\ k.n \in Nat
      BY <1>1, <1>2, <1>3, <3>2
    <3>4. k # Head(q)
      BY <1>1, <3>3
    <3> QED BY <1>1, <3>2, <3>4 DEF Range
  <2>2. ASSUME NEW k \in Range(q), k # Head(q) PROVE k \in Range(Tail(q))
    <3>1. PICK i \in 1..Len(q) : k = q[i]
      BY <1>1 DEF Range
    <3>2. i # 1
      BY <1>1, <2>2, <3>1
    <3>3. i - 1 \in 1 .. Len(q) - 1 /\ (i - 1) + 1 = i
      BY <1>1, <3>2
    <3>4. k = Tail(q)[i - 1]
      BY <1>1, <3>1, <3>3
    <3> QED BY <1>1, <3>3, <3>4 DEF Range
  <2> QED BY <2>1, <2>2
<1>7. ASSUME NEW k \in Range(q), k # Head(q) PROVE k.n > Head(q).n
  <2>1. PICK i \in 1..Len(q) : k = q[i]
    BY <1>1 DEF Range
  <2>2. i \in 2..Len(q)
    BY <1>1, <1>7, <2>1
  <2> QED BY <1>1, <1>2, <1>3, <2>1, <2>2
<1>8. ASSUME NEW k \in Range(q) PROVE k.n <= n /\ k \in Message
  BY <1>1, <1>2 DEF Range
<1> QED BY <1>4, <1>5, <1>6, <1>7, <1>8

\* A batch newer than all.
LEMMA StageAppend ==
  ASSUME NEW q \in Seq(Message), NEW x \in Message, NEW n \in Int, InOrder(q, n), n < x.n
  PROVE  /\ Append(q, x) \in Seq(Message) /\ Range(Append(q, x)) = Range(q) \cup {x}
         /\ InOrder(Append(q, x), x.n)
<1>1. /\ Append(q, x) \in Seq(Message) /\ Len(q) \in Nat
      /\ DOMAIN q = 1..Len(q) /\ DOMAIN Append(q, x) = 1 .. Len(q) + 1
      /\ \A k \in 1..Len(q) : Append(q, x)[k] = q[k]
      /\ \A k \in 1..Len(q) : q[k] \in Message
      /\ Append(q, x)[Len(q) + 1] = x
  OBVIOUS
<1>2. \A k \in 1..Len(q) : q[k].n < x.n /\ q[k].n \in Nat
  BY <1>1 DEF InOrder, Message
<1>3. InOrder(Append(q, x), x.n)
  <2>0. x.n \in Nat
    BY DEF Message
  <2>1. \A i \in 1 .. Len(q) + 1 : i \in 1..Len(q) \/ i = Len(q) + 1
    BY <1>1
  <2>2. \A i \in 1 .. Len(q) + 1 : Append(q, x)[i].n <= x.n
    BY <1>1, <1>2, <2>0, <2>1
  <2>3. ASSUME NEW i \in 1 .. Len(q) + 1, NEW j \in 1 .. Len(q) + 1, i < j
        PROVE  Append(q, x)[i].n < Append(q, x)[j].n
    <3>1. i \in 1..Len(q)
      BY <1>1, <2>3
    <3>2. CASE j = Len(q) + 1
      BY <1>1, <1>2, <3>1, <3>2
    <3>3. CASE j \in 1..Len(q)
      BY <1>1, <2>3, <3>1, <3>3 DEF InOrder
    <3> QED BY <2>1, <3>2, <3>3
  <2> QED BY <1>1, <2>2, <2>3 DEF InOrder
<1>4. Range(Append(q, x)) = Range(q) \cup {x}
  <2>1. ASSUME NEW k \in Range(Append(q, x)) PROVE k \in Range(q) \cup {x}
    BY <1>1 DEF Range
  <2>2. ASSUME NEW k \in Range(q) PROVE k \in Range(Append(q, x))
    <3>1. PICK i \in 1..Len(q) : k = q[i]
      BY <1>1 DEF Range
    <3>2. i \in 1 .. Len(q) + 1 /\ k = Append(q, x)[i]
      BY <1>1, <3>1
    <3> QED BY <1>1, <3>2 DEF Range
  <2>3. x \in Range(Append(q, x))
    <3>1. Len(q) + 1 \in 1 .. Len(q) + 1
      BY <1>1
    <3> QED BY <1>1, <3>1 DEF Range
  <2> QED BY <2>1, <2>2, <2>3
<1> QED BY <1>1, <1>3, <1>4

\* The stage's oldest batch.
LEMMA OldestIs ==
  ASSUME NEW mk \in MarketType, NEW st \in StageType, InOrder(st.queue, SentTo(mk)), st.queue # <<>>
  PROVE  /\ Oldest(Pending(mk, st), Head(st.queue)) /\ Head(st.queue) \in Message
         /\ Head(st.queue).n <= SentTo(mk)
<1>1. mk.n \in Nat /\ st.queue \in Seq(Message) /\ SentTo(mk) \in Int /\
        mk.sending \in Batch \cup {Absent}
  BY DEF MarketType, StageType, SentTo
<1> DEFINE q == st.queue
<1>2. /\ Head(q) \in Message /\ Head(q) \in Range(q)
      /\ \A k \in Range(q) : k # Head(q) => k.n > Head(q).n
      /\ \A k \in Range(q) : k.n <= SentTo(mk)
  BY <1>1, StageTail
<1>3. ASSUME NEW k \in Pending(mk, st), k # Head(q) PROVE k.n > Head(q).n
  <2>1. CASE k \in Range(q)
    BY <1>2, <1>3, <2>1
  <2>2. CASE k \notin Range(q)
    <3>1. mk.sending # Absent /\ k.n = mk.n
      BY <1>3, <2>2 DEF Pending
    <3>2. Head(q).n <= mk.n - 1 /\ Head(q).n \in Nat
      BY <1>1, <1>2, <3>1 DEF SentTo, Message
    <3> QED BY <1>1, <3>1, <3>2
  <2> QED BY <2>1, <2>2
<1> QED BY <1>2, <1>3 DEF Oldest, Pending

\* A batch moves from the map to the queue of the stage, whose oldest may be lost.
LEMMA BroadcastKeeps == ASSUME SinkInv, Broadcast PROVE SinkInv'
<1> DEFINE m == [n |-> market.n, batch |-> market.sending]
           P == Pending(market, stage)
           q == stage.queue
<1>0. /\ World(market, stage) /\ Reader(viewer, market, stage) /\ market.sending # Absent
      /\ market \in MarketType /\ stage \in StageType /\ InOrder(q, SentTo(market))
      /\ market' = [market EXCEPT !.sending = Absent] /\ viewer' = viewer
      /\ stage' = Push(stage, m, sink_backbone)
  BY DEF SinkInv, World, Broadcast
<1>1. /\ market' \in MarketType /\ market'.n = market.n /\ market'.acc = market.acc
      /\ market'.sending = Absent
  BY <1>0 DEF MarketType
<1>2. /\ market.n \in Nat /\ q \in Seq(Message) /\ m \in Message /\ m.n = market.n
      /\ SentTo(market) = market.n - 1 /\ SentTo(market') = market.n
      /\ P = Range(q) \cup {m} /\ Pending(market', stage') = Range(stage'.queue)
  BY <1>0, <1>1 DEF MarketType, StageType, Message, SentTo, Pending
<1>3. Baselined(market') = Baselined(market)
  BY <1>1 DEF Baselined
<1> HIDE DEF m
<1>4. CASE Len(q) < sink_backbone
  <2>1. stage' = [stage EXCEPT !.queue = Append(q, m)]
    BY <1>0, <1>4 DEF Push, StageType
  <2>2. /\ stage'.queue = Append(q, m) /\ stage'.lagged = stage.lagged
        /\ stage'.sure = stage.sure /\ stage'.published = stage.published
    BY <1>0, <2>1 DEF StageType
  <2>3. /\ Append(q, m) \in Seq(Message) /\ Range(Append(q, m)) = Range(q) \cup {m}
        /\ InOrder(Append(q, m), market.n)
    <3>1. market.n - 1 \in Int /\ InOrder(q, market.n - 1) /\ market.n - 1 < m.n
      BY <1>0, <1>2
    <3> QED BY <1>2, <3>1, StageAppend
  <2>4. stage' \in StageType
    BY <1>0, <2>1, <2>3, Zenon DEF StageType
  <2>5. Pending(market', stage') = P /\ SizesOf(stage') = SizesOf(stage) /\
          (Sure(stage') <=> Sure(stage))
    BY <1>2, <2>2, <2>3 DEF SizesOf, Sure
  <2>6. InOrder(stage'.queue, SentTo(market'))
    BY <1>2, <2>2, <2>3
  <2> HIDE DEF P
  <2>7. World(market', stage')
    BY <1>0, <1>1, <1>3, <2>4, <2>5, <2>6, Zenon DEF World, P
  <2>8. Queued(viewer.queue, market', stage')
    BY <1>0, <1>1, <1>3, <2>2, <2>5, Zenon DEF Reader, Queued, P
  <2>9. Held(viewer, market', stage')
    BY <1>0, <1>1, <1>3, <2>2, <2>5, Zenon DEF Reader, Held, P
  <2>10. Reader(viewer, market', stage')
    BY <1>0, <2>8, <2>9, Zenon DEF Reader
  <2> QED BY <1>0, <2>7, <2>10 DEF SinkInv
<1>5. CASE ~(Len(q) < sink_backbone)
  <2>1. stage' = [stage EXCEPT !.queue = Append(Tail(q), m), !.lagged = TRUE]
    BY <1>0, <1>5 DEF Push, StageType
  <2>2. stage'.queue = Append(Tail(q), m) /\ stage'.lagged = TRUE
    BY <1>0, <2>1 DEF StageType
  <2>a. q # <<>>
    <3>1. sink_backbone \in Nat \ {0}
      BY SinkConstants
    <3> QED BY <1>2, <1>5, <3>1
  <2>3. /\ Tail(q) \in Seq(Message) /\ InOrder(Tail(q), market.n - 1)
        /\ Range(Tail(q)) = Range(q) \ {Head(q)}
        /\ Oldest(P, Head(q)) /\ Head(q) \in Message /\ Head(q).n <= market.n - 1
    <3>1. market.n - 1 \in Int /\ InOrder(q, market.n - 1)
      BY <1>0, <1>2
    <3>2. Oldest(P, Head(q)) /\ Head(q) \in Message /\ Head(q).n <= SentTo(market)
      BY <1>0, <2>a, OldestIs
    <3> QED BY <1>2, <2>a, <3>1, <3>2, StageTail
  <2>4. /\ Append(Tail(q), m) \in Seq(Message) /\
             Range(Append(Tail(q), m)) = Range(Tail(q)) \cup {m}
        /\ InOrder(Append(Tail(q), m), market.n)
    <3>1. market.n - 1 \in Int /\ market.n - 1 < m.n
      BY <1>2
    <3> QED BY <1>2, <2>3, <3>1, StageAppend
  <2>5. stage' \in StageType
    BY <1>0, <2>1, <2>4, Zenon DEF StageType
  <2>6. Head(q) # m
    BY <1>2, <2>3 DEF Message
  <2>7. Pending(market', stage') = P \ {Head(q)}
    BY <1>2, <2>2, <2>3, <2>4, <2>6
  <2>8. InOrder(stage'.queue, SentTo(market'))
    BY <1>2, <2>2, <2>4
  <2>9. ~Sure(stage')
    BY <2>2 DEF Sure
  <2>10. Baselined(market) => PendNow(P \ {Head(q)}, market.acc.orders)
    <3>1. P \in SUBSET Message
      BY <1>0, PendingIs
    <3>2. Baselined(market) => PendNow(P, market.acc.orders)
      BY <1>0 DEF World
    <3> HIDE DEF P
    <3> QED BY <2>3, <3>1, <3>2, PendShrinks
  <2> HIDE DEF P
  <2>11. World(market', stage')
    BY <1>0, <1>1, <1>3, <2>5, <2>7, <2>8, <2>9, <2>10, Zenon DEF World
  <2>12. Queued(viewer.queue, market', stage')
    BY <1>0, <1>1, <2>2, <2>9, Zenon DEF Reader, Queued
  <2>13. Held(viewer, market', stage')
    BY <1>0, <1>1, <2>2, <2>9, Zenon DEF Reader, Held
  <2>14. Reader(viewer, market', stage')
    BY <1>0, <2>12, <2>13, Zenon DEF Reader
  <2> QED BY <1>0, <2>11, <2>14 DEF SinkInv
<1> QED BY <1>4, <1>5

-----------------------------------------------------------------------------
(* The stage gives its clients an entry.                                    *)

\* A frame makes no hole, nor does a bare entry behind no frame.
LEMMA HoledGrows ==
  ASSUME NEW q \in Seq(Entry), ~Holed(q), NEW x \in Entry,
         x = Bare => \A k \in DOMAIN q : ~Rendered(q[k])
  PROVE  ~Holed(Append(q, x))
<1>1. /\ Len(q) \in Nat /\ DOMAIN q = 1..Len(q) /\ DOMAIN Append(q, x) = 1 .. Len(q) + 1
      /\ \A k \in 1..Len(q) : Append(q, x)[k] = q[k]
      /\ Append(q, x)[Len(q) + 1] = x
  BY AppendIs
<1> SUFFICES ASSUME NEW j \in 1 .. Len(q) + 1, Append(q, x)[j] = Bare,
                    NEW i \in 1 .. j - 1, Append(q, x)[i] \notin {Bare, Resync}
             PROVE  FALSE
  BY <1>1 DEF Holed
<1>2. i \in 1..Len(q) /\ q[i] \notin {Bare, Resync}
  BY <1>1
<1>3. CASE j = Len(q) + 1
  BY <1>1, <1>2, <1>3 DEF Rendered
<1>4. CASE j \in 1..Len(q)
  BY <1>1, <1>2, <1>4 DEF Holed
<1> QED BY <1>1, <1>3, <1>4

\* v is the viewer once x is behind q0: what it had queued, or, its oldest lost, the rest.
Trailing(v, x, q0) ==
  /\ Queued(q0, market, stage) /\ v.queue = Append(q0, x)
  /\ ~v.lagged => q0 = viewer.queue /\ ~viewer.lagged
  /\ ~Holed(viewer.queue) => ~Holed(q0)
  /\ Range(q0) \subseteq Range(viewer.queue)

\* What the stage gives a client is behind what it had.
LEMMA Pushed ==
  ASSUME Reader(viewer, market, stage), viewer.at # "off", NEW x \in Entry, ToViewer(x)
  PROVE  /\ viewer' \in ViewerType /\ ~viewer'.misfit
         /\ viewer'.at = viewer.at /\ viewer'.book = viewer.book /\ viewer'.base = viewer.base
         /\ ~viewer'.holed => ~viewer.holed /\ ~Unheard(x)
         /\ \E q0 : Trailing(viewer', x, q0)
<1> DEFINE q == viewer.queue
           w == Push(viewer, x, PREPARED_CAPACITY)
           h == viewer.holed \/ Unheard(x)
<1>0. viewer \in ViewerType /\ Queued(q, market, stage) /\ q \in Seq(Entry) /\ ~viewer.misfit
  BY DEF Reader, ViewerType
<1>1. viewer' = [w EXCEPT !.holed = @ \/ Unheard(x)]
  BY DEF ToViewer
<1>2. PREPARED_CAPACITY \in Nat \ {0}
  BY SinkConstants
<1> DEFINE R(q0, l) ==
        /\ w = [viewer EXCEPT !.queue = Append(q0, x), !.lagged = l]
        /\ Queued(q0, market, stage) /\ (~l => q0 = q /\ ~viewer.lagged)
        /\ (~Holed(q) => ~Holed(q0)) /\ Range(q0) \subseteq Range(q)
<1>a. \E q0 : \E l \in BOOLEAN : R(q0, l)
  <2>1. CASE Len(q) < PREPARED_CAPACITY
    <3>1. w = [viewer EXCEPT !.queue = Append(q, x), !.lagged = viewer.lagged]
      BY <1>0, <2>1 DEF Push, ViewerType
    <3>2. viewer.lagged \in BOOLEAN
      BY <1>0 DEF ViewerType
    <3>3. R(q, viewer.lagged)
      BY <1>0, <3>1, Zenon
    <3> HIDE DEF R
    <3> QED BY <3>2, <3>3, Zenon
  <2>2. CASE ~(Len(q) < PREPARED_CAPACITY)
    <3>1. w = [viewer EXCEPT !.queue = Append(Tail(q), x), !.lagged = TRUE]
      BY <1>0, <2>2 DEF Push, ViewerType
    <3>2. q # <<>>
      BY <1>0, <1>2, <2>2
    <3>3. Queued(Tail(q), market, stage) /\ (~Holed(q) => ~Holed(Tail(q)))
      BY <1>0, <3>2, QueuedTail, HoledTail
    <3>4. Range(Tail(q)) \subseteq Range(q)
      <4>1. \A k \in DOMAIN Tail(q) : k + 1 \in DOMAIN q /\ Tail(q)[k] = q[k + 1]
        BY <1>0, <3>2, TailIs
      <4> QED BY <4>1 DEF Range
    <3>5. R(Tail(q), TRUE)
      BY <3>1, <3>3, <3>4, Zenon
    <3> HIDE DEF R
    <3>6. TRUE \in BOOLEAN
      OBVIOUS
    <3> QED BY <3>5, <3>6, Zenon
  <2> HIDE DEF R
  <2> QED BY <2>1, <2>2
<1>b. PICK q0 : \E l \in BOOLEAN : R(q0, l)
  <2> HIDE DEF R
  <2> QED BY <1>a
<1>c. PICK l \in BOOLEAN : R(q0, l)
  <2> HIDE DEF R
  <2> QED BY <1>b
<1> HIDE DEF w
<1>3. /\ w = [viewer EXCEPT !.queue = Append(q0, x), !.lagged = l]
      /\ Queued(q0, market, stage) /\ (~l => q0 = q /\ ~viewer.lagged)
      /\ (~Holed(q) => ~Holed(q0)) /\ Range(q0) \subseteq Range(q)
  BY <1>c, Zenon
<1>4. Append(q0, x) \in Seq(Entry) /\ h \in BOOLEAN /\ q0 \in Seq(Entry)
  <2>1. q0 \in Seq(Entry)
    BY <1>3 DEF Queued
  <2>2. viewer.holed \in BOOLEAN
    BY <1>0 DEF ViewerType
  <2> QED BY <2>1, <2>2
<1> HIDE DEF h
<1>5. viewer' = [viewer EXCEPT !.queue = Append(q0, x), !.lagged = l, !.holed = h]
  <2>1. w.holed = viewer.holed
    BY <1>0, <1>3 DEF ViewerType
  <2>2. viewer' = [w EXCEPT !.holed = h]
    BY <1>0, <1>1, <1>3, <2>1 DEF h, ViewerType
  <2> QED BY <1>0, <1>3, <2>2 DEF ViewerType
<1>6. viewer' \in ViewerType
  BY <1>0, <1>3, <1>4, <1>5, Zenon DEF ViewerType
<1>7. /\ viewer'.at = viewer.at /\ viewer'.book = viewer.book /\ viewer'.base = viewer.base
      /\ viewer'.misfit = viewer.misfit /\ viewer'.holed = h /\ viewer'.lagged = l
      /\ viewer'.queue = Append(q0, x)
  BY <1>0, <1>5 DEF ViewerType
<1>8. ~viewer'.holed => ~viewer.holed /\ ~Unheard(x)
  BY <1>7 DEF h
<1>9. Trailing(viewer', x, q0)
  BY <1>3, <1>7 DEF Trailing
<1> QED BY <1>0, <1>6, <1>7, <1>8, <1>9

\* A frame of a published batch, a whole book told as one.
LEMMA LabelledGrows ==
  ASSUME NEW q \in Seq(Entry), NEW n, Labelled(q, n), NEW x \in Entry,
         Rendered(x) => x.n <= n /\ (x.batch.clear = TRUE => x.told = <<>>)
  PROVE  Append(q, x) \in Seq(Entry) /\ Labelled(Append(q, x), n)
<1>1. /\ Append(q, x) \in Seq(Entry) /\ Len(q) \in Nat
      /\ DOMAIN q = 1..Len(q) /\ DOMAIN Append(q, x) = 1 .. Len(q) + 1
      /\ \A k \in 1..Len(q) : Append(q, x)[k] = q[k]
      /\ Append(q, x)[Len(q) + 1] = x
  BY AppendIs
<1>2. \A k \in 1 .. Len(q) + 1 : k \in 1..Len(q) \/ k = Len(q) + 1
  BY <1>1
<1> QED BY <1>1, <1>2 DEF Labelled

\* Nothing is asked across an entry that says nothing.
LEMMA QueuedDull ==
  ASSUME NEW mk, NEW st, NEW s2, NEW q, Queued(q, mk, st), NEW x \in {Bare, Resync}
  PROVE  Queued(Append(q, x), mk, s2)
<1>0. q \in Seq(Entry) /\ QueueFit(q) /\ Labelled(q, mk.n) /\ x \in Entry /\ ~Rendered(x)
  BY DEF Queued, Entry, Rendered
<1>1. Append(q, x) \in Seq(Entry) /\ Labelled(Append(q, x), mk.n)
  BY <1>0, LabelledGrows
<1>2. QueueFit(Append(q, x))
  BY <1>0, FitDull
<1>3. (\A P, s, sizes : QueueStage(Append(q, x), P, s, sizes)) /\
        (\A P, orders : QueueNow(Append(q, x), P, orders))
  BY <1>0, QueueDull
<1> QED BY <1>1, <1>2, <1>3, Zenon DEF Queued

\* The stage starts over from the map, and every client is told.
LEMMA StageLaggedKeeps == ASSUME SinkInv, StageLagged PROVE SinkInv'
<1> DEFINE P == Pending(market, stage)
           pub == reseed_published(market.acc)
<1>0. /\ World(market, stage) /\ Reader(viewer, market, stage)
      /\ market \in MarketType /\ stage \in StageType /\ InOrder(stage.queue, SentTo(market))
      /\ market' = market /\ ToViewer(Resync)
      /\ stage' = [stage EXCEPT !.lagged = FALSE, !.published = pub, !.sure = market.n + 1]
  BY DEF SinkInv, World, StageLagged
<1>1. market.n + 1 \in Nat /\ market.acc \in Acc \cup {Absent}
  BY <1>0 DEF MarketType
<1>4. pub \in Pub \cup {Absent}
  <2>1. ASSUME market.acc # Absent, market.acc.order_level PROVE pub \in Pub
    <3>1. pub = [sizes |-> market.acc.orders, order_level |-> TRUE] /\ market.acc.orders \in Sizes
      BY <1>1, <2>1 DEF reseed_published, Acc
    <3> QED BY <3>1 DEF Pub
  <2>2. ASSUME ~(market.acc # Absent /\ market.acc.order_level) PROVE pub = Absent
    BY <2>2 DEF reseed_published
  <2> QED BY <2>1, <2>2
<1>5. Baselined(market) => (IF pub = Absent THEN NoOrders ELSE pub.sizes) = market.acc.orders
  <2>1. CASE market.acc # Absent /\ market.acc.order_level
    <3>1. pub = [sizes |-> market.acc.orders, order_level |-> TRUE] /\ market.acc.orders \in Sizes
      BY <1>1, <2>1 DEF reseed_published, Acc
    <3>2. pub \in Pub /\ pub.sizes = market.acc.orders
      BY <3>1 DEF Pub
    <3>3. pub # Absent
      BY <1>0, <3>2, SizesOfIs
    <3> QED BY <3>2, <3>3
  <2>2. CASE ~(market.acc # Absent /\ market.acc.order_level)
    <3>1. pub = Absent
      BY <2>2 DEF reseed_published
    <3>2. Baselined(market) => market.acc.orders = NoOrders
      BY <1>0, <2>2, Zenon DEF World, Baselined
    <3> QED BY <3>1, <3>2
  <2> QED BY <2>1, <2>2
<1> HIDE DEF pub
<1>6. /\ stage'.queue = stage.queue /\ stage'.lagged = FALSE /\ stage'.published = pub
      /\ stage'.sure = market.n + 1
  BY <1>0 DEF StageType
<1>7. stage' \in StageType
  BY <1>0, <1>1, <1>4, Zenon DEF StageType
<1>8. Pending(market, stage') = P
  BY <1>6 DEF Pending
<1>9. World(market, stage')
  <2>1. Baselined(market) => SizesOf(stage') = market.acc.orders
    BY <1>5, <1>6 DEF SizesOf
  <2>2. Baselined(market) => StageNow(P, SizesOf(stage'), market.acc.orders)
    BY <2>1 DEF StageNow
  <2> QED BY <1>0, <1>6, <1>7, <1>8, <2>2, Zenon DEF World
<1>10. CASE viewer.at = "off"
  <2>1. viewer' = viewer
    BY <1>0, <1>10 DEF ToViewer
  <2>2. viewer \in ViewerType /\ ~viewer.misfit /\ viewer.queue = <<>>
    BY <1>0, <1>10 DEF Reader
  <2>3. Reader(viewer, market, stage')
    BY <1>10, <2>2, QueuedEmpty, ReaderAway
  <2> QED BY <1>0, <1>9, <2>1, <2>3 DEF SinkInv
<1>11. CASE viewer.at # "off"
  <2>0. Resync \in Entry /\ Resync # Bare /\ Resync \in {Bare, Resync}
    BY SinkConstants DEF Entry
  <2>1. /\ viewer' \in ViewerType /\ ~viewer'.misfit
        /\ viewer'.at = viewer.at /\ viewer'.book = viewer.book /\ viewer'.base = viewer.base
        /\ ~viewer'.holed => ~viewer.holed /\ ~Unheard(Resync)
        /\ \E q0 : Trailing(viewer', Resync, q0)
    BY <1>0, <1>11, <2>0, Pushed
  <2>2. PICK q0 : Trailing(viewer', Resync, q0)
    BY <2>1
  <2>3. /\ Queued(q0, market, stage) /\ viewer'.queue = Append(q0, Resync) /\ q0 \in Seq(Entry)
        /\ ~viewer'.lagged => q0 = viewer.queue /\ ~viewer.lagged
        /\ ~Holed(viewer.queue) => ~Holed(q0)
    BY <2>2 DEF Trailing, Queued
  <2>4. Queued(viewer'.queue, market, stage')
    BY <2>0, <2>3, QueuedDull
  <2>5. Held(viewer', market, stage')
    <3> SUFFICES ASSUME viewer'.at = "on", ~viewer'.holed
                 PROVE  /\ ~Holed(viewer'.queue) /\ ~Calm(viewer'.queue, 0, Len(viewer'.queue))
                        /\ ~viewer'.lagged /\ viewer'.base >= 0 =>
                             BookFit(viewer'.book, viewer'.base, viewer'.queue)
      BY Zenon DEF Held, BookStage, BookNow
    <3>1. viewer.at = "on" /\ ~viewer.holed /\ Held(viewer, market, stage)
      BY <1>0, <2>1 DEF Reader
    <3>2. ~Holed(viewer'.queue)
      BY <2>0, <2>3, <3>1, HoledGrows DEF Held
    <3>3. ~Calm(viewer'.queue, 0, Len(viewer'.queue))
      <4>1. Len(q0) \in Nat /\ Len(viewer'.queue) = Len(q0) + 1 /\
              viewer'.queue[Len(q0) + 1] = Resync
        BY <2>0, <2>3, AppendIs
      <4> QED BY <4>1 DEF Calm
    <3>4. ASSUME ~viewer'.lagged, viewer'.base >= 0
          PROVE  BookFit(viewer'.book, viewer'.base, viewer'.queue)
      <4>1. BookFit(viewer.book, viewer.base, viewer.queue) /\ q0 = viewer.queue
        BY <2>1, <2>3, <3>1, <3>4 DEF Held
      <4> QED BY <2>0, <2>1, <2>3, <4>1, BookFitDull
    <3> QED BY <3>2, <3>3, <3>4
  <2>6. Reader(viewer', market, stage')
    BY <1>11, <2>1, <2>4, <2>5 DEF Reader
  <2> QED BY <1>0, <1>9, <2>6 DEF SinkInv
<1> QED BY <1>10, <1>11

Output(x, m, sure, sizes) ==
  \/ x = Bare /\ m.batch.clear = TRUE /\ m.batch.orders = NoOrders
  \/ RenderedAs(x, m, sure, sizes) /\ (x.batch.clear = TRUE => x.told = <<>>)

\* What the stage renders for a claimed coin.
LEMMA RenderIs ==
  ASSUME stage \in StageType, NEW m \in Message
  PROVE  Output(render(Seeded, m), m, stage.sure, SizesOf(stage))
<1> DEFINE b == m.batch
           x == render(Seeded, m)
<1>1. /\ b \in Batch /\ m.n \in Nat /\ b.clear \in BOOLEAN
      /\ (b.clear = TRUE => b.orders \in Sizes)
      /\ (b.clear = FALSE => b.changes \in Seq([order : SinkOrder, size : Nat]))
  BY BatchIs DEF Message
<1>2. Seeded.sizes = SizesOf(stage)
  BY DEF Seeded, SizesOf
<1>3. CASE b.clear = TRUE /\ Applied(Seeded, b).order_level
  <2>1. x = [n |-> m.n, batch |-> b, told |-> <<>>]
    BY <1>3 DEF render
  <2> HIDE DEF x
  <2>2. x \in Frame /\ x.n = m.n /\ x.batch = m.batch /\ x.told = <<>>
    BY <1>1, <2>1 DEF Frame
  <2>3. ~Diff(x)
    BY <1>3, <2>2 DEF Diff
  <2> QED BY <2>2, <2>3 DEF Output, RenderedAs, x
<1>4. CASE b.clear = TRUE /\ ~Applied(Seeded, b).order_level
  <2>1. x = Bare
    BY <1>4 DEF render
  <2>2. Names(b) = {}
    BY <1>4 DEF Applied
  <2>3. \A o \in SinkOrder : b.orders[o] = 0
    BY <1>4, <2>2 DEF Names
  <2>4. b.orders = NoOrders
    BY <1>1, <1>4, <2>3 DEF NoOrders, Sizes
  <2> QED BY <1>4, <2>1, <2>4 DEF Output
<1>5. CASE b.clear = FALSE
  <2> DEFINE c == b.changes
             vt(i) == IF m.n < stage.sure THEN "unsure"
                      ELSE raw_diff(c[i].size, Seeded.sizes[c[i].order])
             t == [i \in DOMAIN c |-> vt(i)]
  <2>1. x = [n |-> m.n, batch |-> b, told |-> t]
    BY <1>5 DEF render
  <2>2. t \in Seq({"unsure", "remove", "update", "new"})
    <3>1. \A i : vt(i) \in {"unsure", "remove", "update", "new"}
      BY DEF raw_diff
    <3>2. DOMAIN c = 1..Len(c) /\ Len(c) \in Nat
      BY <1>1, <1>5
    <3> HIDE DEF vt
    <3> QED BY <3>1, <3>2
  <2>3. stage.sure \in Nat
    BY DEF StageType
  <2>4. \A i \in DOMAIN c : t[i] = vt(i)
    OBVIOUS
  <2> HIDE DEF x, t
  <2>5. x \in Frame /\ x.n = m.n /\ x.batch = m.batch /\ x.told = t
    BY <1>1, <2>1, <2>2 DEF Frame
  <2>6. CASE m.n < stage.sure
    <3>1. Mute(x)
      BY <2>4, <2>5, <2>6 DEF Mute
    <3> QED BY <1>5, <2>5, <3>1 DEF Output, RenderedAs, x
  <2>7. CASE ~(m.n < stage.sure)
    <3>1. m.n >= stage.sure
      BY <1>1, <2>3, <2>7
    <3>2. \A i \in DOMAIN c : t[i] = raw_diff(c[i].size, SizesOf(stage)[c[i].order])
      BY <1>2, <2>4, <2>7
    <3>3. \A o \in SinkOrder : Says(x, o, SizesOf(stage)[o])
      BY <2>5, <3>2 DEF Says, raw_diff
    <3> QED BY <1>5, <2>5, <3>1, <3>3 DEF Output, RenderedAs, x
  <2> QED BY <2>6, <2>7
<1> QED BY <1>1, <1>3, <1>4, <1>5

\* What the stage becomes.
LEMMA Prepared ==
  ASSUME SinkInv, prepare_one, NEW m, m = Head(stage.queue)
  PROVE  /\ World(market, stage') /\ stage' \in StageType /\ ~stage'.lagged
         /\ Pending(market, stage') = Pending(market, stage) \ {m}
         /\ SizesOf(stage') = Put(SizesOf(stage), m.batch)
         /\ m \in Message /\ Oldest(Pending(market, stage), m) /\ m.n <= market.n
         /\ stage'.sure = (IF m.batch.clear THEN m.n ELSE stage.sure)
         /\ market.n <= MaxSinkBatches /\ SizesOf(stage) \in Sizes /\
              Pending(market, stage) \in SUBSET Message
<1> DEFINE P == Pending(market, stage)
           p2 == Applied(Seeded, m.batch)
           su == IF m.batch.clear THEN m.n ELSE stage.sure
<1>0. /\ World(market, stage) /\ market \in MarketType /\ stage \in StageType
      /\ InOrder(stage.queue, SentTo(market)) /\ ~stage.lagged /\ stage.queue # <<>>
      /\ market.n <= MaxSinkBatches
  BY DEF SinkInv, World, prepare_one
<1>1. stage' = [stage EXCEPT !.queue = Tail(stage.queue), !.published = p2, !.sure = su]
  BY <1>0 DEF prepare_one, StageType
<1>2. market.n \in Nat /\ stage.queue \in Seq(Message) /\ SentTo(market) \in Int /\
        SentTo(market) <= market.n
      /\ stage.sure \in Nat
  BY <1>0 DEF MarketType, StageType, SentTo
<1>3. Oldest(P, m) /\ m \in Message /\ m.n <= SentTo(market)
  BY <1>0, OldestIs
<1>4. m.n \in Nat /\ m.batch \in Batch /\ m.batch.clear \in BOOLEAN
  BY <1>3, BatchIs DEF Message
<1>5. Tail(stage.queue) \in Seq(Message) /\ InOrder(Tail(stage.queue), SentTo(market))
      /\ Range(Tail(stage.queue)) = Range(stage.queue) \ {m}
  BY <1>0, <1>2, StageTail
<1>6. SizesOf(stage) \in Sizes /\ NoOrders \in Sizes
  BY <1>0, SizesOfIs
<1>7. p2 \in Pub /\ p2.sizes = Put(SizesOf(stage), m.batch) /\ p2 # Absent
  <2>1. Seeded.sizes = SizesOf(stage)
    BY DEF Seeded, SizesOf
  <2>2. Put(Seeded.sizes, m.batch) \in Sizes
    BY <1>4, <1>6, <2>1, PutIs
  <2>3. (Seeded.order_level \/ Names(m.batch) # {}) \in BOOLEAN
    OBVIOUS
  <2>4. p2 \in Pub
    BY <2>2, <2>3, Zenon DEF Applied, Pub
  <2>5. p2.sizes = Put(SizesOf(stage), m.batch)
    BY <2>1 DEF Applied
  <2> QED BY <1>0, <2>4, <2>5, SizesOfIs
<1>8. su \in Nat
  BY <1>2, <1>4
<1> HIDE DEF p2, su
<1>9. stage' \in StageType
  <2>1. p2 \in Pub \cup {Absent}
    BY <1>7
  <2> QED BY <1>0, <1>1, <1>5, <1>8, <2>1, Zenon DEF StageType
<1>10. /\ stage'.queue = Tail(stage.queue) /\ stage'.published = p2 /\ stage'.sure = su
       /\ stage'.lagged = stage.lagged
  BY <1>0, <1>1 DEF StageType
<1>11. SizesOf(stage') = Put(SizesOf(stage), m.batch)
  BY <1>7, <1>10 DEF SizesOf
<1>12. Pending(market, stage') = P \ {m}
  <2>1. m \in Range(stage.queue)
    BY <1>0, <1>2, StageTail
  <2>2. market.sending # Absent => [n |-> market.n, batch |-> market.sending] # m
    BY <1>2, <1>3, <1>4 DEF SentTo
  <2> QED BY <1>5, <1>10, <2>2 DEF Pending
<1>13. P \in SUBSET Message
  BY <1>0, PendingIs
<1>14. World(market, stage')
  <2> HIDE DEF P
  <2>1. Baselined(market) => PendNow(P, market.acc.orders)
    BY <1>0, Zenon DEF World, P
  <2>2. Baselined(market) => PendNow(P \ {m}, market.acc.orders)
    BY <1>3, <1>13, <2>1, PendShrinks
  <2>3. ASSUME Baselined(market), Sure(stage')
        PROVE  StageNow(P \ {m}, Put(SizesOf(stage), m.batch), market.acc.orders)
    <3>1. CASE m.batch.clear = TRUE
      BY <1>3, <1>6, <1>13, <2>1, <2>3, <3>1, StageTakes
    <3>2. CASE m.batch.clear = FALSE
      <4>1. Sure(stage)
        BY <1>10, <2>3, <3>2 DEF Sure, su
      <4>2. StageNow(P, SizesOf(stage), market.acc.orders)
        BY <1>0, <2>3, <4>1, Zenon DEF World, P
      <4> QED BY <1>3, <1>6, <1>13, <2>1, <2>3, <4>2, StageTakes
    <3> QED BY <1>4, <3>1, <3>2
  <2>4. Pending(market, stage') = P \ {m}
    BY <1>12 DEF P
  <2> QED BY <1>0, <1>5, <1>9, <1>10, <1>11, <2>2, <2>3, <2>4, Zenon DEF World
<1>15. m.n <= market.n
  BY <1>2, <1>3, <1>4
<1> QED BY <1>0, <1>3, <1>6, <1>9, <1>10, <1>11, <1>12, <1>13, <1>14, <1>15 DEF su

\* The queue with the frame of the stage's oldest batch behind it.
LEMMA QueuedGrows ==
  ASSUME NEW mk, NEW st, NEW s2, NEW q, Queued(q, mk, st), NEW m, Oldest(Pending(mk, st), m),
         NEW x, RenderedAs(x, m, st.sure, SizesOf(st)),
         x.batch.clear = TRUE => x.told = <<>>,
         Pending(mk, st) \in SUBSET Message, m.n <= mk.n, mk.n \in Nat, mk.n <= MaxSinkBatches,
         SizesOf(st) \in Sizes, st.sure \in Nat, ~st.lagged,
         Pending(mk, s2) = Pending(mk, st) \ {m}, SizesOf(s2) = Put(SizesOf(st), m.batch),
         ~s2.lagged,
         s2.sure = (IF m.batch.clear THEN m.n ELSE st.sure),
         Baselined(mk) => PendNow(Pending(mk, st), mk.acc.orders)
  PROVE  Queued(Append(q, x), mk, s2)
<1> DEFINE P == Pending(mk, st)
           r == Append(q, x)
<1>0. /\ q \in Seq(Entry) /\ QueueFit(q) /\ Labelled(q, mk.n) /\ x \in Frame /\ x \in Entry /\
           Rendered(x)
      /\ x.n = m.n /\ x.batch = m.batch /\ m \in Message /\ m \in P /\ m.n \in Nat /\
           m.batch.clear \in BOOLEAN
  <2>1. q \in Seq(Entry) /\ QueueFit(q) /\ Labelled(q, mk.n)
    BY DEF Queued
  <2>2. x \in Frame /\ x \in Entry /\ Rendered(x) /\ x.n = m.n /\ x.batch = m.batch
    BY RenderedIs DEF RenderedAs, Entry
  <2>3. m \in Message /\ m \in P
    BY DEF Oldest
  <2>4. m.n \in Nat /\ m.batch.clear \in BOOLEAN
    BY <2>3, BatchIs DEF Message
  <2> QED BY <2>1, <2>2, <2>3, <2>4
<1>1. r \in Seq(Entry) /\ Labelled(r, mk.n)
  BY <1>0, LabelledGrows
<1>2. Sure(st) => QueueStage(q, P, st.sure, SizesOf(st))
  BY Zenon DEF Queued
<1>3. st.sure <= m.n => Sure(st)
  <2>1. MaxSinkBatches \in Nat
    BY SinkConstants
  <2>2. st.sure <= m.n => st.sure # MaxSinkBatches + 1
    BY <1>0, <2>1
  <2> QED BY <2>2, Zenon DEF Sure
<1> HIDE DEF P
<1>4. QueueFit(r)
  <2>1. P \in SUBSET Message /\ Oldest(P, m)
    BY DEF P
  <2> QED BY <1>0, <1>2, <1>3, <2>1, FitGrows
<1>5. Sure(s2) => QueueStage(r, P \ {m}, s2.sure, Put(SizesOf(st), m.batch))
  <2> SUFFICES ASSUME Sure(s2) PROVE QueueStage(r, P \ {m}, s2.sure, Put(SizesOf(st), m.batch))
    OBVIOUS
  <2>1. m.batch.clear = TRUE \/ (s2.sure = st.sure /\ QueueStage(q, P, st.sure, SizesOf(st)))
    <3>1. CASE m.batch.clear = FALSE
      <4>1. s2.sure = st.sure
        BY <3>1
      <4>2. Sure(st)
        BY <4>1, Zenon DEF Sure
      <4> QED BY <1>2, <4>1, <4>2
    <3> QED BY <1>0, <3>1
  <2> QED BY <1>0, <2>1, StageGrows
<1>6. Baselined(mk) => QueueNow(r, P \ {m}, mk.acc.orders)
  <2> SUFFICES ASSUME Baselined(mk) PROVE QueueNow(r, P \ {m}, mk.acc.orders)
    OBVIOUS
  <2>1. QueueNow(q, P, mk.acc.orders)
    BY Zenon DEF Queued, P
  <2>2. PendNow(P, mk.acc.orders)
    BY DEF P
  <2>3. \A k \in P : k.n > m.n => k # m
    BY <1>0
  <2> QED BY <1>0, <2>1, <2>2, <2>3, NowGrows
<1>7. Pending(mk, s2) = P \ {m}
  BY DEF P
<1> QED BY <1>1, <1>4, <1>5, <1>6, <1>7, Zenon DEF Queued

\* The stage takes its oldest batch and renders it for those who claim the coin.
LEMMA PrepareKeeps == ASSUME SinkInv, prepare_one PROVE SinkInv'
<1>a. PICK m : m = Head(stage.queue)
  OBVIOUS
<1> DEFINE P == Pending(market, stage)
           sz == SizesOf(stage)
<1>0. /\ World(market, stage) /\ Reader(viewer, market, stage) /\ market' = market
      /\ market \in MarketType /\ stage \in StageType /\ ~stage.lagged
  BY DEF SinkInv, World, prepare_one
<1>1. /\ World(market, stage') /\ stage' \in StageType /\ ~stage'.lagged
      /\ Pending(market, stage') = P \ {m}
      /\ SizesOf(stage') = Put(sz, m.batch)
      /\ m \in Message /\ Oldest(P, m) /\ m.n <= market.n
      /\ stage'.sure = (IF m.batch.clear THEN m.n ELSE stage.sure)
      /\ market.n <= MaxSinkBatches /\ sz \in Sizes /\ P \in SUBSET Message
  BY <1>a, Prepared
<1>2. market.n \in Nat /\ stage.sure \in Nat
  BY <1>0 DEF MarketType, StageType
<1>3. Baselined(market) => PendNow(P, market.acc.orders)
  BY <1>0, Zenon DEF World
<1>4. PICK x : x = (IF Claimed THEN render(Seeded, m) ELSE Bare)
  OBVIOUS
<1>5. ToViewer(x)
  BY <1>a, <1>4 DEF prepare_one
<1>6. Claimed => Output(x, m, stage.sure, sz)
  BY <1>0, <1>1, <1>4, RenderIs
<1>7. ~Claimed => x = Bare
  BY <1>4
<1>8. x \in Entry
  BY <1>6, <1>7 DEF Output, RenderedAs, Entry
<1>9. CASE viewer.at = "off"
  <2>1. viewer' = viewer
    BY <1>5, <1>9 DEF ToViewer
  <2>2. viewer \in ViewerType /\ ~viewer.misfit /\ viewer.queue = <<>>
    BY <1>0, <1>9 DEF Reader
  <2>3. Reader(viewer, market, stage')
    BY <1>9, <2>2, QueuedEmpty, ReaderAway
  <2> QED BY <1>0, <1>1, <2>1, <2>3 DEF SinkInv
<1>10. CASE viewer.at # "off"
  <2>1. /\ viewer' \in ViewerType /\ ~viewer'.misfit
        /\ viewer'.at = viewer.at /\ viewer'.book = viewer.book /\ viewer'.base = viewer.base
        /\ ~viewer'.holed => ~viewer.holed /\ ~Unheard(x)
        /\ \E q0 : Trailing(viewer', x, q0)
    BY <1>0, <1>5, <1>8, <1>10, Pushed
  <2>2. PICK q0 : Trailing(viewer', x, q0)
    BY <2>1
  <2>3. /\ Queued(q0, market, stage) /\ viewer'.queue = Append(q0, x) /\ q0 \in Seq(Entry)
        /\ ~viewer'.lagged => q0 = viewer.queue /\ ~viewer.lagged
        /\ ~Holed(viewer.queue) => ~Holed(q0)
        /\ Range(q0) \subseteq Range(viewer.queue)
    BY <2>2 DEF Trailing, Queued
  <2> SUFFICES Queued(viewer'.queue, market, stage') /\ Held(viewer', market, stage')
    <3>1. ASSUME Queued(viewer'.queue, market, stage'), Held(viewer', market, stage')
          PROVE  Reader(viewer', market, stage')
      BY <1>10, <2>1, <3>1 DEF Reader
    <3> QED BY <1>0, <1>1, <3>1 DEF SinkInv
  <2> HIDE DEF P, sz
  <2>4. CASE x = Bare
    <3>1. Queued(viewer'.queue, market, stage')
      BY <2>3, <2>4, QueuedDull
    <3>2. Held(viewer', market, stage')
      <4> SUFFICES ASSUME viewer'.at = "on", ~viewer'.holed
                   PROVE  /\ ~Holed(viewer'.queue)
                          /\ ~viewer'.lagged /\ viewer'.base >= 0 =>
                               BookFit(viewer'.book, viewer'.base, viewer'.queue)
                          /\ ~viewer'.lagged =>
                               BookStage(viewer'.book, viewer'.base, viewer'.queue, P \ {m},
                                 stage'.sure, Put(sz, m.batch))
                          /\ ~viewer'.lagged /\ Baselined(market) =>
                               BookNow(viewer'.book, viewer'.queue, P \ {m}, market.acc.orders)
        BY <1>1, Zenon DEF Held, P, sz
      <4>1. viewer.at = "on" /\ ~viewer.holed /\ Held(viewer, market, stage) /\ ~Unheard(x) /\
              Claimed
        BY <1>0, <2>1 DEF Reader, Claimed
      <4>2. viewer.book = NoOrders /\ \A k \in DOMAIN q0 : ~Rendered(q0[k])
        <5>1. viewer.book = NoOrders /\ Range(viewer.queue) \subseteq {Bare, Resync}
          BY <2>4, <4>1 DEF Unheard
        <5>2. \A k \in DOMAIN q0 : q0[k] \in {Bare, Resync}
          BY <2>3, <5>1 DEF Range
        <5> QED BY <5>1, <5>2 DEF Rendered
      <4>3. ~Holed(viewer'.queue)
        <5>1. ~Holed(q0)
          BY <2>3, <4>1 DEF Held
        <5> QED BY <1>8, <2>3, <4>2, <5>1, HoledGrows
      <4>4. m.batch.clear = TRUE /\ m.batch.orders = NoOrders /\ m.batch \in Batch /\ m \in P
        <5>1. Output(x, m, stage.sure, SizesOf(stage))
          BY <1>6, <4>1 DEF sz
        <5>2. Bare \notin Frame
          BY SinkConstants
        <5>3. m.batch \in Batch /\ m \in P
          BY <1>1 DEF Message, Oldest, P
        <5> QED BY <2>4, <5>1, <5>2, <5>3 DEF Output, RenderedAs
      <4>5. ASSUME ~viewer'.lagged, viewer'.base >= 0
            PROVE  BookFit(viewer'.book, viewer'.base, viewer'.queue)
        <5>1. BookFit(viewer.book, viewer.base, viewer.queue) /\ q0 = viewer.queue
          BY <2>1, <2>3, <4>1, <4>5 DEF Held
        <5> QED BY <2>1, <2>3, <2>4, <5>1, BookFitDull
      <4>6. \A k \in 1..Len(q0) : ~Rendered(q0[k])
        BY <2>3, <4>2
      <4>7. /\ \A s, base, sizes :
                 BookStage(NoOrders, base, viewer'.queue, P \ {m}, s, Put(sizes, m.batch))
            /\ \A orders : (\A k \in P : k.n > m.n => k # m) /\ PendNow(P, orders)
                             => BookNow(NoOrders, viewer'.queue, P \ {m}, orders)
        BY <2>3, <2>4, <4>4, <4>6, BareDull
      <4>8. \A k \in P : k.n > m.n => k # m
        <5>1. m.n \in Nat
          BY <1>1 DEF Message
        <5> QED BY <5>1
      <4>9. Baselined(market) => BookNow(NoOrders, viewer'.queue, P \ {m}, market.acc.orders)
        BY <1>3, <4>7, <4>8 DEF P
      <4> QED BY <2>1, <4>2, <4>3, <4>5, <4>7, <4>9
    <3> QED BY <3>1, <3>2
  <2>5. CASE x # Bare
    <3>0. Claimed /\ RenderedAs(x, m, stage.sure, sz) /\ (x.batch.clear = TRUE =>
            x.told = <<>>)
      BY <1>6, <1>7, <2>5 DEF Output
    <3>1. Queued(viewer'.queue, market, stage')
      BY <1>0, <1>1, <1>2, <1>3, <2>3, <3>0, QueuedGrows DEF P, sz
    <3>2. Held(viewer', market, stage')
      <4> SUFFICES ASSUME viewer'.at = "on", ~viewer'.holed
                   PROVE  /\ ~Holed(viewer'.queue)
                          /\ ~viewer'.lagged /\ viewer'.base >= 0 =>
                               BookFit(viewer'.book, viewer'.base, viewer'.queue)
                          /\ ~viewer'.lagged /\ viewer'.base >= 0 /\ Sure(stage') =>
                               BookStage(viewer'.book, viewer'.base, viewer'.queue, P \ {m},
                                 stage'.sure, Put(sz, m.batch))
                          /\ ~viewer'.lagged /\ Baselined(market) =>
                               BookNow(viewer'.book, viewer'.queue, P \ {m}, market.acc.orders)
        BY <1>1, Zenon DEF Held, P, sz
      <4>1. viewer.at = "on" /\ ~viewer.holed /\ Held(viewer, market, stage)
        BY <1>0, <2>1 DEF Reader
      <4>2. ~Holed(viewer'.queue)
        <5>1. ~Holed(q0)
          BY <2>3, <4>1 DEF Held
        <5> QED BY <1>8, <2>3, <2>5, <5>1, HoledGrows
      <4>3. x \in Frame /\ x.batch = m.batch /\ x.n = m.n /\ m.n \in Nat /\
              m.batch.clear \in BOOLEAN /\ viewer.base \in Int
        <5>1. x \in Frame /\ x.batch = m.batch /\ x.n = m.n
          BY <3>0 DEF RenderedAs
        <5>2. m.n \in Nat /\ m.batch.clear \in BOOLEAN
          BY <1>1, BatchIs DEF Message
        <5>3. viewer.base \in Int
          BY <1>0 DEF Reader, ViewerType
        <5> QED BY <5>1, <5>2, <5>3
      <4>4. ~viewer'.lagged /\ viewer'.base >= 0 =>
              /\ BookFit(viewer.book, viewer.base, viewer.queue)
              /\ Sure(stage) => BookStage(viewer.book, viewer.base, viewer.queue, P, stage.sure, sz)
        BY <2>1, <2>3, <4>1 DEF Held, P, sz
      <4>5. stage.sure <= m.n => Sure(stage)
        <5>1. MaxSinkBatches \in Nat
          BY SinkConstants
        <5>2. stage.sure <= m.n => stage.sure # MaxSinkBatches + 1
          BY <1>1, <1>2, <4>3, <5>1
        <5> QED BY <1>0, <5>2, Zenon DEF Sure
      <4>6. P \in SUBSET Message /\ Oldest(P, m) /\ sz \in Sizes
        BY <1>1 DEF P, sz
      <4>7. ASSUME ~viewer'.lagged, viewer'.base >= 0
            PROVE  BookFit(viewer'.book, viewer'.base, viewer'.queue)
        <5>1. q0 = viewer.queue /\ BookFit(viewer.book, viewer.base, q0)
              /\ (stage.sure <= m.n => BookStage(viewer.book, viewer.base, q0, P, stage.sure, sz))
          BY <2>3, <4>4, <4>5, <4>7
        <5> QED BY <1>2, <2>1, <2>3, <3>0, <4>3, <4>6, <5>1, BookFitGrows
      <4>8. ASSUME ~viewer'.lagged, viewer'.base >= 0, Sure(stage')
            PROVE  BookStage(viewer'.book, viewer'.base, viewer'.queue, P \ {m}, stage'.sure,
                     Put(sz, m.batch))
        <5>1. q0 = viewer.queue
          BY <2>3, <4>8
        <5>2. m.batch.clear = TRUE \/ (stage'.sure = stage.sure /\
                BookStage(viewer.book, viewer.base, q0, P, stage.sure, sz))
          <6>1. CASE m.batch.clear = FALSE
            <7>1. stage'.sure = stage.sure
              BY <1>1, <6>1
            <7>2. Sure(stage)
              BY <1>0, <4>8, <7>1, Zenon DEF Sure
            <7> QED BY <4>4, <4>8, <5>1, <7>1, <7>2
          <6> QED BY <4>3, <6>1
        <5> QED BY <2>1, <2>3, <4>3, <4>6, <5>2, BookStageGrows
      <4>9. ASSUME ~viewer'.lagged, Baselined(market)
            PROVE  BookNow(viewer'.book, viewer'.queue, P \ {m}, market.acc.orders)
        <5>1. q0 = viewer.queue /\ BookNow(viewer.book, q0, P, market.acc.orders)
          BY <1>0, <2>3, <4>1, <4>9 DEF Held, P
        <5> QED BY <2>1, <2>3, <4>3, <5>1, BookNowGrows
      <4> QED BY <4>2, <4>7, <4>8, <4>9
    <3> QED BY <3>1, <3>2
  <2> QED BY <2>4, <2>5
<1> QED BY <1>9, <1>10

-----------------------------------------------------------------------------
\* Nothing is published, queued or held at first.
LEMMA SinkStarts == SinkInit => SinkInv
<1> SUFFICES ASSUME SinkInit PROVE SinkInv
  OBVIOUS
<1>1. /\ market.n = 0 /\ market.acc = Absent /\ market.sending = Absent /\ market \in MarketType
      /\ stage.queue = <<>> /\ viewer = NewViewer
  BY DEF SinkInit, MarketType
<1>2. stage \in StageType
  BY DEF SinkInit, StageType
<1>3. InOrder(stage.queue, SentTo(market)) /\ ~Baselined(market) /\ market.n <= MaxSinkBatches
  BY <1>1, SinkConstants DEF InOrder, Baselined
<1>4. World(market, stage)
  BY <1>1, <1>2, <1>3, Zenon DEF World
<1>5. Reader(viewer, market, stage)
  BY <1>1, NewViewerIs, QueuedEmpty, ReaderAway
<1> QED BY <1>4, <1>5 DEF SinkInv

\* Every step keeps it.
LEMMA SinkKeeps == SinkInv /\ [SinkNext]_sinkVars => SinkInv'
<1> SUFFICES ASSUME SinkInv, [SinkNext]_sinkVars PROVE SinkInv'
  OBVIOUS
<1>1. ASSUME NEW f \in [SinkOrder -> 0..MaxSize], Publish([clear |-> TRUE, orders |-> f])
      PROVE  SinkInv'
  <2>1. [clear |-> TRUE, orders |-> f] \in Batch
    <3>1. MaxSize \in Nat
      BY SinkConstants
    <3>2. f \in [SinkOrder -> Nat]
      BY <3>1
    <3> QED BY <3>2 DEF Batch
  <2> QED BY <1>1, <2>1, PublishKeeps
<1>2. ASSUME NEW k \in 1..MaxChanges, NEW c \in [1..k -> [order : SinkOrder, size : 0..MaxSize]],
             Publish([clear |-> FALSE, changes |-> c])
      PROVE  SinkInv'
  <2>1. [clear |-> FALSE, changes |-> c] \in Batch
    <3>1. MaxSize \in Nat /\ MaxChanges \in Nat
      BY SinkConstants
    <3>2. [order : SinkOrder, size : 0..MaxSize] \subseteq [order : SinkOrder, size : Nat]
      BY <3>1
    <3>3. c \in [1..k -> [order : SinkOrder, size : Nat]] /\ k \in Nat
      BY <3>1, <3>2
    <3>4. c \in Seq([order : SinkOrder, size : Nat])
      BY <3>3, SeqIs, Zenon
    <3> QED BY <3>4 DEF Batch
  <2> QED BY <1>2, <2>1, PublishKeeps
<1>3. CASE Close
  BY <1>3, CloseKeeps DEF Close
<1>4. CASE UNCHANGED sinkVars
  BY <1>4 DEF SinkInv, sinkVars
<1> QED
  BY <1>1, <1>2, <1>3, <1>4, BroadcastKeeps, ForgetMarketKeeps, PrepareKeeps, StageLaggedKeeps,
     EvictPublishedKeeps, OthersClaimKeeps, ConnectKeeps, SubscribeKeeps, BootstrapKeeps,
     UnsubscribeKeeps, RecvKeeps, ClientLaggedKeeps, IntervalKeeps DEF SinkNext

\* With nothing on its way, the book is the map's.
LEMMA SinkFollows == SinkInv => L4Follows
<1> SUFFICES ASSUME SinkInv PROVE L4Follows
  OBVIOUS
<1>1. ~viewer.misfit /\ Held(viewer, market, stage) /\ viewer \in ViewerType /\
        market \in MarketType
  BY DEF SinkInv, Reader, World
<1>2. ASSUME viewer.at = "on", Drained, publishable(market.acc), ~viewer.holed
      PROVE  viewer.book = market.acc.orders
  <2>1. /\ Baselined(market) /\ ~stage.lagged /\ ~viewer.lagged
        /\ market.sending = Absent /\ stage.queue = <<>> /\ viewer.queue = <<>>
    BY <1>2, Zenon DEF Drained, publishable, Baselined
  <2>2. BookNow(viewer.book, viewer.queue, Pending(market, stage), market.acc.orders)
    BY <1>1, <1>2, <2>1, Zenon DEF Held
  <2>3. Pending(market, stage) = {}
    BY <2>1 DEF Pending, Range
  <2>4. \A o \in SinkOrder : viewer.book[o] = market.acc.orders[o]
    BY <2>1, <2>2, <2>3 DEF BookNow, Calm, Settled, NoneIn
  <2>5. viewer.book \in Sizes
    BY <1>1 DEF ViewerType
  <2>6. market.acc.orders \in Sizes
    BY <1>1, <2>1 DEF MarketType, Acc, Baselined
  <2> QED BY <2>4, <2>5, <2>6 DEF Sizes
<1> QED BY <1>1, <1>2 DEF L4Follows

\* OrderSink: a subscriber that has read what was queued for it holds the orders of the market,
\* and is told "new" and "update" as it held the order before the batch, for every buffer size,
\* set of orders and number of changes, batches, connections and losses.
THEOREM SubscriberFollows == SinkSpec => []L4Follows
<1>1. SinkInit => SinkInv
  BY SinkStarts
<1>2. SinkInv /\ [SinkNext]_sinkVars => SinkInv'
  BY SinkKeeps
<1>3. SinkInv => L4Follows
  BY SinkFollows
<1> QED BY <1>1, <1>2, <1>3, PTL DEF SinkSpec
=============================================================================
