-------------------------- MODULE QuoteGateProofs --------------------------
(***************************************************************************)
(* Proofs about QuoteGate, for every ring size, rate, delay, timeout, jump *)
(* cap, fleet of encoders and bound that satisfy the module's assumptions. *)
(***************************************************************************)
EXTENDS QuoteGate, TLAPS

Ring == 2 * HALF

\* The ring of update IDs is not empty.
LEMMA RingType == HALF \in Nat \ {0} /\ Ring \in Nat \ {0} /\ Ring = HALF + HALF
BY QuoteConstants DEF Ring

\* Division with remainder.
LEMMA Remainder ==
  ASSUME NEW N \in Nat \ {0}, NEW a \in Int
  PROVE  /\ a % N \in 0..(N - 1)
         /\ a \div N \in Int /\ a = N * (a \div N) + (a % N)
OBVIOUS

\* A remainder is the only one.
LEMMA RemainderUnique ==
  ASSUME NEW N \in Nat \ {0}, NEW q \in Int, NEW r \in 0..(N - 1), NEW x \in Int, x = N * q + r
  PROVE  x % N = r
OBVIOUS

\* Sums inside a remainder: wrapping_sub of two wrapped counters is the wrapped
\* difference of the counters.
LEMMA WrappedDifference ==
  ASSUME NEW a \in Int, NEW b \in Int
  PROVE  advance(a % Ring, b % Ring) = (a - b) % Ring
<1> DEFINE qa == a \div Ring
           qb == b \div Ring
           d  == (a % Ring) - (b % Ring)
           q  == (a - b) \div Ring
<1>1. /\ a % Ring \in 0..(Ring - 1) /\ b % Ring \in 0..(Ring - 1)
      /\ qa \in Int /\ qb \in Int
      /\ a = Ring * qa + (a % Ring) /\ b = Ring * qb + (b % Ring)
  BY RingType, Remainder
<1>2. a - b \in Int /\ d \in Int
  BY <1>1, RingType
<1>3. /\ q \in Int /\ (a - b) % Ring \in 0..(Ring - 1)
      /\ a - b = Ring * q + ((a - b) % Ring)
  BY <1>2, RingType, Remainder
<1>4. d = Ring * (q - qa + qb) + ((a - b) % Ring)
  <2> HIDE DEF q, qa, qb
  <2>1. Ring * (q - qa + qb) = Ring * q - Ring * qa + Ring * qb
    BY <1>1, <1>3, RingType
  <2> QED BY <1>1, <1>3, <2>1, RingType
<1>5. q - qa + qb \in Int
  BY <1>1, <1>3
<1>6. d % Ring = (a - b) % Ring
  <2> DEFINE k == q - qa + qb
             r == (a - b) % Ring
  <2>1. d \in Int /\ k \in Int /\ r \in 0..(Ring - 1) /\ d = Ring * k + r
    BY <1>2, <1>3, <1>4, <1>5
  <2> HIDE DEF d, k, r
  <2>2. d % Ring = r
    BY ONLY <2>1, RingType, RemainderUnique
  <2> QED BY <2>2 DEF r
<1>7. advance(a % Ring, b % Ring) = d % Ring
  BY DEF advance, Ring
<1> QED BY <1>6, <1>7

\* Within half the ring the wrapped difference tells how far, and which way.
LEMMA AdvanceIsDistance ==
  ASSUME NEW a \in Int, NEW b \in Int
  PROVE  /\ a - b \in 0..(HALF - 1) => advance(a % Ring, b % Ring) = a - b
         /\ b - a \in 1..(HALF - 1) => advance(a % Ring, b % Ring) = Ring - (b - a)
<1>1. ASSUME a - b \in 0..(HALF - 1) PROVE (a - b) % Ring = a - b
  <2>1. a - b \in 0..(Ring - 1) /\ a - b = Ring * 0 + (a - b)
    BY <1>1, RingType
  <2> QED BY <2>1, RingType, RemainderUnique
<1>2. ASSUME b - a \in 1..(HALF - 1) PROVE (a - b) % Ring = Ring - (b - a)
  <2>1. /\ Ring - (b - a) \in 0..(Ring - 1) /\ a - b \in Int
        /\ a - b = Ring * (-1) + (Ring - (b - a))
    BY <1>2, RingType
  <2> QED BY <2>1, RingType, RemainderUnique
<1> QED BY <1>1, <1>2, WrappedDifference

\* update_id_newer orders the IDs of updates less than half the ring apart, and
\* different ones have different IDs.
LEMMA SerialOrder ==
  ASSUME NEW a \in Int, NEW b \in Int, a - b < HALF, b - a < HALF
  PROVE  /\ update_id_newer(a % Ring, b % Ring) <=> a > b
         /\ a % Ring = b % Ring => a = b
         /\ a > b => advance(a % Ring, b % Ring) = a - b
         /\ near(a % Ring, b % Ring) /\ max_jump < HALF => b - a <= max_jump
<1>0. max_jump \in Nat BY QuoteConstants
<1>1. advance(a % Ring, a % Ring) = 0 /\ advance(b % Ring, b % Ring) = 0
  <2>1. a - a = 0 /\ b - b = 0 /\ 0 \in 0..(HALF - 1) BY RingType
  <2> QED BY <2>1, AdvanceIsDistance
<1>2. CASE a > b
  <2>1. a - b \in 0..(HALF - 1) /\ a - b \in 1..(HALF - 1) BY <1>2, RingType
  <2>2. advance(a % Ring, b % Ring) = a - b BY <2>1, AdvanceIsDistance
  <2>3. update_id_newer(a % Ring, b % Ring) BY <2>1, <2>2 DEF update_id_newer
  <2>4. a % Ring # b % Ring BY <1>1, <2>1, <2>2
  <2> QED BY <1>0, <1>2, <2>2, <2>3, <2>4
<1>3. CASE b > a
  <2>1. b - a \in 0..(HALF - 1) /\ b - a \in 1..(HALF - 1) BY <1>3, RingType
  <2>2. advance(a % Ring, b % Ring) = Ring - (b - a) BY <2>1, AdvanceIsDistance
  <2>3. advance(b % Ring, a % Ring) = b - a BY <2>1, AdvanceIsDistance
  <2>4. Ring - (b - a) > HALF BY <2>1, RingType
  <2> QED BY <1>0, <1>1, <1>3, <2>1, <2>2, <2>3, <2>4, RingType DEF update_id_newer, near
<1>4. CASE a = b
  BY <1>0, <1>1, <1>4, RingType DEF update_id_newer
<1> QED BY <1>2, <1>3, <1>4

-----------------------------------------------------------------------------
(* The venue's pace.                                                       *)

\* A product with the rate is monotone.
LEMMA RateMonotone ==
  ASSUME NEW R \in Nat, NEW a \in Int, NEW b \in Int, a <= b
  PROVE  R * a <= R * b
OBVIOUS

\* The date, source_ts and update ID of a published update.
LEMMA UpdateType ==
  ASSUME TypeOK, NEW n \in Updates
  PROVE  /\ n \in Nat /\ n - First \in DOMAIN published
         /\ At(n) \in Nat /\ source_ts_ns(n) \in Nat
         /\ source_ts_ns(n) # 0 <=> Stamped
         /\ \A p \in Path : venue_update_id(p, n) \in 0..(Ring - 1)
<1>1. published \in Seq(Nat) /\ First \in Nat /\ Ahead \in Nat /\ Stamped \in BOOLEAN
  BY QuoteConstants DEF TypeOK
<1>2. n \in Nat /\ n - First \in DOMAIN published
  BY <1>1 DEF Updates
<1>3. At(n) \in Nat
  BY <1>1, <1>2 DEF At
<1>4. source_ts_ns(n) \in Nat /\ (source_ts_ns(n) # 0 <=> Stamped)
  BY <1>1, <1>3 DEF source_ts_ns
<1>5. ASSUME NEW p \in Path PROVE venue_update_id(p, n) \in 0..(Ring - 1)
  <2>1. encoder[p] \in Encoding
    BY DEF TypeOK
  <2>2. n % Ring \in 0..(Ring - 1)
    BY <1>2, RingType, Remainder
  <2>3. Padding \in 0..(Ring - 1) /\ 0 \in 0..(Ring - 1)
    BY QuoteConstants, RingType DEF Ring
  <2> QED BY <2>1, <2>2, <2>3 DEF venue_update_id, Encoding, Ring
<1> QED BY <1>2, <1>3, <1>4, <1>5

\* HalfRing at work: two updates the key can compare are less than half the ring apart.
LEMMA WithinHalf ==
  ASSUME TypeOK, Paced, NEW m \in Updates, NEW n \in Updates,
         At(n) - At(m) < QUOTE_ID_REGIME_TIMEOUT_NS + Delay
  PROVE  n - m < HALF
<1> DEFINE span == At(n) - At(m) + 1
           most == QUOTE_ID_REGIME_TIMEOUT_NS + Delay
<1>1. /\ m \in Nat /\ n \in Nat /\ At(m) \in Nat /\ At(n) \in Nat
      /\ m - First \in DOMAIN published /\ n - First \in DOMAIN published
  BY UpdateType
<1>2. /\ QUOTE_ID_REGIME_TIMEOUT_NS \in Nat /\ Delay \in Nat /\ Rate \in Nat /\ First \in Nat
      /\ HALF \in Nat /\ HALF > 0
  BY QuoteConstants
<1>3. CASE n <= m
  BY <1>1, <1>2, <1>3
<1>4. CASE m < n
  <2>1. (n - First) - (m - First) < Rate * span
    <3>1. m - First <= n - First
      BY <1>1, <1>2, <1>4
    <3> QED BY <1>1, <3>1 DEF Paced, At
  <2>2. span \in Int /\ most \in Int /\ span <= most
    BY <1>1, <1>2
  <2>3. Rate * span <= Rate * most
    BY <1>2, <2>2, RateMonotone
  <2>4. Rate * most <= HALF
    BY HalfRing
  <2>5. Rate * span \in Int /\ Rate * most \in Int
    BY <1>2, <2>2
  <2>6. (n - First) - (m - First) = n - m
    BY <1>1, <1>2
  <2> HIDE DEF span, most
  <2> QED BY <1>1, <1>2, <2>1, <2>3, <2>4, <2>5, <2>6
<1> QED BY <1>1, <1>3, <1>4

\* Publishing keeps the pace: the update Rate before the new one is of an earlier tick.
LEMMA PublishKeepsPace ==
  ASSUME TypeOK, Paced, Publish
  PROVE  Paced'
<1> DEFINE k == Len(published)
<1>1. /\ published \in Seq(Nat) /\ now \in Nat /\ Rate \in Nat \ {0}
      /\ published' = Append(published, now) /\ now' = now
      /\ k >= Rate => published[k + 1 - Rate] < now
  BY QuoteConstants DEF TypeOK, Publish
<1>2. /\ k \in Nat /\ DOMAIN published = 1..k /\ DOMAIN published' = 1..(k + 1)
      /\ published'[k + 1] = now /\ \A i \in 1..k : published'[i] = published[i]
      /\ \A i \in 1..k : published[i] \in Nat /\ published[i] <= now
  BY <1>1 DEF Paced
<1>3. ASSUME NEW i \in 1..(k + 1)
      PROVE  published'[i] <= now /\ (k + 1) - i < Rate * (now - published'[i] + 1)
  <2>1. CASE i = k + 1
    <3>1. Rate * (now - now + 1) = Rate /\ k + 1 - (k + 1) = 0
      BY <1>1, <1>2
    <3> QED BY <1>1, <1>2, <2>1, <3>1
  <2>2. CASE i \in 1..k /\ (k + 1) - i < Rate
    <3>1. /\ published'[i] \in Nat /\ published'[i] <= now
          /\ 1 <= now - published'[i] + 1 /\ now - published'[i] + 1 \in Int
      BY <1>1, <1>2, <2>2
    <3>2. Rate * 1 <= Rate * (now - published'[i] + 1)
      BY <1>1, <3>1, RateMonotone
    <3>3. Rate * (now - published'[i] + 1) \in Int
      BY <1>1, <3>1
    <3> QED BY <1>1, <1>2, <2>2, <3>1, <3>2, <3>3
  <2>3. CASE i \in 1..k /\ (k + 1) - i >= Rate
    <3> DEFINE j == k + 1 - Rate
               old == published[j] - published[i] + 1
               new == now - published[i] + 1
    <3>1. j \in 1..k /\ i <= j /\ k >= Rate
      BY <1>1, <1>2, <2>3
    <3>2. published[j] \in Nat /\ published[i] \in Nat /\ published[j] < now /\ now \in Nat
      BY <1>1, <1>2, <2>3, <3>1
    <3>3. j - i < Rate * old
      BY <1>2, <2>3, <3>1 DEF Paced
    <3>4. old \in Int /\ new \in Int /\ old <= new - 1
      <4> HIDE DEF j
      <4> QED BY <3>2
    <3>5. Rate * old <= Rate * (new - 1)
      <4> HIDE DEF old, new
      <4> QED BY <1>1, <3>4, RateMonotone
    <3>6. /\ Rate * (new - 1) = Rate * new - Rate
          /\ Rate * old \in Int /\ Rate * new \in Int
      <4> HIDE DEF old, new
      <4> QED BY <1>1, <3>4
    <3>7. (k + 1) - i = (j - i) + Rate
      BY <1>1, <1>2, <2>3
    <3>8. published'[i] = published[i] /\ published[i] <= now
      BY <1>2, <2>3
    <3>9. j - i \in Int /\ (k + 1) - i \in Int
      BY <1>1, <1>2, <2>3
    <3>10. (k + 1) - i < Rate * new
      <4> HIDE DEF old, new, j, k
      <4> QED BY <1>1, <3>3, <3>5, <3>6, <3>7, <3>9
    <3> QED BY <3>8, <3>10
  <2> QED BY <1>1, <1>2, <2>1, <2>2, <2>3
<1>4. ASSUME NEW i \in 1..k, NEW j \in 1..k, i <= j
      PROVE  /\ published'[i] <= published'[j]
             /\ j - i < Rate * (published'[j] - published'[i] + 1)
  BY <1>2, <1>4 DEF Paced
<1>5. ASSUME NEW i \in 1..(k + 1), NEW j \in 1..(k + 1), i <= j
      PROVE  /\ published'[i] <= published'[j]
             /\ j - i < Rate * (published'[j] - published'[i] + 1)
  <2>1. CASE j = k + 1
    BY <1>2, <1>3, <2>1
  <2>2. CASE j # k + 1
    <3>1. i \in 1..k /\ j \in 1..k
      BY <1>2, <1>5, <2>2
    <3> QED BY <1>4, <1>5, <3>1
  <2> QED BY <2>1, <2>2
<1> QED BY <1>1, <1>2, <1>3, <1>5 DEF Paced

-----------------------------------------------------------------------------
(* UpdateIdFloor::judge, case by case.                                     *)

Live(st, t) == st # None /\ ~Expired(st, t)

NewState(id, c, t) ==
  [last |-> id, content |-> c, last_admit_ns |-> t, candidate |-> None]

Jumped(st, id, p) == [st EXCEPT !.candidate = [id |-> id, from |-> p]]

\* UpdateIdFloor::judge as its seven outcomes, each with the state it leaves.
LEMMA JudgeCases ==
  ASSUME NEW st, NEW id, NEW c, NEW p, NEW t
  PROVE  LET j == judge(st, id, c, p, t) IN
         \/ ~Live(st, t) /\ id = 0 /\ j.out = "legacy" /\ j.st = None
         \/ /\ ~Live(st, t) \/ Ordinary(st, id) \/ (id # st.last /\ Corroborates(st, id, p))
            /\ id # 0 /\ j.out = "admit" /\ j.st = NewState(id, c, t)
         \/ Live(st, t) /\ id = 0 /\ j.out = "regime" /\ j.st = st
         \/ /\ Live(st, t) /\ id # 0 /\ id = st.last /\ Conflicts(st, c)
            /\ j.out = "conflict" /\ j.st = st
         \/ /\ Live(st, t) /\ id # 0 /\ id = st.last /\ j.out = "duplicate" /\ j.st = st
         \/ /\ Live(st, t) /\ id # 0 /\ ~Ordinary(st, id) /\ update_id_newer(id, st.last)
            /\ j.out = "jump" /\ j.st = Jumped(st, id, p)
         \/ Live(st, t) /\ id # 0 /\ j.out = "stale" /\ j.st = st
<1>1. CASE ~Live(st, t) /\ id = 0
  BY <1>1 DEF judge, Live
<1>2. CASE ~Live(st, t) /\ id # 0
  BY <1>2 DEF judge, Live, NewState
<1>3. CASE Live(st, t) /\ id = 0
  BY <1>3 DEF judge, Live
<1>4. CASE Live(st, t) /\ id # 0 /\ id = st.last
  BY <1>4 DEF judge, Live
<1>5. CASE Live(st, t) /\ id # 0 /\ id # st.last
  <2>1. CASE Ordinary(st, id) \/ Corroborates(st, id, p)
    BY <1>5, <2>1 DEF judge, Live, NewState
  <2>2. CASE ~(Ordinary(st, id) \/ Corroborates(st, id, p))
    BY <1>5, <2>2 DEF judge, Live, Jumped
  <2> QED BY <2>1, <2>2
<1> QED BY <1>1, <1>2, <1>3, <1>4, <1>5

\* A quote of the counter, judged against the update the key holds.
LEMMA HeldOrder ==
  ASSUME IndInv, Counters, Live(ids, now), NEW p \in Path, NEW n \in Updates,
         now - At(n) <= Delay, venue_update_id(p, n) # 0
  PROVE  LET id == venue_update_id(p, n)
             m  == ids.content.n
         IN  /\ m \in Updates
             /\ id = ids.last => n = m
             /\ update_id_newer(id, ids.last) => n > m /\ advance(id, ids.last) = n - m
             /\ id # ids.last /\ Corroborates(ids, id, p) => n > m
<1> DEFINE id == venue_update_id(p, n)
           m  == ids.content.n
<1>1. /\ TypeOK /\ Paced /\ ids # None /\ ids \in UpdateIdState
      /\ m \in Updates /\ ids.last = m % Ring
      /\ At(m) <= ids.last_admit_ns /\ ids.last_admit_ns <= At(m) + Delay
      /\ ids.last_admit_ns \in Nat /\ now \in Nat
      /\ ids.last_admit_ns <= now
  <2>1. /\ TypeOK /\ Paced /\ ids # None /\ ids \in UpdateIdState
        /\ m \in Updates /\ ids.last = m % Ring
        /\ At(m) <= ids.last_admit_ns /\ ids.last_admit_ns <= At(m) + Delay
    BY DEF IndInv, Held, Live, TypeOK, Ring
  <2>2. ids.last_admit_ns \in Nat /\ now \in Nat
    BY <2>1 DEF TypeOK, UpdateIdState
  <2>3. sent.at # None /\ ids.last_admit_ns <= sent.at /\ sent.at <= now
    BY <2>1 DEF IndInv, Recent
  <2>4. sent.at \in Nat
    BY <2>1, <2>3 DEF TypeOK
  <2> QED BY <2>1, <2>2, <2>3, <2>4
<1>2. /\ n \in Nat /\ m \in Nat /\ At(n) \in Nat /\ At(m) \in Nat
      /\ At(n) <= now /\ At(m) <= now
      /\ Delay \in Nat /\ QUOTE_ID_REGIME_TIMEOUT_NS \in Nat \ {0} /\ max_jump \in Nat
  BY <1>1, UpdateType, QuoteConstants DEF Paced, At
<1>3. now - ids.last_admit_ns < QUOTE_ID_REGIME_TIMEOUT_NS
  BY <1>1, <1>2 DEF Live, Expired
<1>4. id = n % Ring
  <2>1. encoder[p] \in {"counter", "none"}
    BY <1>1 DEF TypeOK, Counters, Encoding
  <2> QED BY <2>1 DEF venue_update_id, Ring
<1>5. n - m < HALF /\ m - n < HALF
  <2>1. At(n) - At(m) < QUOTE_ID_REGIME_TIMEOUT_NS + Delay
    BY <1>1, <1>2, <1>3
  <2>2. At(m) - At(n) < QUOTE_ID_REGIME_TIMEOUT_NS + Delay
    BY <1>1, <1>2, <1>3
  <2> QED BY <1>1, <2>1, <2>2, WithinHalf
<1>6. /\ id = ids.last => n = m
      /\ update_id_newer(id, ids.last) => n > m /\ advance(id, ids.last) = n - m
  <2> HIDE DEF id, m
  <2> QED BY <1>1, <1>2, <1>4, <1>5, SerialOrder
<1>7. ASSUME id # ids.last, Corroborates(ids, id, p) PROVE n > m
  <2>1. ids.candidate # None /\ near(id, ids.candidate.id)
    BY <1>7 DEF Corroborates
  <2>2. PICK c \in Updates : c > m + max_jump /\ ids.candidate.id = c % Ring
    BY <1>1, <2>1 DEF IndInv, Held, Ring
  <2>3. c \in Nat /\ At(c) \in Nat /\ At(c) <= now /\ At(m) <= At(c)
    <3>1. c \in Nat /\ At(c) \in Nat /\ c - First \in DOMAIN published
          /\ m - First \in DOMAIN published /\ First \in Nat
      BY <1>1, UpdateType, QuoteConstants
    <3>2. m - First <= c - First
      BY <1>2, <2>2, <3>1
    <3> QED BY <1>1, <3>1, <3>2 DEF Paced, At
  <2>4. At(c) - At(m) < QUOTE_ID_REGIME_TIMEOUT_NS + Delay
    BY <1>1, <1>2, <1>3, <2>3
  <2>5. At(c) - At(n) < QUOTE_ID_REGIME_TIMEOUT_NS + Delay
    BY <1>1, <1>2, <1>3, <2>3
  <2>6. At(n) - At(c) < QUOTE_ID_REGIME_TIMEOUT_NS + Delay
    BY <1>1, <1>2, <1>3, <2>3
  <2>7. c - m < HALF /\ c - n < HALF /\ n - c < HALF
    BY <1>1, <2>4, <2>5, <2>6, WithinHalf
  <2>8. max_jump < HALF
    BY <1>2, <2>2, <2>3, <2>7, RingType
  <2>9. near(n % Ring, c % Ring)
    BY <1>4, <2>1, <2>2
  <2>10. c - n <= max_jump
    BY <1>2, <2>3, <2>7, <2>8, <2>9, SerialOrder
  <2> QED BY <1>2, <2>2, <2>3, <2>10
<1> QED BY <1>1, <1>6, <1>7

-----------------------------------------------------------------------------
(* The floor.                                                              *)

\* What StalenessFloor::admit returns is a tick within its cap, and a refused quote is
\* not newer than the tick.
LEMMA FloorType ==
  ASSUME TypeOK, NEW ts \in Nat, NEW n \in Nat, NEW p \in Path
  PROVE  LET f == FloorAfter(floor, ts, n, p)
         IN  /\ f \in TickState /\ Len(f.order) \in 1..QUOTE_TICK_CAP
             /\ FloorAdmits(floor, ts, n, p) => f.high_water = ts
             /\ ~FloorAdmits(floor, ts, n, p) => /\ floor # None /\ f = floor
                                                /\ ts <= floor.high_water
<1>1. QUOTE_TICK_CAP \in Nat \ {0} /\ (floor # None => floor \in TickState)
  BY QuoteConstants DEF TypeOK
<1>2. CASE floor # None /\ Leads(floor, ts, n, p)
  <2> DEFINE order == Kept(Append(floor.order, n))
  <2>1. floor.order \in Seq(Nat) /\ Len(floor.order) \in 1..QUOTE_TICK_CAP
    BY <1>1, <1>2 DEF TypeOK, TickState
  <2>2. Append(floor.order, n) \in Seq(Nat) /\ Len(Append(floor.order, n)) = Len(floor.order) + 1
    BY <2>1
  <2>3. order \in Seq(Nat) /\ Len(order) \in 1..QUOTE_TICK_CAP
    <3> DEFINE app == Append(floor.order, n)
    <3>1. CASE Len(app) > QUOTE_TICK_CAP
      <4>1. app # <<>> /\ Tail(app) \in Seq(Nat) /\ Len(Tail(app)) = Len(app) - 1
        BY <1>1, <2>2, <3>1
      <4> QED BY <1>1, <2>1, <2>2, <3>1, <4>1 DEF Kept
    <3>2. CASE ~(Len(app) > QUOTE_TICK_CAP)
      BY <1>1, <2>1, <2>2, <3>2 DEF Kept
    <3> QED BY <3>1, <3>2
  <2>4. FloorAfter(floor, ts, n, p) = [floor EXCEPT !.order = order]
    BY <1>2 DEF FloorAfter
  <2>5. FloorAdmits(floor, ts, n, p) /\ floor.high_water = ts
    BY <1>2 DEF FloorAdmits, Leads
  <2> HIDE DEF order
  <2> QED BY <1>1, <1>2, <2>3, <2>4, <2>5 DEF TickState
<1>3. CASE ~(floor # None /\ Leads(floor, ts, n, p)) /\ FloorAdmits(floor, ts, n, p)
  <2>1. FloorAfter(floor, ts, n, p) = [high_water |-> ts, leader |-> p, order |-> <<n>>]
    BY <1>3 DEF FloorAfter, Opened
  <2>2. <<n>> \in Seq(Nat) /\ Len(<<n>>) = 1
    OBVIOUS
  <2> QED BY <1>1, <1>3, <2>1, <2>2 DEF TickState
<1>4. CASE ~FloorAdmits(floor, ts, n, p)
  <2>1. floor # None /\ FloorAfter(floor, ts, n, p) = floor /\ ~(ts > floor.high_water)
    BY <1>4 DEF FloorAfter, FloorAdmits
  <2>2. floor.high_water \in Nat
    BY <1>1, <2>1 DEF TickState
  <2> QED BY <1>1, <1>4, <2>1, <2>2 DEF TypeOK
<1> QED BY <1>2, <1>3, <1>4

\* A forwarded quote is the newest of the two clocks.
LEMMA ForwardFacts ==
  ASSUME IndInv, NEW n \in Updates, NEW by \in Outcome, Forward(n, by)
  PROVE  /\ verdict' = [n |-> n, out |-> by]
         /\ sent' \in [at : Nat, ts : Nat] /\ sent'.at = now
         /\ sent.ts <= sent'.ts /\ source_ts_ns(n) <= sent'.ts
<1>1. source_ts_ns(n) \in Nat /\ sent.ts \in Nat /\ now \in Nat
  BY UpdateType DEF IndInv, TypeOK
<1> QED BY <1>1 DEF Forward

\* The part of the invariant the floor and the histories carry, after a step that
\* leaves the venue, the encoders and the clock alone.
FloorPart ==
  /\ floor \in TickState \cup {None}
  /\ floor # None => Len(floor.order) \in 1..QUOTE_TICK_CAP
  /\ floor # None => Stamped /\ floor.high_water <= sent.ts
  /\ verdict \in [n : Nat, out : Outcome] \cup {None}
  /\ verdict # None => verdict.n \in Updates
  /\ sent \in [at : Nat \cup {None}, ts : Nat]

Later == sent' = sent \/ (sent'.at = now /\ sent'.at \in Nat)

\* The floor or its bypass (emit_scoped): a quote it refuses is no newer than one that
\* went out.
LEMMA LegacyKeeps ==
  ASSUME IndInv, NEW p \in Path, NEW n \in Updates, Legacy(p, n), UNCHANGED <<published, now>>
  PROVE  FloorPart' /\ NeverDark' /\ Later
<1> DEFINE ts == source_ts_ns(n)
<1>1. /\ TypeOK /\ n \in Nat /\ ts \in Nat /\ (ts # 0 <=> Stamped)
      /\ ts' = ts /\ Updates' = Updates
  BY UpdateType DEF IndInv, source_ts_ns, At, Updates
<1>2. FloorPart /\ sent.ts \in Nat /\ None \notin Nat
  BY <1>1, QuoteConstants DEF IndInv, TypeOK, Recent, FloorPart
<1>3. CASE ts = 0 /\ Forward(n, "floor") /\ UNCHANGED floor
  <2>1. /\ verdict' = [n |-> n, out |-> "floor"] /\ sent' \in [at : Nat, ts : Nat]
        /\ sent'.at = now /\ sent.ts <= sent'.ts
    BY <1>3, ForwardFacts DEF Outcome
  <2>2. FloorPart'
    BY <1>1, <1>2, <1>3, <2>1 DEF FloorPart, TickState, Outcome
  <2>3. NeverDark'
    BY <2>1 DEF NeverDark
  <2> QED BY <2>1, <2>2, <2>3 DEF Later
<1>4. CASE Future(n) /\ Refuse(n, "future") /\ UNCHANGED floor
  <2>1. verdict' = [n |-> n, out |-> "future"] /\ sent' = sent
    BY <1>4 DEF Refuse
  <2> QED BY <1>1, <1>2, <1>4, <2>1 DEF FloorPart, Outcome, NeverDark, Later
<1>5. CASE /\ ts # 0 /\ floor' = FloorAfter(floor, ts, n, p)
           /\ FloorAdmits(floor, ts, n, p) /\ Forward(n, "floor")
  <2>1. /\ verdict' = [n |-> n, out |-> "floor"] /\ sent' \in [at : Nat, ts : Nat]
        /\ sent'.at = now /\ ts <= sent'.ts
    BY <1>5, ForwardFacts DEF Outcome
  <2>2. floor' \in TickState /\ Len(floor'.order) \in 1..QUOTE_TICK_CAP /\ floor'.high_water = ts
    BY <1>1, <1>5, FloorType
  <2>3. FloorPart'
    BY <1>1, <1>5, <2>1, <2>2 DEF FloorPart, Outcome
  <2>4. NeverDark'
    BY <2>1 DEF NeverDark
  <2> QED BY <2>1, <2>3, <2>4 DEF Later
<1>6. CASE /\ ts # 0 /\ floor' = FloorAfter(floor, ts, n, p)
           /\ ~FloorAdmits(floor, ts, n, p) /\ Refuse(n, "late")
  <2>1. verdict' = [n |-> n, out |-> "late"] /\ sent' = sent
    BY <1>6 DEF Refuse
  <2>2. floor # None /\ floor' = floor /\ ts <= floor.high_water
    BY <1>1, <1>6, FloorType
  <2>3. FloorPart'
    BY <1>1, <1>2, <2>1, <2>2 DEF FloorPart, Outcome
  <2>4. Stamped /\ sent.ts >= ts
    <3>1. floor.high_water \in Nat /\ floor.high_water <= sent.ts /\ Stamped
      BY <1>2, <2>2 DEF FloorPart, TickState
    <3> QED BY <1>1, <1>2, <2>2, <3>1
  <2>5. NeverDark'
    BY <1>1, <2>1, <2>4 DEF NeverDark
  <2> QED BY <2>1, <2>3, <2>5 DEF Later
<1> QED BY <1>3, <1>4, <1>5, <1>6 DEF Legacy

-----------------------------------------------------------------------------
(* The steps.                                                              *)

\* The ID half of the invariant.
IdPart ==
  /\ ids \in UpdateIdState \cup {None}
  /\ disabled \in Nat \cup {None} /\ (Disabled => ids = None)
  /\ ids # None => /\ sent.at # None /\ ids.last_admit_ns <= sent.at /\ sent.at <= now
  /\ Held /\ CounterStaysOn

\* The invariant in two halves: what the ID regime and what the floor owns.
LEMMA Parts ==
  IndInv <=> /\ published \in Seq(Nat) /\ encoder \in [Path -> Encoding] /\ now \in Nat
             /\ Paced /\ IdPart /\ FloorPart /\ NeverDark
BY DEF IndInv, TypeOK, Recent, IdPart, FloorPart

\* Nothing the ID half reads moved, except that a later quote may have gone out.
LEMMA IdPartStands ==
  ASSUME IndInv, Later, UNCHANGED <<ids, published, encoder, now>>,
         disabled' = disabled \/ disabled' = None
  PROVE  IdPart'
<1>1. IdPart /\ now \in Nat /\ None \notin Int
  BY Parts, QuoteConstants
<1>2. /\ ids' = ids /\ Counters' = Counters /\ Updates' = Updates
      /\ \A m : At(m)' = At(m)
  BY DEF Counters, Updates, At
<1>3. Held'
  BY <1>1, <1>2 DEF IdPart, Held, At, Updates, Counters
<1>4. CounterStaysOn' /\ disabled' \in Nat \cup {None} /\ (Disabled' => ids' = None)
  BY <1>1, <1>2 DEF IdPart, CounterStaysOn, Disabled
<1>5. ids # None => /\ sent'.at # None /\ ids.last_admit_ns <= sent'.at /\ sent'.at <= now
  <2>1. CASE sent' = sent
    BY <1>1, <2>1 DEF IdPart
  <2>2. CASE sent'.at = now /\ sent'.at \in Nat
    <3>1. ASSUME ids # None PROVE ids.last_admit_ns <= now
      <4>1. /\ ids.last_admit_ns \in Nat /\ sent.at \in Nat
            /\ ids.last_admit_ns <= sent.at /\ sent.at <= now
        BY <1>1, <3>1, Parts DEF IdPart, FloorPart, UpdateIdState
      <4> QED BY <1>1, <4>1
    <3> QED BY <1>1, <2>2, <3>1
  <2> QED BY <2>1, <2>2 DEF Later
<1> QED BY <1>1, <1>2, <1>3, <1>4, <1>5 DEF IdPart

\* A refused quote leaves the floor half alone.
LEMMA RefusedKeeps ==
  ASSUME IndInv, NEW n \in Updates, NEW why \in Outcome, Refuse(n, why),
         UNCHANGED <<floor, published, now>>
  PROVE  FloorPart' /\ Later /\ verdict' = [n |-> n, out |-> why] /\ sent' = sent
<1>1. FloorPart /\ n \in Nat /\ Updates' = Updates
  BY Parts, UpdateType DEF IndInv, Updates
<1>2. verdict' = [n |-> n, out |-> why] /\ sent' = sent
  BY DEF Refuse
<1> QED BY <1>1, <1>2 DEF FloorPart, Later

\* While the key holds an ID, something went out within the timeout.
LEMMA LiveIsRecent ==
  ASSUME IndInv, Live(ids, now)
  PROVE  sent.at # None /\ now - sent.at < QUOTE_ID_REGIME_TIMEOUT_NS
<1>1. ids # None /\ IdPart /\ FloorPart /\ now \in Nat
  BY Parts DEF Live
<1>2. /\ ids.last_admit_ns \in Nat /\ sent.at # None /\ sent.at \in Nat
      /\ ids.last_admit_ns <= sent.at /\ sent.at <= now
  BY <1>1 DEF IdPart, FloorPart, UpdateIdState
<1>3. QUOTE_ID_REGIME_TIMEOUT_NS \in Nat
  BY QuoteConstants
<1> QED BY <1>1, <1>2, <1>3 DEF Live, Expired

\* The ID half after judge_update_id; with the floor half below, the invariant.
LEMMA JudgedKeeps ==
  ASSUME IndInv, NEW p \in Path, NEW n \in Updates, NEW scale \in Scale,
         Judged(p, n, scale), now - At(n) <= Delay, UNCHANGED <<published, encoder, now>>
  PROVE  IdPart' /\ FloorPart' /\ NeverDark'
<1> DEFINE id == venue_update_id(p, n)
           c  == [n |-> n, scale |-> scale]
           j  == judge(ids, id, c, p, now)
<1>1. /\ TypeOK /\ IdPart /\ FloorPart /\ n \in Nat /\ At(n) \in Nat /\ At(n) <= now /\ now \in Nat
      /\ id \in 0..(Ring - 1) /\ c \in Content /\ None \notin Int /\ Ring \in Nat
  <2>1. TypeOK /\ IdPart /\ FloorPart /\ Paced
    BY Parts DEF IndInv
  <2>2. n \in Nat /\ n - First \in DOMAIN published /\ At(n) \in Nat /\ id \in 0..(Ring - 1)
    BY <2>1, UpdateType
  <2> QED BY <2>1, <2>2, RingType, QuoteConstants DEF Paced, At, Content, TypeOK
<1>2. /\ Counters' = Counters /\ Updates' = Updates /\ \A m : At(m)' = At(m)
      /\ \A m : source_ts_ns(m)' = source_ts_ns(m)
  BY DEF Counters, Updates, At, source_ts_ns
<1>3. /\ ids' = IF j.out = "conflict" THEN None ELSE j.st
      /\ disabled' = IF j.out = "conflict" THEN now + QUOTE_ID_DISABLE_NS ELSE None
      /\ CASE j.out = "legacy" -> Legacy(p, n)
           [] j.out = "admit"  -> Forward(n, "id") /\ UNCHANGED floor
           [] OTHER            -> Refuse(n, j.out) /\ UNCHANGED floor
  BY DEF Judged
<1>4. ~Disabled' \/ j.out = "conflict"
  BY <1>3 DEF Disabled
<1> HIDE DEF j
<1>5. CASE id = 0 /\ j.out = "legacy" /\ j.st = None
  <2>1. FloorPart' /\ NeverDark'
    BY <1>3, <1>5, LegacyKeeps
  <2>2. ids' = None /\ disabled' = None
    BY <1>3, <1>5
  <2> QED BY <2>1, <2>2 DEF IdPart, Held, CounterStaysOn, Disabled
<1>6. CASE id # 0 /\ j.out = "admit" /\ j.st = NewState(id, c, now)
  <2>1. ids' = NewState(id, c, now) /\ disabled' = None /\ Forward(n, "id") /\ floor' = floor
    BY <1>3, <1>6
  <2>2. /\ verdict' = [n |-> n, out |-> "id"] /\ sent' \in [at : Nat, ts : Nat]
        /\ sent'.at = now /\ sent.ts <= sent'.ts
    BY <2>1, ForwardFacts DEF Outcome
  <2>3. FloorPart'
    <3>1. floor # None => floor.high_water \in Nat /\ sent.ts \in Nat
      BY <1>1 DEF FloorPart, TickState
    <3> QED BY <1>1, <1>2, <2>1, <2>2, <3>1 DEF FloorPart, Outcome
  <2>4. NeverDark'
    BY <2>2 DEF NeverDark
  <2>5. ids' \in UpdateIdState
    <3>1. id \in 1..(2 * HALF - 1)
      BY <1>1, <1>6 DEF Ring
    <3> QED BY <1>1, <2>1, <3>1 DEF UpdateIdState, NewState
  <2>6. /\ ids'.last = id /\ ids'.content.n = n /\ ids'.last_admit_ns = now
        /\ ids'.candidate = None
    BY <2>1 DEF NewState
  <2>7. Held'
    <3>1. ASSUME Counters PROVE id = n % (2 * HALF)
      BY <1>1, <1>6, <3>1 DEF TypeOK, Counters, Encoding, venue_update_id
    <3>2. now <= At(n) + Delay
      BY <1>1, QuoteConstants
    <3> QED BY <1>1, <1>2, <2>6, <3>1, <3>2 DEF Held
  <2>8. sent'.at # None /\ ids'.last_admit_ns <= sent'.at /\ sent'.at <= now'
    BY <1>1, <2>2, <2>6
  <2>9. CounterStaysOn' /\ ~Disabled'
    BY <2>1 DEF CounterStaysOn, Disabled
  <2>10. IdPart'
    BY <2>1, <2>5, <2>7, <2>8, <2>9 DEF IdPart
  <2> QED BY <2>3, <2>4, <2>10
<1>7. CASE /\ Live(ids, now) /\ j.st = ids
           /\ j.out \in {"regime", "duplicate", "stale"}
  <2>1. ids' = ids /\ disabled' = None /\ Refuse(n, j.out) /\ floor' = floor
    BY <1>3, <1>7
  <2>2. j.out \in Outcome
    BY <1>7 DEF Outcome
  <2>3. FloorPart' /\ Later /\ sent' = sent
    BY <2>1, <2>2, RefusedKeeps
  <2>4. IdPart'
    BY <2>1, <2>3, IdPartStands
  <2>5. NeverDark'
    BY <1>7, <2>3, LiveIsRecent DEF NeverDark
  <2> QED BY <2>3, <2>4, <2>5
<1>8. CASE /\ Live(ids, now) /\ id # 0 /\ id = ids.last /\ Conflicts(ids, c)
           /\ j.out = "conflict"
  <2>1. /\ ids' = None /\ disabled' = now + QUOTE_ID_DISABLE_NS
        /\ Refuse(n, "conflict") /\ floor' = floor
    BY <1>3, <1>8
  <2>2. FloorPart' /\ sent' = sent
    BY <2>1, RefusedKeeps DEF Outcome
  <2>3. NeverDark'
    BY <1>8, <2>2, LiveIsRecent DEF NeverDark
  <2>4. ~Counters
    <3> SUFFICES ASSUME Counters PROVE FALSE
      OBVIOUS
    <3>1. n = ids.content.n
      BY <1>8, HeldOrder
    <3>2. ids.content \in Content
      BY <1>1, <1>8 DEF IdPart, Live, UpdateIdState
    <3>3. c = ids.content
      BY <1>8, <3>1, <3>2 DEF Conflicts, Content
    <3> QED BY <1>8, <3>3 DEF Conflicts
  <2>5. IdPart'
    BY <1>1, <1>2, <2>1, <2>4, QuoteConstants DEF IdPart, Held, CounterStaysOn
  <2> QED BY <2>2, <2>3, <2>5
<1>9. CASE /\ Live(ids, now) /\ id # 0 /\ ~Ordinary(ids, id) /\ update_id_newer(id, ids.last)
           /\ j.out = "jump" /\ j.st = Jumped(ids, id, p)
  <2>1. /\ ids' = [ids EXCEPT !.candidate = [id |-> id, from |-> p]]
        /\ disabled' = None /\ Refuse(n, "jump") /\ floor' = floor
    BY <1>3, <1>9 DEF Jumped
  <2>2. FloorPart' /\ sent' = sent
    BY <2>1, RefusedKeeps DEF Outcome
  <2>3. NeverDark'
    BY <1>9, <2>2, LiveIsRecent DEF NeverDark
  <2>4. ids # None /\ ids \in UpdateIdState
    BY <1>1, <1>9 DEF IdPart, Live
  <2>5. /\ ids'.last = ids.last /\ ids'.content = ids.content
        /\ ids'.last_admit_ns = ids.last_admit_ns /\ ids'.candidate = [id |-> id, from |-> p]
        /\ ids' \in UpdateIdState
    <3>1. [id |-> id, from |-> p] \in Candidate
      BY <1>1, <1>9 DEF Candidate, Ring
    <3> HIDE DEF id
    <3> QED BY <2>1, <2>4, <3>1 DEF UpdateIdState
  <2>6. ASSUME Counters PROVE n > ids.content.n + max_jump /\ id = n % (2 * HALF)
    <3>1. n > ids.content.n /\ advance(id, ids.last) = n - ids.content.n
      BY <1>9, <2>6, HeldOrder
    <3>2. ~(advance(id, ids.last) <= max_jump)
      BY <1>9 DEF Ordinary
    <3>3. ids.content.n \in Nat /\ max_jump \in Nat
      BY <2>4, QuoteConstants DEF UpdateIdState, Content
    <3>4. id = n % (2 * HALF)
      BY <1>1, <1>9, <2>6 DEF TypeOK, Counters, Encoding, venue_update_id
    <3> QED BY <1>1, <3>1, <3>2, <3>3, <3>4
  <2>7. Held'
    <3> SUFFICES ASSUME Counters' PROVE Held'
      BY DEF Held
    <3>1. Counters
      BY <1>2
    <3> DEFINE m == ids.content.n
    <3>2. /\ m \in Updates /\ ids.last = m % (2 * HALF)
          /\ At(m) <= ids.last_admit_ns /\ ids.last_admit_ns <= At(m) + Delay
      BY <1>1, <2>4, <3>1 DEF IdPart, Held
    <3>3. n > m + max_jump /\ ids'.candidate.id = n % (2 * HALF)
      BY <2>5, <2>6, <3>1
    <3>4. /\ ids'.content.n \in Updates' /\ ids'.last = ids'.content.n % (2 * HALF)
          /\ At(ids.content.n)' <= ids'.last_admit_ns
          /\ ids'.last_admit_ns <= At(ids.content.n)' + Delay
      BY <1>2, <2>5, <3>2 DEF At
    <3>5. n \in Updates' /\ n > ids'.content.n + max_jump
      BY <1>2, <2>5, <3>3
    <3> QED BY <3>3, <3>4, <3>5 DEF Held
  <2>8. IdPart'
    BY <1>1, <2>1, <2>2, <2>4, <2>5, <2>7 DEF IdPart, CounterStaysOn, Disabled
  <2> QED BY <2>2, <2>3, <2>8
<1> QED
  <2>1. j = judge(ids, id, c, p, now)
    BY DEF j
  <2> HIDE DEF id, c
  <2>2. \/ id = 0 /\ j.out = "legacy" /\ j.st = None
        \/ id # 0 /\ j.out = "admit" /\ j.st = NewState(id, c, now)
        \/ /\ Live(ids, now) /\ j.st = ids
           /\ j.out = "regime" \/ j.out = "duplicate" \/ j.out = "stale"
        \/ /\ Live(ids, now) /\ id # 0 /\ id = ids.last /\ Conflicts(ids, c)
           /\ j.out = "conflict"
        \/ /\ Live(ids, now) /\ id # 0 /\ ~Ordinary(ids, id) /\ update_id_newer(id, ids.last)
           /\ j.out = "jump" /\ j.st = Jumped(ids, id, p)
    BY <2>1, JudgeCases
  <2> QED BY <1>5, <1>6, <1>7, <1>8, <1>9, <2>2

\* The quote arm of emit_scoped, whichever gate takes the quote.
LEMMA QuoteKeeps ==
  ASSUME IndInv, NEW p \in Path, NEW n \in Updates, NEW scale \in Scale, Quote(p, n, scale)
  PROVE  IndInv'
<1>1. now - At(n) <= Delay /\ UNCHANGED <<published, encoder, now>>
  BY DEF Quote
<1>2. IdPart' /\ FloorPart' /\ NeverDark'
  <2>1. CASE Legacy(p, n) /\ UNCHANGED <<ids, disabled>>
    BY <1>1, <2>1, LegacyKeeps, IdPartStands
  <2>2. CASE disabled' = None /\ Refuse(n, "future") /\ UNCHANGED <<ids, floor>>
    <3>1. FloorPart' /\ Later /\ verdict' = [n |-> n, out |-> "future"]
      BY <1>1, <2>2, RefusedKeeps DEF Outcome
    <3>2. IdPart'
      BY <1>1, <2>2, <3>1, IdPartStands
    <3> QED BY <3>1, <3>2 DEF NeverDark
  <2>3. CASE Judged(p, n, scale)
    BY <1>1, <2>3, JudgedKeeps
  <2> QED BY <2>1, <2>2, <2>3 DEF Quote
<1>3. Paced'
  BY <1>1 DEF IndInv, Paced
<1>4. published' \in Seq(Nat) /\ encoder' \in [Path -> Encoding] /\ now' \in Nat
  BY <1>1, Parts
<1> QED BY <1>2, <1>3, <1>4 DEF IndInv, TypeOK, Recent, IdPart, FloorPart

\* What is published stays published: the updates of a key keep their dates.
LEMMA PublishKeeps ==
  ASSUME IndInv, Publish
  PROVE  IndInv'
<1>1. /\ published \in Seq(Nat) /\ now \in Nat /\ First \in Nat /\ None \notin Int
      /\ published' = Append(published, now)
      /\ UNCHANGED <<ids, disabled, floor, encoder, now, verdict, sent>>
  BY QuoteConstants DEF IndInv, TypeOK, Publish
<1>2. published' \in Seq(Nat) /\ Len(published') = Len(published) + 1
  BY <1>1
<1>3. ASSUME NEW m \in Updates PROVE m \in Updates' /\ At(m)' = At(m)
  <2>1. m \in Nat /\ m - First \in 1..Len(published)
    BY <1>1 DEF Updates
  <2> QED BY <1>1, <1>2, <2>1 DEF Updates, At
<1>4. ASSUME NEW m \in Updates PROVE source_ts_ns(m)' = source_ts_ns(m)
  BY <1>3 DEF source_ts_ns
<1>5. TypeOK'
  BY <1>1, <1>2 DEF IndInv, TypeOK, Disabled
<1>6. Paced'
  BY PublishKeepsPace DEF IndInv
<1>7. Held'
  <2> SUFFICES ASSUME Counters', ids' # None PROVE Held'
    BY DEF Held
  <2> DEFINE m == ids.content.n
  <2>1. /\ m \in Updates /\ ids.last = m % (2 * HALF)
        /\ At(m) <= ids.last_admit_ns /\ ids.last_admit_ns <= At(m) + Delay
        /\ ids.candidate # None =>
             \E c \in Updates : c > m + max_jump /\ ids.candidate.id = c % (2 * HALF)
    BY <1>1 DEF IndInv, Held, Counters
  <2>2. At(ids.content.n)' = At(m) /\ m \in Updates'
    <3>1. m \in Nat /\ m - First \in 1..Len(published)
      BY <1>1, <2>1 DEF Updates
    <3> QED BY <1>1, <1>2, <3>1 DEF Updates, At
  <2>3. ids.candidate # None =>
          \E c \in Updates' : c > m + max_jump /\ ids.candidate.id = c % (2 * HALF)
    BY <1>3, <2>1
  <2> QED BY <1>1, <2>1, <2>2, <2>3 DEF Held
<1>8. Recent'
  BY <1>1, <1>3 DEF IndInv, Recent
<1>9. CounterStaysOn'
  BY <1>1 DEF IndInv, CounterStaysOn, Counters
<1>10. NeverDark'
  <2>1. verdict # None => source_ts_ns(verdict.n)' = source_ts_ns(verdict.n)
    <3> SUFFICES ASSUME verdict # None PROVE source_ts_ns(verdict.n)' = source_ts_ns(verdict.n)
      OBVIOUS
    <3>1. verdict.n \in Updates
      BY DEF IndInv, Recent
    <3>2. verdict.n \in Nat /\ verdict.n - First \in 1..Len(published)
      BY <1>1, <3>1 DEF Updates
    <3> QED BY <1>1, <1>2, <3>2 DEF source_ts_ns, At
  <2> QED BY <1>1, <2>1 DEF IndInv, NeverDark
<1> QED BY <1>5, <1>6, <1>7, <1>8, <1>9, <1>10 DEF IndInv

\* The clock advances; no gate acts.
LEMMA TickKeeps ==
  ASSUME IndInv, Tick
  PROVE  IndInv'
<1>1. /\ now \in Nat /\ now' \in Nat /\ now <= now' /\ verdict' = None
      /\ UNCHANGED <<ids, disabled, floor, published, encoder, sent>>
  BY QuoteConstants DEF IndInv, TypeOK, Tick
<1>2. TypeOK'
  <2>1. ASSUME Disabled' PROVE ids = None
    <3>1. disabled # None /\ disabled \in Nat /\ now' < disabled
      BY <1>1, <2>1 DEF Disabled, IndInv, TypeOK
    <3>2. now < disabled
      BY <1>1, <3>1
    <3> QED BY <3>1, <3>2 DEF Disabled, IndInv, TypeOK
  <2> QED BY <1>1, <2>1 DEF IndInv, TypeOK
<1>3. Paced'
  <2>1. ASSUME NEW i \in DOMAIN published PROVE published[i] <= now'
    <3>1. published[i] \in Nat /\ published[i] <= now
      BY DEF IndInv, TypeOK, Paced
    <3> QED BY <1>1, <3>1
  <2> QED BY <1>1, <2>1 DEF IndInv, Paced
<1>4. Held'
  BY <1>1 DEF IndInv, Held, Counters, Updates, At
<1>5. Recent'
  <2>1. ASSUME ids # None PROVE sent.at <= now'
    <3>1. sent.at \in Nat /\ sent.at <= now
      BY <2>1 DEF IndInv, TypeOK, Recent
    <3> QED BY <1>1, <3>1
  <2> QED BY <1>1, <2>1 DEF IndInv, Recent
<1>6. CounterStaysOn' /\ NeverDark'
  BY <1>1 DEF IndInv, CounterStaysOn, Counters, NeverDark
<1> QED BY <1>2, <1>3, <1>4, <1>5, <1>6 DEF IndInv

\* An arbiter that has seen nothing of the key.
LEMMA InitKeeps == Init => IndInv
<1> SUFFICES ASSUME Init PROVE IndInv
  OBVIOUS
<1>1. /\ ids = None /\ disabled = None /\ floor = None /\ verdict = None
      /\ published = <<>> /\ now = 0 /\ sent = [at |-> None, ts |-> 0]
      /\ encoder \in [Path -> Encoding]
  BY QuoteConstants DEF Init
<1>2. published \in Seq(Nat) /\ DOMAIN published = {}
  BY <1>1
<1> QED BY <1>1, <1>2 DEF IndInv, TypeOK, Paced, Held, Recent, CounterStaysOn, NeverDark, Disabled

\* The induction: every step of the arm, the venue and the clock keeps the invariant.
THEOREM Invariance == Spec => []IndInv
<1>1. IndInv /\ [Next]_vars => IndInv'
  <2> SUFFICES ASSUME IndInv, [Next]_vars PROVE IndInv'
    OBVIOUS
  <2>1. CASE \E p \in Path, n \in Updates, scale \in Scale : Quote(p, n, scale)
    BY <2>1, QuoteKeeps
  <2>2. CASE Publish
    BY <2>2, PublishKeeps
  <2>3. CASE Tick
    BY <2>3, TickKeeps
  <2>4. CASE UNCHANGED vars
    BY <2>4 DEF vars, IndInv, TypeOK, Paced, Held, Recent, CounterStaysOn, NeverDark,
                Disabled, Counters, Updates, At, source_ts_ns
  <2> QED BY <2>1, <2>2, <2>3, <2>4 DEF Next
<1> QED BY <1>1, InitKeeps, PTL DEF Spec

\* The key and what the gate remembers of it are well formed, and the tick keeps its cap.
THEOREM TypeCorrect == Spec => []TypeOK
BY Invariance, PTL DEF IndInv

\* Paths that carry the venue's counter never switch it off.
THEOREM StaysOn == Spec => []CounterStaysOn
BY Invariance, PTL DEF IndInv

\* No fleet of encoders leaves the key dark past the regime timeout.
THEOREM Lit == Spec => []NeverDark
BY Invariance, PTL DEF IndInv

\* While a key holds an ID that has not timed out, only newer updates go out
\* (UpdateIdFloor::judge), for every ring, rate and delay with HalfRing.
THEOREM Ordered == Spec => NoRegress
<1> DEFINE Regresses == /\ Counters /\ ids # None /\ ids' # None /\ ~Expired(ids, now)
                        /\ ids'.content # ids.content
<1>1. ASSUME IndInv, [Next]_vars, Regresses PROVE ids'.content.n > ids.content.n
  <2>1. ids' # ids
    BY <1>1
  <2>2. PICK p \in Path, n \in Updates, scale \in Scale : Quote(p, n, scale)
    BY <1>1, <2>1 DEF Next, vars, Publish, Tick
  <2> DEFINE id == venue_update_id(p, n)
             c  == [n |-> n, scale |-> scale]
             j  == judge(ids, id, c, p, now)
  <2>3. Judged(p, n, scale) /\ now - At(n) <= Delay
    BY <2>1, <2>2 DEF Quote
  <2>4. ids' = IF j.out = "conflict" THEN None ELSE j.st
    BY <2>3 DEF Judged
  <2>5. Live(ids, now)
    BY <1>1 DEF Live
  <2>6. ids \in UpdateIdState
    BY <1>1 DEF IndInv, TypeOK
  <2>7. ids' = j.st
    BY <1>1, <2>4
  <2>8. ids' # Jumped(ids, id, p)
    BY <1>1, <2>6 DEF Jumped, UpdateIdState
  <2>9. /\ id # 0 /\ j.st = NewState(id, c, now)
        /\ Ordinary(ids, id) \/ (id # ids.last /\ Corroborates(ids, id, p))
    <3> HIDE DEF id, c
    <3> QED BY <1>1, <2>1, <2>5, <2>7, <2>8, JudgeCases
  <2>10. n > ids.content.n
    BY <1>1, <2>3, <2>5, <2>9, HeldOrder DEF Ordinary
  <2>11. ids'.content.n = n
    BY <2>7, <2>9 DEF NewState
  <2> QED BY <2>10, <2>11
<1>2. IndInv /\ [Next]_vars => [Regresses => ids'.content.n > ids.content.n]_vars
  BY <1>1
<1> QED BY <1>2, Invariance, PTL DEF Spec, NoRegress
=============================================================================
