-------------------------- MODULE PriceBookProofs --------------------------
(***************************************************************************)
(* Proofs about PriceBookFeed, for every set of prices, quantities and     *)
(* deltas and every bound: type correctness, and that a book reported as   *)
(* served is the publisher's.  The order is: runs of deltas; each method   *)
(* of the book returns a book; each method preserves BookInv; the          *)
(* publisher's steps; the induction.                                       *)
(***************************************************************************)
EXTENDS PriceBookFeed, FiniteSetTheorems, WellFoundedInduction, TLAPS

\* Membership in a run: never touched again, or set and never touched since.
LEMMA ApplyRunMember ==
  ASSUME NEW L, NEW w, NEW i, NEW j, NEW l
  PROVE  l \in ApplyRun(L, w, i, j) <=>
           \/ l \in L /\ \A k \in (i + 1)..j : ~Touches(w[k].delta, l)
           \/ \E k \in (i + 1)..j : /\ l \in Sets(w[k].delta)
                                   /\ \A m \in (k + 1)..j : ~Touches(w[m].delta, l)
BY DEF ApplyRun

\* One more delta of a run is that delta applied to what the run left (apply).
LEMMA ApplyRunStep ==
  ASSUME NEW L, NEW w, NEW i \in Nat, NEW j \in Nat, i <= j
  PROVE  ApplyRun(L, w, i, j + 1) = ApplyLevels(ApplyRun(L, w, i, j), w[j + 1].delta)
<1>1. ASSUME NEW l
      PROVE  l \in ApplyRun(L, w, i, j + 1) <=>
               \/ l \in ApplyRun(L, w, i, j) /\ ~Touches(w[j + 1].delta, l)
               \/ l \in Sets(w[j + 1].delta)
  BY ApplyRunMember
<1> QED BY <1>1 DEF ApplyLevels

\* Two consecutive runs are one run: what makes replay over a snapshot
\* equal to the publisher's own history.
LEMMA ApplyRunCompose ==
  ASSUME NEW L, NEW w, NEW i \in Nat, NEW j \in Nat, NEW r \in Nat, i <= j, j <= r
  PROVE  ApplyRun(ApplyRun(L, w, i, j), w, j, r) = ApplyRun(L, w, i, r)
<1>1. \A x : x \in (i + 1)..r <=> x \in (i + 1)..j \/ x \in (j + 1)..r
  OBVIOUS
<1>2. \A k \in (i + 1)..j :
        \A x : x \in (k + 1)..r <=> x \in (k + 1)..j \/ x \in (j + 1)..r
  OBVIOUS
<1>3. ASSUME NEW l
      PROVE  l \in ApplyRun(ApplyRun(L, w, i, j), w, j, r) <=> l \in ApplyRun(L, w, i, r)
  <2> DEFINE Quiet == \A m \in (j + 1)..r : ~Touches(w[m].delta, l)
             Late  == \E k \in (j + 1)..r :
                        /\ l \in Sets(w[k].delta)
                        /\ \A m \in (k + 1)..r : ~Touches(w[m].delta, l)
  <2>1. l \in ApplyRun(ApplyRun(L, w, i, j), w, j, r) <=>
          (l \in ApplyRun(L, w, i, j) /\ Quiet) \/ Late
    BY ApplyRunMember
  <2>2. l \in ApplyRun(L, w, i, j) <=>
          \/ l \in L /\ \A k \in (i + 1)..j : ~Touches(w[k].delta, l)
          \/ \E k \in (i + 1)..j : /\ l \in Sets(w[k].delta)
                                  /\ \A m \in (k + 1)..j : ~Touches(w[m].delta, l)
    BY ApplyRunMember
  <2>3. l \in ApplyRun(L, w, i, r) <=>
          \/ l \in L /\ \A k \in (i + 1)..r : ~Touches(w[k].delta, l)
          \/ \E k \in (i + 1)..r : /\ l \in Sets(w[k].delta)
                                  /\ \A m \in (k + 1)..r : ~Touches(w[m].delta, l)
    BY ApplyRunMember
  <2>4. (\A k \in (i + 1)..r : ~Touches(w[k].delta, l)) <=>
          (\A k \in (i + 1)..j : ~Touches(w[k].delta, l)) /\ Quiet
    BY <1>1, Zenon
  <2>5. (\E k \in (i + 1)..r : /\ l \in Sets(w[k].delta)
                              /\ \A m \in (k + 1)..r : ~Touches(w[m].delta, l)) <=>
          \/ Late
          \/ /\ Quiet
             /\ \E k \in (i + 1)..j : /\ l \in Sets(w[k].delta)
                                     /\ \A m \in (k + 1)..j : ~Touches(w[m].delta, l)
    BY <1>1, <1>2, Zenon
  <2> QED BY <2>1, <2>2, <2>3, <2>4, <2>5, Zenon
<1> QED BY <1>3

\* An empty run changes nothing: an install with nothing to replay.
LEMMA ApplyRunNothing ==
  ASSUME NEW L, NEW w, NEW i \in Nat
  PROVE  ApplyRun(L, w, i, i) = L
BY DEF ApplyRun

\* A run depends only on the deltas it names, not on what is sent later.
LEMMA ApplyRunAgrees ==
  ASSUME NEW L, NEW w, NEW v, NEW i \in Nat, NEW j \in Nat,
         \A k \in (i + 1)..j : w[k] = v[k]
  PROVE  ApplyRun(L, w, i, j) = ApplyRun(L, v, i, j)
<1>1. ASSUME NEW l
      PROVE  l \in ApplyRun(L, w, i, j) <=> l \in ApplyRun(L, v, i, j)
  BY ApplyRunMember
<1> QED BY <1>1

\* What a delta sets is a level.
LEMMA SetsType ==
  ASSUME NEW d \in BookDelta
  PROVE  Sets(d) \subseteq Level
BY DEF Sets, Level, BookDelta

\* A run leaves a set of levels.
LEMMA ApplyRunType ==
  ASSUME NEW L \in SUBSET Level, NEW w, NEW i \in Nat, NEW j \in Nat,
         \A k \in (i + 1)..j : w[k].delta \in BookDelta
  PROVE  ApplyRun(L, w, i, j) \subseteq Level
<1>1. \A k \in (i + 1)..j : Sets(w[k].delta) \subseteq Level
  BY SetsType
<1> QED BY <1>1, Zenon DEF ApplyRun

-----------------------------------------------------------------------------
\* A non-empty set of naturals has a least element, by well-foundedness of <.
LEMMA LeastNatural ==
  ASSUME NEW S \in SUBSET Nat, S # {}
  PROVE  \E x \in S : \A y \in S : x <= y
<1> DEFINE R == {ss \in Nat \X Nat : ss[1] < ss[2]}
<1>1. IsWellFoundedOn(R, Nat)
  BY NatLessThanWellFounded, Zenon DEF OpToRel
<1>2. \E x \in S : \A y \in S : ~(<<y, x>> \in R)
  <2> HIDE DEF R
  <2> QED BY <1>1, WFMin, Zenon
<1>3. \A x, y \in Nat : y < x => <<y, x>> \in R
  OBVIOUS
<1> HIDE DEF R
<1>4. PICK x \in S : \A y \in S : <<y, x>> \notin R
  BY <1>2, Zenon
<1>5. \A y \in S : ~(y < x)
  BY <1>3, <1>4, Zenon
<1> QED BY <1>5

\* The replay loop always stops: at the latest one past the last delta sent.
LEMMA FirstStopType ==
  ASSUME NEW b, NEW anchor, NEW w, Len(w) \in Nat, DOMAIN w = 1..Len(w),
         b.last \in Nat, b.last <= Len(w)
  PROVE  /\ FirstStop(b, anchor, w) \in (b.last + 1)..(Len(w) + 1)
         /\ StopsAt(b, FirstStop(b, anchor, w), anchor, w)
         /\ \A j \in (b.last + 1)..(FirstStop(b, anchor, w) - 1) : ~StopsAt(b, j, anchor, w)
<1> DEFINE S == {k \in (b.last + 1)..(Len(w) + 1) : StopsAt(b, k, anchor, w)}
<1>1. Len(w) + 1 \in S
  BY DEF StopsAt, Kept
<1>2. S \in SUBSET Nat
  OBVIOUS
<1>3. PICK x \in S : \A y \in S : x <= y
  BY <1>1, <1>2, LeastNatural
<1>4. /\ x \in (b.last + 1)..(Len(w) + 1)
      /\ StopsAt(b, x, anchor, w)
      /\ \A j \in (b.last + 1)..(x - 1) : ~StopsAt(b, j, anchor, w)
  BY <1>3
<1> QED BY <1>4 DEF FirstStop

-----------------------------------------------------------------------------
(* Every method of the book keeps its type.                                *)

IsWire(w) == w \in Seq([mkt : Nat, delta : Deltas]) /\ Len(w) <= MaxDeltas

\* What a delta on the wire carries, and that its sequence is a buffer slot.
LEMMA WireType ==
  ASSUME NEW w, IsWire(w)
  PROVE  /\ Len(w) \in 0..MaxDeltas /\ DOMAIN w = 1..Len(w) /\ DOMAIN w \subseteq Seqs
         /\ \A k \in DOMAIN w : w[k].mkt \in Nat /\ w[k].delta \in BookDelta
<1>1. MaxDeltas \in Nat /\ Deltas \subseteq BookDelta
  BY PriceBookConstants, FeedConstants
<1>2. /\ Len(w) \in Nat /\ Len(w) <= MaxDeltas /\ DOMAIN w = 1..Len(w)
      /\ \A k \in DOMAIN w : w[k] \in [mkt : Nat, delta : Deltas]
  <2> DEFINE M == [mkt : Nat, delta : Deltas]
  <2>1. w \in Seq(M) /\ Len(w) <= MaxDeltas
    BY DEF IsWire
  <2> HIDE DEF M
  <2>2. Len(w) \in Nat /\ DOMAIN w = 1..Len(w) /\ \A k \in DOMAIN w : w[k] \in M
    BY <2>1
  <2> QED BY <2>1, <2>2 DEF M
<1> HIDE DEF IsWire
<1>3. \A k \in DOMAIN w : w[k].mkt \in Nat /\ w[k].delta \in BookDelta
  BY <1>1, <1>2
<1> QED BY <1>1, <1>2, <1>3 DEF Seqs

\* Sequence 0, a book with nothing applied, is a legal `last'.
LEMMA ZeroSeq == 0 \in 0..MaxDeltas
BY PriceBookConstants

\* The empty buffer is a buffer.
LEMMA NoPendingType == NoPending \in [Seqs -> Nat]
BY DEF NoPending

\* `buffer' returns a book.
LEMMA BufferType ==
  ASSUME NEW b \in PriceBookType, NEW k \in Seqs
  PROVE  buffer(b, k) \in PriceBookType
<1>1. [b EXCEPT !.pending = NoPending, !.status = "Gap"] \in PriceBookType
  BY NoPendingType DEF PriceBookType, Status
<1>2. [b.pending EXCEPT ![k] = @ + 1] \in [Seqs -> Nat]
  BY DEF PriceBookType
<1>3. [b EXCEPT !.pending = [b.pending EXCEPT ![k] = @ + 1]] \in PriceBookType
  BY <1>2 DEF PriceBookType
<1> QED BY <1>1, <1>3 DEF buffer

\* `overflow' returns a book.
LEMMA OverflowType ==
  ASSUME NEW b \in PriceBookType
  PROVE  overflow(b) \in PriceBookType
BY NoPendingType DEF overflow, PriceBookType, Status

\* `apply' returns a book.
LEMMA ApplyType ==
  ASSUME NEW b \in PriceBookType, NEW w, IsWire(w), NEW k \in DOMAIN w
  PROVE  apply(b, k, w) \in PriceBookType
<1>1. ApplyLevels(b.levels, w[k].delta) \in SUBSET Level
  BY WireType, SetsType DEF ApplyLevels, PriceBookType
<1>2. k \in 0..MaxDeltas
  BY WireType DEF Seqs
<1> QED BY <1>1, <1>2, OverflowType DEF apply, PriceBookType

\* `on_delta' returns a book.
LEMMA OnDeltaType ==
  ASSUME NEW b \in PriceBookType, NEW w, IsWire(w), NEW k \in DOMAIN w
  PROVE  on_delta(b, k, w) \in PriceBookType
<1>1. k \in Seqs /\ k \in Nat /\ b.last \in Nat
  BY WireType DEF Seqs, PriceBookType
<1>2. [b EXCEPT !.status = "Gap", !.pending = [NoPending EXCEPT ![k] = 1]] \in PriceBookType
  BY <1>1 DEF PriceBookType, NoPending, Status
<1>3. \/ b.status # "Ready" \/ (b.status = "Ready" /\ k <= b.last)
      \/ (b.status = "Ready" /\ k > b.last + 1) \/ (b.status = "Ready" /\ k = b.last + 1)
  BY <1>1
<1> QED BY <1>1, <1>2, <1>3, BufferType, ApplyType DEF on_delta

\* `replay' returns a book whose `last' is a delta that was sent.
LEMMA ReplayType ==
  ASSUME NEW b \in PriceBookType, NEW w, IsWire(w), NEW anchor, b.last <= Len(w)
  PROVE  replay(b, anchor, w) \in PriceBookType
<1> DEFINE stop == FirstStop(b, anchor, w)
           ran == [b EXCEPT !.levels = ApplyRun(b.levels, w, b.last, stop - 1),
                            !.last = stop - 1]
<1>1. b.last \in Nat /\ stop \in (b.last + 1)..(Len(w) + 1)
  BY WireType, FirstStopType DEF PriceBookType
<1>2. ApplyRun(b.levels, w, b.last, stop - 1) \in SUBSET Level
  <2>1. \A k \in (b.last + 1)..(stop - 1) : w[k].delta \in BookDelta
    BY <1>1, WireType
  <2>2. b.levels \in SUBSET Level /\ stop - 1 \in Nat
    BY <1>1, WireType DEF PriceBookType
  <2> QED BY <1>1, <2>1, <2>2, ApplyRunType
<1>3. ran \in PriceBookType
  <2>1. stop - 1 \in 0..MaxDeltas
    BY <1>1, WireType, PriceBookConstants
  <2> HIDE DEF stop
  <2> QED BY <1>2, <2>1 DEF PriceBookType
<1> HIDE DEF ran, stop
<1>4. ASSUME NEW P \in [Seqs -> Nat], NEW st \in Status
      PROVE  [ran EXCEPT !.pending = P, !.status = st] \in PriceBookType
  BY <1>3 DEF PriceBookType
<1>5. [k \in Seqs |-> IF k > stop /\ Kept(b, k, anchor, w) THEN b.pending[k] ELSE 0]
        \in [Seqs -> Nat]
  BY DEF PriceBookType
<1> QED BY <1>3, <1>4, <1>5, OverflowType DEF replay, Status, ran, stop

SnapType ==
  [id : Nat, anchor : Nat, total : Nat, last : 0..MaxDeltas, bound : Nat,
   levels : SUBSET Level, epoch : Nat]

\* `drop_buffer' returns a book.
LEMMA DropBufferType ==
  ASSUME NEW b \in PriceBookType
  PROVE  drop_buffer(b) \in PriceBookType
BY NoPendingType DEF drop_buffer, PriceBookType, Status

\* The declined path of `on_snapshot_begin' returns a book.
LEMMA DeclineType ==
  ASSUME NEW b \in PriceBookType, NEW s \in SnapType, NEW t \in Nat
  PROVE  decline(b, s, t) \in PriceBookType
<1>1. force_resync(b, t) \in PriceBookType
  BY DEF force_resync, PriceBookType, Status
<1>2. ASSUME NEW k \in Nat \cup {None}
      PROVE  [b EXCEPT !.strike = k] \in PriceBookType
  BY DEF PriceBookType
<1>3. s.id \in Nat /\ b.strike \in Nat \cup {None}
  BY DEF PriceBookType, SnapType
<1>4. \/ s.bound # 0 \/ (s.bound = 0 /\ ~reanchor_warranted(Shortfall(b, s), s.total))
      \/ (s.bound = 0 /\ reanchor_warranted(Shortfall(b, s), s.total))
  OBVIOUS
<1> QED BY <1>1, <1>2, <1>3, <1>4 DEF decline

\* The accepting path of `on_snapshot_begin' returns a book.
LEMMA AcceptType ==
  ASSUME NEW b \in PriceBookType, NEW s \in SnapType, NEW t \in Nat
  PROVE  accept(b, s, t) \in PriceBookType
<1>1. serves_a_book(b, t) \in BOOLEAN
  BY DEF serves_a_book, PriceBookType, Building
<1>2. ASSUME NEW over \in BOOLEAN
      PROVE  (IF over /\ b.open # None THEN b.open.serving_since_ns ELSE t) \in Nat
  BY DEF PriceBookType, Building
<1>3. ASSUME NEW over \in BOOLEAN, NEW since \in Nat
      PROVE  [snapshot_id |-> s.id, anchor_seq |-> s.anchor,
              total_levels |-> s.total, received_levels |-> 0,
              last_instrument_seq |-> s.last, bound |-> s.bound,
              over_live_book |-> over, serving_since_ns |-> since,
              levels |-> {}] \in Building
  BY PriceBookConstants DEF Building, SnapType
<1>4. ASSUME NEW o \in Building
      PROVE  [b EXCEPT !.status = "BuildingSnapshot", !.open = o] \in PriceBookType
  BY DEF PriceBookType, Status
<1> QED BY <1>1, <1>2, <1>3, <1>4 DEF accept

\* `on_snapshot_begin' returns a book.
LEMMA BeginType ==
  ASSUME NEW b \in PriceBookType, NEW s \in SnapType, NEW t \in Nat
  PROVE  on_snapshot_begin(b, s, t) \in PriceBookType
BY DeclineType, AcceptType DEF on_snapshot_begin

\* `on_snapshot_level' returns a book.
LEMMA LevelType ==
  ASSUME NEW b \in PriceBookType, NEW id, NEW l \in Level
  PROVE  on_snapshot_level(b, id, l) \in PriceBookType
<1>1. CASE b.open = None
  BY <1>1 DEF on_snapshot_level
<1>2. CASE b.open # None
  <2>1. b.open \in Building
    BY <1>2 DEF PriceBookType
  <2>2. ASSUME NEW L \in SUBSET Level, NEW r \in Nat
        PROVE  [b EXCEPT !.open = [b.open EXCEPT !.levels = L, !.received_levels = r]]
                 \in PriceBookType
    <3>1. [b.open EXCEPT !.levels = L, !.received_levels = r] \in Building
      BY <2>1 DEF Building
    <3> QED BY <3>1 DEF PriceBookType
  <2>3. b.open.received_levels \in Nat /\ b.open.levels \in SUBSET Level
    BY <2>1 DEF Building
  <2> DEFINE others == {x \in b.open.levels :
                          <<x.side, x.price>> # <<l.side, l.price>>}
  <2>4. others \cup {l} \in SUBSET Level
    BY <2>3
  <2>5. (IF others = b.open.levels THEN b.open.received_levels + 1
                                   ELSE b.open.received_levels) \in Nat
    BY <2>3
  <2> QED BY <2>2, <2>4, <2>5 DEF on_snapshot_level
<1> QED BY <1>1, <1>2

\* `on_snapshot_end' returns a book, installed or discarded.
LEMMA EndType ==
  ASSUME NEW b \in PriceBookType, NEW w, IsWire(w), NEW anchor, NEW id,
         b.open # None => b.open.last_instrument_seq <= Len(w)
  PROVE  on_snapshot_end(b, anchor, id, w) \in PriceBookType
<1>1. CASE b.open = None
  BY <1>1 DEF on_snapshot_end
<1>2. CASE b.open # None
  <2>1. b.open \in Building
    BY <1>2 DEF PriceBookType
  <2>2. [b EXCEPT !.levels = {}, !.bound = None, !.open = None,
                  !.status = "AwaitingSnapshot"] \in PriceBookType
    BY DEF PriceBookType, Status
  <2> DEFINE c == [b EXCEPT !.levels = b.open.levels,
                     !.last = b.open.last_instrument_seq,
                     !.bound = b.open.bound, !.required = None, !.strike = None,
                     !.status = "Ready", !.open = None]
  <2>3. c \in PriceBookType /\ c.last <= Len(w)
    <3>1. b.open.last_instrument_seq \in 0..MaxDeltas
      BY <1>2, <2>1, WireType, PriceBookConstants DEF Building
    <3>2. b.open.levels \in SUBSET Level /\ b.open.bound \in Nat
      BY <2>1 DEF Building
    <3>3. c \in PriceBookType
      BY <3>1, <3>2 DEF PriceBookType, Status
    <3>4. c.last = b.open.last_instrument_seq
      BY DEF PriceBookType
    <3> QED BY <1>2, <3>3, <3>4
  <2> HIDE DEF c
  <2>4. replay(c, b.open.anchor_seq, w) \in PriceBookType
    BY <2>3, ReplayType
  <2>5. install(b, w) \in PriceBookType
    BY <2>4 DEF install, c
  <2> QED BY <2>2, <2>5 DEF on_snapshot_end
<1> QED BY <1>1, <1>2

\* `on_instrument_reset' returns a book.
LEMMA ResetType ==
  ASSUME NEW b \in PriceBookType, NEW w, NEW anchor \in Nat
  PROVE  on_instrument_reset(b, anchor, w) \in PriceBookType
<1> DEFINE keep == b.open # None /\ b.open.anchor_seq >= anchor
           P == [k \in Seqs |->
                  IF k \in DOMAIN w /\ w[k].mkt > anchor THEN b.pending[k] ELSE 0]
           o == IF keep THEN [b.open EXCEPT !.over_live_book = FALSE] ELSE None
<1>1. P \in [Seqs -> Nat]
  BY DEF PriceBookType
<1>2. o \in Building \cup {None}
  BY DEF PriceBookType, Building
<1>3. ASSUME NEW st \in Status
      PROVE  [b EXCEPT !.levels = {}, !.last = 0, !.bound = None, !.required = anchor,
                       !.open = o, !.pending = P, !.status = st] \in PriceBookType
  <2> HIDE DEF o, P
  <2> QED BY <1>1, <1>2, ZeroSeq DEF PriceBookType
<1> QED BY <1>3 DEF on_instrument_reset, Status

\* `on_end_of_session' returns a book.
LEMMA SessionType ==
  ASSUME NEW b \in PriceBookType
  PROVE  on_end_of_session(b) \in PriceBookType
BY NoPendingType, ZeroSeq DEF on_end_of_session, PriceBookType, Status

-----------------------------------------------------------------------------
(* Every method keeps the book's half of the inductive invariant.          *)

\* The deltas sent in this session are a wire.
LEMMA SentIsWire == TypeOK => IsWire(sent)
BY DEF TypeOK, IsWire

\* The fields of an epoch.
LEMMA EpochsType ==
  ASSUME TypeOK
  PROVE  /\ Len(epochs) \in Nat /\ DOMAIN epochs = 1..Len(epochs)
         /\ \A e \in DOMAIN epochs : /\ epochs[e].base \in SUBSET Level
                                    /\ epochs[e].start \in Nat /\ epochs[e].anchor \in Nat
<1> DEFINE M == [base : SUBSET Level, start : Nat, anchor : Nat]
<1>1. epochs \in Seq(M)
  BY DEF TypeOK
<1> HIDE DEF M
<1>2. Len(epochs) \in Nat /\ DOMAIN epochs = 1..Len(epochs)
      /\ \A e \in DOMAIN epochs : epochs[e] \in M
  BY <1>1
<1> QED BY <1>2 DEF M

\* The fields of a rotation.
LEMMA SnapsType ==
  ASSUME TypeOK
  PROVE  /\ Len(snaps) \in Nat /\ DOMAIN snaps = 1..Len(snaps)
         /\ \A s \in DOMAIN snaps : snaps[s] \in SnapType
<1>1. snaps \in Seq(SnapType)
  BY DEF TypeOK, SnapType
<1> QED BY <1>1

\* A method that touches neither the open group nor the required anchor only
\* has to account for the levels it goes on claiming.
LEMMA SameGroupInv ==
  ASSUME NEW b, NEW c, NEW h, NEW n, BookInv(b, h, n),
         c.open = b.open, c.required = b.required,
         Claims(c) => Matches(c, h)
  PROVE  BookInv(c, h, n)
BY DEF BookInv, OpenInv, AnchorInv

\* Matching the publisher depends only on the levels and on `last'.
LEMMA SameLevelsMatch ==
  ASSUME NEW b, NEW c, NEW h, Matches(b, h), c.levels = b.levels, c.last = b.last
  PROVE  Matches(c, h)
BY DEF Matches

\* Buffering claims nothing new: at worst the status falls to Gap.
LEMMA BufferInv ==
  ASSUME NEW b \in PriceBookType, NEW k \in Seqs, NEW h, NEW n, BookInv(b, h, n)
  PROVE  BookInv(buffer(b, k), h, n)
<1> DEFINE c == buffer(b, k)
<1>1. /\ c.open = b.open /\ c.required = b.required
      /\ c.levels = b.levels /\ c.last = b.last
      /\ c.status \in {b.status, "Gap"}
  BY DEF buffer, PriceBookType
<1> HIDE DEF c
<1>2. Claims(c) => Claims(b)
  BY <1>1 DEF Claims
<1>3. Claims(c) => Matches(c, h)
  BY <1>1, <1>2, SameLevelsMatch DEF BookInv
<1>4. BookInv(c, h, n)
  BY <1>1, <1>3, SameGroupInv
<1> QED BY <1>4 DEF c

\* Applying the next delta in sequence keeps the book the publisher's; the
\* level cap leaves a book that claims nothing.
LEMMA ApplyInv ==
  ASSUME TypeOK, PubInv, NEW b \in PriceBookType, NEW k \in DOMAIN sent,
         b.status = "Ready", k = b.last + 1,
         NEW h \in DOMAIN epochs, NEW n, BookInv(b, h, n)
  PROVE  BookInv(apply(b, k, sent), h, n)
<1>1. CASE Overflows(b.levels, sent[k].delta)
  <2> DEFINE c == overflow(b)
  <2>1. c.open = b.open /\ c.required = b.required /\ c.status = "AwaitingSnapshot"
    BY DEF overflow, PriceBookType
  <2> HIDE DEF c
  <2>2. BookInv(c, h, n)
    BY <2>1, SameGroupInv DEF Claims
  <2> QED BY <1>1, <2>2 DEF apply, c
<1>2. CASE ~Overflows(b.levels, sent[k].delta)
  <2> DEFINE c == [b EXCEPT !.levels = ApplyLevels(b.levels, sent[k].delta), !.last = k]
  <2>1. /\ c.open = b.open /\ c.required = b.required
        /\ c.levels = ApplyLevels(b.levels, sent[k].delta) /\ c.last = b.last + 1
    BY DEF PriceBookType
  <2> HIDE DEF c
  <2>2. PICK e \in (IF Fifo THEN h ELSE 1)..Len(epochs) :
          /\ epochs[e].start <= b.last /\ b.last <= Len(sent)
          /\ b.levels = Truth(e, b.last)
    BY DEF BookInv, Claims, Matches
  <2>3. b.last \in Nat /\ Len(sent) \in Nat /\ k <= Len(sent)
    BY WireType, SentIsWire DEF PriceBookType
  <2>4. epochs[e].start \in Nat
    <3>1. h >= 1
      BY EpochsType
    <3>2. e \in DOMAIN epochs
      BY <2>2, <3>1, EpochsType
    <3> QED BY <3>2, EpochsType
  <2>5. c.levels = Truth(e, c.last)
    BY <2>1, <2>2, <2>3, <2>4, ApplyRunStep DEF Truth
  <2>6. Matches(c, h)
    BY <2>1, <2>2, <2>3, <2>4, <2>5 DEF Matches
  <2>7. BookInv(c, h, n)
    BY <2>1, <2>6, SameGroupInv
  <2> QED BY <1>2, <2>7 DEF apply, c
<1> QED BY <1>1, <1>2

\* `on_delta' preserves the book's invariant, whichever delta arrives.
LEMMA OnDeltaInv ==
  ASSUME TypeOK, PubInv, NEW b \in PriceBookType, NEW k \in DOMAIN sent,
         NEW h \in DOMAIN epochs, NEW n, BookInv(b, h, n)
  PROVE  BookInv(on_delta(b, k, sent), h, n)
<1>1. k \in Seqs /\ k \in Nat /\ b.last \in Nat
  BY WireType, SentIsWire DEF Seqs, PriceBookType
<1>2. CASE b.status # "Ready"
  BY <1>1, <1>2, BufferInv DEF on_delta
<1>3. CASE b.status = "Ready" /\ k <= b.last
  BY <1>1, <1>3 DEF on_delta
<1>4. CASE b.status = "Ready" /\ k > b.last + 1
  <2> DEFINE c == [b EXCEPT !.status = "Gap", !.pending = [NoPending EXCEPT ![k] = 1]]
  <2>1. c.open = b.open /\ c.required = b.required /\ c.status = "Gap"
    BY DEF PriceBookType
  <2> HIDE DEF c
  <2>2. BookInv(c, h, n)
    BY <2>1, SameGroupInv DEF Claims
  <2>3. on_delta(b, k, sent) = c
    BY <1>1, <1>4 DEF on_delta, c
  <2> QED BY <2>2, <2>3
<1>5. CASE b.status = "Ready" /\ k = b.last + 1
  <2>1. on_delta(b, k, sent) = apply(b, k, sent)
    BY <1>1, <1>5 DEF on_delta
  <2> QED BY <1>5, <2>1, ApplyInv
<1> QED BY <1>1, <1>2, <1>3, <1>4, <1>5

\* A message of rotation s arrives: the newest rotation seen is m.
LEMMA SeenInv ==
  ASSUME TypeOK, PubInv, NEW b, NEW s \in DOMAIN snaps, NEW h \in DOMAIN epochs,
         NEW n \in 0..Len(snaps), Fifo => s >= n, BookInv(b, h, n),
         NEW m, m = (IF s > n THEN s ELSE n)
  PROVE  m \in DOMAIN snaps /\ m >= n /\ (Fifo => m = s) /\ BookInv(b, h, m)
<1>1. s \in Nat /\ n \in Nat /\ h \in Nat /\ m \in DOMAIN snaps /\ m >= n /\ (Fifo => m = s)
  BY SnapsType, EpochsType
<1>2. AnchorInv(b, h, m)
  <2>1. CASE ~Fifo
    BY <2>1 DEF AnchorInv
  <2>2. CASE Fifo /\ b.required = None /\ h # 1
    <3>1. n \in DOMAIN snaps /\ snaps[n].epoch >= h
      BY <2>2 DEF BookInv, AnchorInv
    <3>2. snaps[n].epoch <= snaps[m].epoch
      BY <1>1, <3>1 DEF PubInv, SnapInv
    <3>3. snaps[n].epoch \in Nat /\ snaps[m].epoch \in Nat
      BY <1>1, <3>1, SnapsType DEF SnapType
    <3> QED BY <1>1, <2>2, <3>1, <3>2, <3>3 DEF AnchorInv
  <2>3. CASE b.required # None \/ h = 1
    BY <2>3 DEF BookInv, AnchorInv
  <2> QED BY <2>1, <2>2, <2>3
<1>3. OpenInv(b, h, m)
  <2>1. CASE b.open = None
    BY <2>1 DEF OpenInv
  <2>2. CASE b.open # None
    <3>1. b.open.snapshot_id \in Nat
      BY <2>2, SnapsType DEF BookInv, OpenInv
    <3> QED BY <1>1, <2>2, <3>1 DEF BookInv, OpenInv
  <2> QED BY <2>1, <2>2
<1> QED BY <1>1, <1>2, <1>3 DEF BookInv

\* A declined rotation leaves the book as it is or re-anchors it.
LEMMA DeclineInv ==
  ASSUME NEW b \in PriceBookType, NEW s, NEW t, NEW h, NEW n, BookInv(b, h, n)
  PROVE  BookInv(decline(b, s, t), h, n)
<1> DEFINE c == decline(b, s, t)
<1>1. /\ c.open = b.open /\ c.required = b.required
      /\ \/ c.status = "AwaitingSnapshot"
         \/ c.status = b.status /\ c.levels = b.levels /\ c.last = b.last
  <2>1. CASE s.bound # 0
    BY <2>1 DEF decline
  <2>2. CASE s.bound = 0 /\ ~reanchor_warranted(Shortfall(b, s), s.total)
    BY <2>2 DEF decline, PriceBookType
  <2>3. CASE s.bound = 0 /\ reanchor_warranted(Shortfall(b, s), s.total)
    BY <2>3 DEF decline, force_resync, PriceBookType
  <2> QED BY <2>1, <2>2, <2>3
<1> HIDE DEF c
<1>2. Claims(c) => Matches(c, h)
  BY <1>1, SameLevelsMatch DEF Claims, BookInv
<1>3. BookInv(c, h, n)
  BY <1>1, <1>2, SameGroupInv
<1> QED BY <1>3 DEF c

\* In order, an accepted rotation belongs to the newest reset heard or a later one.
LEMMA AcceptedEpoch ==
  ASSUME TypeOK, PubInv, NEW b, NEW s \in DOMAIN snaps, NEW h \in DOMAIN epochs,
         Fifo, AnchorInv(b, h, s), ~Refused(b, snaps[s])
  PROVE  snaps[s].epoch >= h
<1>1. /\ snaps[s].epoch \in DOMAIN epochs /\ snaps[s].anchor \in Nat
      /\ snaps[s].epoch > h \/ snaps[s].epoch = h \/ snaps[s].epoch < h
      /\ snaps[s].epoch \in Nat /\ h \in Nat /\ h >= 1 /\ snaps[s].epoch >= 1
  BY SnapsType, EpochsType DEF PubInv, SnapInv, SnapType
<1>2. CASE b.required = None
  BY <1>1, <1>2 DEF AnchorInv
<1>3. CASE b.required # None
  <2>1. b.required = epochs[h].anchor /\ snaps[s].anchor >= epochs[h].anchor
    <3>1. b.required = epochs[h].anchor /\ epochs[h].anchor \in Nat
      BY <1>3, EpochsType DEF AnchorInv
    <3> QED BY <1>1, <1>3, <3>1 DEF Refused
  <2>2. ~(h > snaps[s].epoch)
    BY <1>1, <2>1, EpochsType DEF PubInv, SnapInv
  <2> QED BY <1>1, <2>2
<1> QED BY <1>2, <1>3

\* An accepted rotation opens a group faithful to the rotation captured.
LEMMA AcceptInv ==
  ASSUME TypeOK, PubInv, NEW b \in PriceBookType, NEW s \in DOMAIN snaps,
         NEW h \in DOMAIN epochs, NEW t \in Nat,
         NEW m, m \in DOMAIN snaps, Fifo => m = s, BookInv(b, h, m),
         ~Refused(b, snaps[s])
  PROVE  BookInv(accept(b, snaps[s], t), h, m)
<1> DEFINE c == accept(b, snaps[s], t)
<1>0. c.open # None
  <2> DEFINE o == [snapshot_id |-> snaps[s].id, anchor_seq |-> snaps[s].anchor,
                  total_levels |-> snaps[s].total, received_levels |-> 0,
                  last_instrument_seq |-> snaps[s].last, bound |-> snaps[s].bound,
                  over_live_book |-> serves_a_book(b, t),
                  serving_since_ns |-> IF serves_a_book(b, t) /\ b.open # None
                                         THEN b.open.serving_since_ns ELSE t,
                  levels |-> {}]
  <2>1. c.open = o
    BY DEF accept, PriceBookType
  <2>2. serves_a_book(b, t) \in BOOLEAN
    BY DEF serves_a_book, PriceBookType, Building
  <2>3. (IF serves_a_book(b, t) /\ b.open # None THEN b.open.serving_since_ns ELSE t) \in Nat
    BY DEF PriceBookType, Building
  <2>4. snaps[s] \in SnapType
    BY SnapsType
  <2>5. o \in Building
    BY <2>2, <2>3, <2>4 DEF Building, SnapType
  <2> QED BY <2>1, <2>5, NoneIsNoGroup
<1>1. /\ c.levels = b.levels /\ c.last = b.last /\ c.required = b.required
      /\ c.status = "BuildingSnapshot"
      /\ c.open.over_live_book = serves_a_book(b, t)
      /\ c.open.snapshot_id = snaps[s].id /\ c.open.anchor_seq = snaps[s].anchor
      /\ c.open.total_levels = snaps[s].total
      /\ c.open.last_instrument_seq = snaps[s].last
      /\ c.open.levels = {} /\ c.open.received_levels = 0
  BY DEF accept, PriceBookType
<1> HIDE DEF c
<1>2. Claims(c) => Matches(c, h)
  BY <1>0, <1>1, SameLevelsMatch DEF Claims, serves_a_book, BookInv
<1>3. AnchorInv(c, h, m)
  BY <1>1 DEF BookInv, AnchorInv
<1>4. OpenInv(c, h, m)
  <2>1. snaps[s].id = s /\ s \in Nat
    BY SnapsType DEF PubInv, SnapInv
  <2>2. Fifo => snaps[s].epoch >= h
    BY AcceptedEpoch DEF BookInv
  <2>3. c.open.received_levels <= Cardinality(c.open.levels) /\ OneLevelPerPrice(c.open.levels)
    BY <1>1, FS_EmptySet DEF OneLevelPerPrice
  <2> QED BY <1>1, <2>1, <2>2, <2>3 DEF OpenInv
<1>5. BookInv(c, h, m)
  BY <1>2, <1>3, <1>4 DEF BookInv
<1> QED BY <1>5 DEF c

\* `on_snapshot_begin' preserves the book's invariant.
LEMMA OnBeginInv ==
  ASSUME TypeOK, PubInv, NEW b \in PriceBookType, NEW s \in DOMAIN snaps,
         NEW h \in DOMAIN epochs, NEW t \in Nat,
         NEW m, m \in DOMAIN snaps, Fifo => m = s, BookInv(b, h, m)
  PROVE  BookInv(on_snapshot_begin(b, snaps[s], t), h, m)
BY DeclineInv, AcceptInv DEF on_snapshot_begin

\* Replacing the level at one price: the shadow keeps one level per price, and
\* the count of distinct prices never runs ahead of the levels held.
LEMMA ShadowCount ==
  ASSUME NEW L \in SUBSET Level, OneLevelPerPrice(L), NEW l \in Level,
         NEW r \in Nat, r <= Cardinality(L),
         NEW others, others = {x \in L : <<x.side, x.price>> # <<l.side, l.price>>}
  PROVE  /\ OneLevelPerPrice(others \cup {l})
         /\ (IF others = L THEN r + 1 ELSE r) <= Cardinality(others \cup {l})
<1>1. OneLevelPerPrice(others \cup {l})
  BY DEF OneLevelPerPrice
<1>2. IsFiniteSet(L) /\ IsFiniteSet(others) /\ Cardinality(L) \in Nat
  BY FinitelyManyLevels, FS_Subset, FS_CardinalityType
<1>3. l \notin others
  OBVIOUS
<1>4. Cardinality(others \cup {l}) = Cardinality(others) + 1 /\ Cardinality(others) \in Nat
  <2>1. Cardinality(others) \in Nat
    BY <1>2, FS_CardinalityType
  <2> QED BY <1>2, <1>3, <2>1, FS_AddElement
<1>5. CASE others = L
  <2>1. Cardinality(others) = Cardinality(L)
    BY <1>5
  <2>2. r + 1 <= Cardinality(others \cup {l})
    BY <1>2, <1>4, <2>1
  <2> QED BY <1>1, <1>5, <2>2, Zenon
<1>6. CASE others # L
  <2>1. PICK x \in L : x.side = l.side /\ x.price = l.price
    BY <1>6
  <2>2. others = L \ {x}
    BY <2>1 DEF OneLevelPerPrice
  <2>3. Cardinality(others) = Cardinality(L) - 1
    BY <1>2, <2>1, <2>2, FS_RemoveElement
  <2>4. r <= Cardinality(others \cup {l})
    BY <1>2, <1>4, <2>3
  <2> QED BY <1>1, <1>6, <2>4, Zenon
<1> QED BY <1>1, <1>5, <1>6

\* `on_snapshot_level' keeps the shadow a part of the rotation's levels.
LEMMA OnLevelInv ==
  ASSUME TypeOK, PubInv, NEW b \in PriceBookType, NEW s \in DOMAIN snaps,
         NEW l \in snaps[s].levels, NEW h \in DOMAIN epochs, NEW m, BookInv(b, h, m)
  PROVE  BookInv(on_snapshot_level(b, snaps[s].id, l), h, m)
<1> DEFINE others == {x \in b.open.levels : <<x.side, x.price>> # <<l.side, l.price>>}
           r == IF others = b.open.levels THEN b.open.received_levels + 1
                                          ELSE b.open.received_levels
           c == [b EXCEPT !.open = [b.open EXCEPT !.levels = others \cup {l},
                                                  !.received_levels = r]]
<1>1. CASE on_snapshot_level(b, snaps[s].id, l) = b
  BY <1>1
<1>2. CASE /\ b.open # None /\ b.open.snapshot_id = snaps[s].id
           /\ on_snapshot_level(b, snaps[s].id, l) = c
  <2>1. b.open \in Building
    BY <1>2 DEF PriceBookType
  <2>2. b.open.levels \in SUBSET Level /\ b.open.received_levels \in Nat /\ l \in Level
    BY <2>1, SnapsType DEF Building, SnapType
  <2> DEFINE o == [b.open EXCEPT !.levels = others \cup {l}, !.received_levels = r]
  <2>3. /\ o.levels = others \cup {l} /\ o.received_levels = r
        /\ o.snapshot_id = b.open.snapshot_id /\ o.anchor_seq = b.open.anchor_seq
        /\ o.total_levels = b.open.total_levels
        /\ o.last_instrument_seq = b.open.last_instrument_seq
        /\ o.over_live_book = b.open.over_live_book
    BY <2>1 DEF Building
  <2>4. /\ c.open = o /\ c.required = b.required /\ c.status = b.status
        /\ c.levels = b.levels /\ c.last = b.last
    BY DEF PriceBookType
  <2>5. o # None
    <3>1. others \cup {l} \in SUBSET Level /\ r \in Nat
      BY <2>2
    <3>2. o \in Building
      BY <2>1, <3>1 DEF Building
    <3> QED BY <3>2, NoneIsNoGroup
  <2>6. b.open.snapshot_id = s /\ OneLevelPerPrice(b.open.levels)
        /\ b.open.received_levels <= Cardinality(b.open.levels)
        /\ b.open.levels \subseteq snaps[s].levels
    BY <1>2 DEF BookInv, OpenInv, PubInv, SnapInv
  <2>7. OneLevelPerPrice(others \cup {l}) /\ r <= Cardinality(others \cup {l})
    BY <2>2, <2>6, ShadowCount
  <2>8. others \cup {l} \subseteq snaps[s].levels
    BY <2>6
  <2> HIDE DEF others, r, o, c
  <2>9. OpenInv(c, h, m)
    BY <1>2, <2>3, <2>4, <2>6, <2>7, <2>8 DEF OpenInv, BookInv
  <2>10. Claims(c) => Matches(c, h)
    BY <1>2, <2>3, <2>4, SameLevelsMatch DEF Claims, BookInv
  <2>11. AnchorInv(c, h, m)
    BY <2>4 DEF AnchorInv, BookInv
  <2> QED BY <1>2, <2>9, <2>10, <2>11 DEF BookInv
<1>3. \/ on_snapshot_level(b, snaps[s].id, l) = b
      \/ /\ b.open # None /\ b.open.snapshot_id = snaps[s].id
         /\ on_snapshot_level(b, snaps[s].id, l) = c
  BY DEF on_snapshot_level
<1> QED BY <1>1, <1>2, <1>3

\* Replay leaves the levels a run of the publisher's own deltas past the base.
LEMMA ReplayRuns ==
  ASSUME TypeOK, NEW b \in PriceBookType, NEW anchor, b.last <= Len(sent)
  PROVE  LET c == replay(b, anchor, sent)
         IN  /\ c.open = b.open /\ c.required = b.required
             /\ \/ c.status = "AwaitingSnapshot"
                \/ /\ c.last \in b.last..Len(sent)
                   /\ c.levels = ApplyRun(b.levels, sent, b.last, c.last)
<1> DEFINE stop == FirstStop(b, anchor, sent)
           ran == [b EXCEPT !.levels = ApplyRun(b.levels, sent, b.last, stop - 1),
                            !.last = stop - 1]
           c == replay(b, anchor, sent)
<1>1. /\ Len(sent) \in Nat /\ DOMAIN sent = 1..Len(sent) /\ b.last \in Nat
  BY WireType, SentIsWire DEF PriceBookType
<1>2. stop \in (b.last + 1)..(Len(sent) + 1)
  BY <1>1, FirstStopType
<1> HIDE DEF stop
<1>3. /\ ran.open = b.open /\ ran.required = b.required /\ ran.last = stop - 1
      /\ ran.levels = ApplyRun(b.levels, sent, b.last, stop - 1)
      /\ DOMAIN ran = DOMAIN b
  BY DEF PriceBookType
<1>4. DOMAIN ran = {"levels", "status", "last", "bound", "required", "open", "pending",
                    "reanchor", "strike"}
  BY <1>3 DEF PriceBookType
<1> HIDE DEF ran
<1>5. \/ c = overflow(ran)
      \/ \E P, st : c = [ran EXCEPT !.pending = P, !.status = st]
  BY DEF replay, ran, stop
<1>6. CASE c = overflow(ran)
  BY <1>3, <1>4, <1>6 DEF overflow
<1>7. CASE \E P, st : c = [ran EXCEPT !.pending = P, !.status = st]
  <2>1. c.last = ran.last /\ c.levels = ran.levels /\ c.open = ran.open
        /\ c.required = ran.required
    <3>1. PICK P, st : c = [ran EXCEPT !.pending = P, !.status = st]
      BY <1>7
    <3> HIDE DEF c
    <3> QED BY <1>4, <3>1
  <2> HIDE DEF c
  <2>2. stop - 1 \in b.last..Len(sent)
    BY <1>1, <1>2
  <2> QED BY <1>3, <2>1, <2>2 DEF c
<1> QED BY <1>5, <1>6, <1>7

\* A group whose count matches holds exactly the levels its rotation captured.
LEMMA CompleteShadow ==
  ASSUME TypeOK, PubInv, NEW b \in PriceBookType, NEW h, NEW m, BookInv(b, h, m),
         b.open # None, b.open.received_levels = b.open.total_levels
  PROVE  b.open.levels = snaps[b.open.snapshot_id].levels
<1> DEFINE s == b.open.snapshot_id
<1>1. /\ s \in DOMAIN snaps /\ b.open.levels \subseteq snaps[s].levels
      /\ b.open.total_levels = Cardinality(snaps[s].levels)
      /\ b.open.received_levels <= Cardinality(b.open.levels)
  BY DEF BookInv, OpenInv, PubInv, SnapInv
<1>2. snaps[s].levels \in SUBSET Level
  BY <1>1, SnapsType DEF SnapType
<1>3. IsFiniteSet(snaps[s].levels) /\ IsFiniteSet(b.open.levels)
  BY <1>1, <1>2, FinitelyManyLevels, FS_Subset
<1>4. Cardinality(b.open.levels) \in Nat /\ Cardinality(snaps[s].levels) \in Nat
  BY <1>3, FS_CardinalityType
<1>5. Cardinality(b.open.levels) <= Cardinality(snaps[s].levels)
  BY <1>1, <1>3, FS_Subset
<1>6. Cardinality(b.open.levels) = Cardinality(snaps[s].levels)
  BY <1>1, <1>4, <1>5
<1> QED BY <1>1, <1>3, <1>6, FS_Subset

\* Installing a complete group and replaying what was buffered leaves the
\* publisher's book at the delta the replay reached.
LEMMA InstallInv ==
  ASSUME TypeOK, PubInv, NEW b \in PriceBookType, NEW h \in DOMAIN epochs,
         NEW m \in DOMAIN snaps, BookInv(b, h, m),
         b.open # None, b.open.received_levels = b.open.total_levels
  PROVE  BookInv(install(b, sent), h, m)
<1> DEFINE s == b.open.snapshot_id
           e == snaps[s].epoch
           a == [b EXCEPT !.levels = b.open.levels, !.last = b.open.last_instrument_seq,
                          !.bound = b.open.bound, !.required = None, !.strike = None,
                          !.status = "Ready", !.open = None]
           c == replay(a, b.open.anchor_seq, sent)
<1>1. /\ s \in DOMAIN snaps /\ b.open.last_instrument_seq = snaps[s].last
      /\ Fifo => s <= m /\ e >= h
      /\ b.open \in Building
  BY DEF BookInv, OpenInv, PriceBookType
<1>2. /\ e \in DOMAIN epochs /\ epochs[e].start <= snaps[s].last /\ snaps[s].last <= Len(sent)
      /\ snaps[s].levels = Truth(e, snaps[s].last)
  BY <1>1 DEF PubInv, SnapInv
<1>3. /\ epochs[e].start \in Nat /\ snaps[s].last \in 0..MaxDeltas /\ snaps[s].last \in Nat
      /\ Len(sent) \in Nat /\ e \in 1..Len(epochs) /\ h \in Nat /\ Len(epochs) \in Nat
  <2>1. snaps[s].last \in 0..MaxDeltas
    BY <1>1, SnapsType DEF SnapType
  <2>2. Len(sent) \in Nat /\ MaxDeltas \in Nat
    BY SentIsWire, WireType, PriceBookConstants
  <2> QED BY <1>2, <2>1, <2>2, EpochsType
<1>4. b.open.levels = Truth(e, snaps[s].last)
  BY <1>2, CompleteShadow
<1>5. /\ a.levels = b.open.levels /\ a.last = snaps[s].last
      /\ a.open = None /\ a.required = None
  BY <1>1 DEF PriceBookType
<1>6. a \in PriceBookType
  <2>1. /\ b.open.last_instrument_seq \in 0..MaxDeltas /\ b.open.levels \in SUBSET Level
        /\ b.open.bound \in Nat
    BY <1>1, <1>3 DEF Building
  <2> QED BY <2>1 DEF PriceBookType, Status
<1> HIDE DEF a
<1>7. /\ c.open = None /\ c.required = None
      /\ \/ c.status = "AwaitingSnapshot"
         \/ /\ c.last \in snaps[s].last..Len(sent)
            /\ c.levels = ApplyRun(a.levels, sent, snaps[s].last, c.last)
  BY <1>2, <1>5, <1>6, ReplayRuns
<1> HIDE DEF c
<1>8. c.status # "AwaitingSnapshot" => Matches(c, h)
  <2> SUFFICES ASSUME c.status # "AwaitingSnapshot" PROVE Matches(c, h)
    OBVIOUS
  <2>1. c.last \in snaps[s].last..Len(sent) /\ c.last \in Nat /\ c.last <= Len(sent)
        /\ epochs[e].start <= c.last
    BY <1>2, <1>3, <1>7
  <2>2. c.levels = Truth(e, c.last)
    BY <1>2, <1>3, <1>4, <1>5, <1>7, <2>1, ApplyRunCompose DEF Truth
  <2>3. e \in (IF Fifo THEN h ELSE 1)..Len(epochs)
    BY <1>1, <1>3
  <2> QED BY <2>1, <2>2, <2>3 DEF Matches
<1>9. OpenInv(c, h, m)
  BY <1>7 DEF OpenInv
<1>10. AnchorInv(c, h, m)
  <2>1. Fifo => snaps[m].epoch >= h
    <3> SUFFICES ASSUME Fifo PROVE snaps[m].epoch >= h
      OBVIOUS
    <3>1. e <= snaps[m].epoch
      BY <1>1 DEF PubInv, SnapInv
    <3>2. snaps[m].epoch \in Nat
      BY SnapsType DEF SnapType
    <3> QED BY <1>1, <1>3, <3>1, <3>2
  <2> QED BY <1>7, <2>1 DEF AnchorInv
<1>11. Claims(c) => Matches(c, h)
  BY <1>8 DEF Claims
<1>12. BookInv(c, h, m)
  BY <1>9, <1>10, <1>11 DEF BookInv
<1> QED BY <1>12 DEF install, c, a

\* `on_snapshot_end' preserves the book's invariant, installed or discarded.
LEMMA OnEndInv ==
  ASSUME TypeOK, PubInv, NEW b \in PriceBookType, NEW h \in DOMAIN epochs,
         NEW m \in DOMAIN snaps, BookInv(b, h, m), NEW anchor, NEW id
  PROVE  BookInv(on_snapshot_end(b, anchor, id, sent), h, m)
<1>1. CASE b.open = None
  BY <1>1 DEF on_snapshot_end
<1>2. CASE /\ b.open # None
           /\ \/ b.open.snapshot_id # id \/ b.open.anchor_seq # anchor
              \/ b.open.received_levels # b.open.total_levels
  <2> DEFINE c == [b EXCEPT !.levels = {}, !.bound = None, !.open = None,
                            !.status = "AwaitingSnapshot"]
  <2>1. c.open = None /\ c.required = b.required /\ c.status = "AwaitingSnapshot"
    BY DEF PriceBookType
  <2>2. on_snapshot_end(b, anchor, id, sent) = c
    BY <1>2 DEF on_snapshot_end
  <2> HIDE DEF c
  <2> QED BY <2>1, <2>2 DEF BookInv, OpenInv, AnchorInv, Claims
<1>3. CASE /\ b.open # None /\ b.open.snapshot_id = id /\ b.open.anchor_seq = anchor
           /\ b.open.received_levels = b.open.total_levels
  <2>1. on_snapshot_end(b, anchor, id, sent) = install(b, sent)
    BY <1>3 DEF on_snapshot_end
  <2> QED BY <1>3, <2>1, InstallInv
<1> QED BY <1>1, <1>2, <1>3

\* `on_instrument_reset' leaves a book that answers to the reset's epoch.
LEMMA OnResetInv ==
  ASSUME TypeOK, PubInv, NEW b \in PriceBookType, NEW h \in DOMAIN epochs,
         NEW n, BookInv(b, h, n), NEW e \in DOMAIN epochs, Fifo => e >= h
  PROVE  BookInv(on_instrument_reset(b, epochs[e].anchor, sent), e, n)
<1> DEFINE A == epochs[e].anchor
           c == on_instrument_reset(b, A, sent)
           keep == b.open # None /\ b.open.anchor_seq >= A
           o == [b.open EXCEPT !.over_live_book = FALSE]
<1>1. A \in Nat /\ e \in Nat
  BY EpochsType
<1>2. /\ c.required = A /\ c.open = (IF keep THEN o ELSE None)
      /\ c.status = IF keep THEN "BuildingSnapshot" ELSE "AwaitingSnapshot"
  BY DEF on_instrument_reset, PriceBookType
<1> HIDE DEF c
<1>3. AnchorInv(c, e, n)
  <2>1. A # None
    BY <1>1, PriceBookConstants
  <2> QED BY <1>2, <2>1 DEF AnchorInv
<1>4. ASSUME ~keep PROVE BookInv(c, e, n)
  BY <1>2, <1>3, <1>4 DEF BookInv, OpenInv, Claims
<1>5. ASSUME keep PROVE BookInv(c, e, n)
  <2>1. b.open \in Building
    BY <1>5 DEF PriceBookType
  <2>2. /\ o.levels = b.open.levels /\ o.received_levels = b.open.received_levels
        /\ o.snapshot_id = b.open.snapshot_id /\ o.anchor_seq = b.open.anchor_seq
        /\ o.total_levels = b.open.total_levels
        /\ o.last_instrument_seq = b.open.last_instrument_seq
        /\ o.over_live_book = FALSE
    BY <2>1 DEF Building
  <2>3. ~Claims(c)
    BY <1>2, <1>5, <2>2 DEF Claims
  <2> DEFINE s == b.open.snapshot_id
  <2>4. s \in DOMAIN snaps /\ b.open.anchor_seq = snaps[s].anchor
    BY <1>5 DEF BookInv, OpenInv
  <2>5. snaps[s].epoch >= e
    <3>1. snaps[s].epoch \in Nat /\ snaps[s].anchor \in Nat
      BY <2>4, SnapsType DEF SnapType
    <3>2. ~(e > snaps[s].epoch)
      BY <1>1, <1>5, <2>4, <3>1 DEF PubInv, SnapInv
    <3> QED BY <1>1, <3>1, <3>2
  <2>6. OpenInv(c, e, n)
    <3> HIDE DEF o, A
    <3> QED BY <1>2, <1>5, <2>2, <2>5 DEF BookInv, OpenInv
  <2> QED BY <1>3, <2>3, <2>6 DEF BookInv
<1> QED BY <1>4, <1>5 DEF c

\* `drop_buffer' claims nothing new.
LEMMA DropBufferInv ==
  ASSUME NEW b \in PriceBookType, NEW h, NEW n, BookInv(b, h, n)
  PROVE  BookInv(drop_buffer(b), h, n)
<1> DEFINE c == drop_buffer(b)
<1>1. c.open = b.open /\ c.required = b.required /\ c.status = "Gap"
  BY DEF drop_buffer, PriceBookType
<1> HIDE DEF c
<1>2. BookInv(c, h, n)
  BY <1>1, SameGroupInv DEF Claims
<1> QED BY <1>2 DEF c

-----------------------------------------------------------------------------
(* The publisher only appends: what was true of its past stays true.       *)

\* The publisher's book is a set of levels.
LEMMA TruthType ==
  ASSUME TypeOK, PubInv, NEW e \in DOMAIN epochs, NEW k \in Nat, k <= Len(sent)
  PROVE  Truth(e, k) \in SUBSET Level
<1>1. epochs[e].base \in SUBSET Level /\ epochs[e].start \in Nat
  BY EpochsType
<1>2. \A i \in (epochs[e].start + 1)..k : sent[i].delta \in BookDelta
  BY <1>1, SentIsWire, WireType
<1> QED BY <1>1, <1>2, ApplyRunType DEF Truth

Grown ==
  /\ Len(sent') \in Nat /\ Len(sent) <= Len(sent')
  /\ \A k \in DOMAIN sent : sent'[k] = sent[k]
  /\ Len(epochs') \in Nat /\ Len(epochs) <= Len(epochs') /\ DOMAIN epochs' = 1..Len(epochs')
  /\ \A e \in DOMAIN epochs : epochs'[e] = epochs[e]
  /\ DOMAIN snaps \subseteq DOMAIN snaps'
  /\ \A s \in DOMAIN snaps : snaps'[s] = snaps[s]

\* What the publisher's book was after delta k does not change afterwards.
LEMMA TruthStable ==
  ASSUME TypeOK, Grown, NEW e \in DOMAIN epochs, NEW k \in Nat, k <= Len(sent)
  PROVE  /\ epochs'[e] = epochs[e]
         /\ ApplyRun(epochs'[e].base, sent', epochs'[e].start, k) = Truth(e, k)
<1>1. epochs'[e] = epochs[e] /\ epochs[e].start \in Nat
  BY EpochsType DEF Grown
<1>2. \A j \in (epochs[e].start + 1)..k : sent'[j] = sent[j]
  <2>1. DOMAIN sent = 1..Len(sent) /\ Len(sent) \in Nat
    BY SentIsWire, WireType
  <2> QED BY <1>1, <2>1 DEF Grown
<1> QED BY <1>1, <1>2, ApplyRunAgrees DEF Truth

\* The book's invariant survives a step of the publisher.
LEMMA BookInvGrown ==
  ASSUME IndInv, Grown, book' = book, heard' = heard, seen' = seen
  PROVE  BookInv(book, heard, seen)'
<1>1. TypeOK /\ PubInv /\ BookInv(book, heard, seen)
  BY DEF IndInv
<1>2. /\ Len(epochs) \in Nat /\ DOMAIN epochs = 1..Len(epochs) /\ heard \in Nat /\ heard >= 1
      /\ Len(sent) \in Nat /\ book.last \in Nat /\ heard \in DOMAIN epochs
  BY <1>1, EpochsType, SentIsWire, WireType DEF TypeOK, PriceBookType
<1>3. (Claims(book) => Matches(book, heard))'
  <2> SUFFICES ASSUME Claims(book)' PROVE Matches(book, heard)'
    OBVIOUS
  <2>1. Matches(book, heard)
    BY <1>1 DEF Claims, BookInv
  <2>2. PICK e \in (IF Fifo THEN heard ELSE 1)..Len(epochs) :
          /\ epochs[e].start <= book.last /\ book.last <= Len(sent)
          /\ book.levels = Truth(e, book.last)
    BY <2>1 DEF Matches
  <2>3. e \in DOMAIN epochs
    BY <1>2, <2>2
  <2>4. /\ epochs'[e] = epochs[e]
        /\ ApplyRun(epochs'[e].base, sent', epochs'[e].start, book.last) = Truth(e, book.last)
    BY <1>1, <1>2, <2>2, <2>3, TruthStable
  <2>5. e \in (IF Fifo THEN heard ELSE 1)..Len(epochs') /\ book.last <= Len(sent')
    BY <1>2, <2>2 DEF Grown
  <2> QED BY <2>2, <2>4, <2>5 DEF Matches, Truth
<1>4. OpenInv(book, heard, seen)'
  BY <1>1 DEF BookInv, OpenInv, Grown
<1>5. AnchorInv(book, heard, seen)'
  BY <1>1, <1>2 DEF BookInv, AnchorInv, Grown
<1> QED BY <1>3, <1>4, <1>5 DEF BookInv

\* What held of a captured rotation survives a step of the publisher.
LEMMA SnapInvGrown ==
  ASSUME IndInv, Grown, chan \in Nat, chan' \in Nat, chan' >= chan,
         NEW s \in DOMAIN snaps,
         \A e \in DOMAIN epochs' \ DOMAIN epochs : epochs'[e].anchor = chan + 1,
         \A t \in DOMAIN snaps' \ DOMAIN snaps : snaps'[t].epoch = Len(epochs)
  PROVE  SnapInv(s)'
<1>1. TypeOK /\ PubInv /\ SnapInv(s)
  BY DEF IndInv, PubInv
<1>2. /\ snaps'[s] = snaps[s] /\ snaps[s] \in SnapType
      /\ Len(sent) \in Nat /\ Len(epochs) \in Nat /\ DOMAIN epochs = 1..Len(epochs)
  BY <1>1, SnapsType, EpochsType, SentIsWire, WireType DEF Grown
<1>3. snaps[s].last \in Nat /\ snaps[s].epoch \in Nat /\ snaps[s].anchor \in Nat
  BY <1>2 DEF SnapType
<1>4. snaps[s].epoch \in DOMAIN epochs /\ snaps[s].last <= Len(sent)
  BY <1>1 DEF SnapInv
<1>5. /\ epochs'[snaps[s].epoch] = epochs[snaps[s].epoch]
      /\ ApplyRun(epochs'[snaps[s].epoch].base, sent', epochs'[snaps[s].epoch].start,
                  snaps[s].last) = Truth(snaps[s].epoch, snaps[s].last)
  BY <1>1, <1>3, <1>4, TruthStable
<1>6. snaps'[s].levels = Truth(snaps[s].epoch, snaps[s].last)'
  BY <1>1, <1>2, <1>5 DEF SnapInv, Truth
<1>7. \A e \in DOMAIN epochs' : e > snaps[s].epoch => snaps[s].anchor < epochs'[e].anchor
  BY <1>1, <1>3 DEF SnapInv, Grown
<1>8. \A t \in DOMAIN snaps' : s <= t => snaps[s].epoch <= snaps'[t].epoch
  BY <1>1, <1>2, <1>3, <1>4 DEF SnapInv, Grown
<1>9. /\ snaps[s].epoch \in DOMAIN epochs' /\ snaps[s].last <= Len(sent')
      /\ snaps[s].anchor <= chan'
  BY <1>1, <1>2, <1>3, <1>4 DEF SnapInv, Grown
<1> QED BY <1>1, <1>2, <1>5, <1>6, <1>7, <1>8, <1>9 DEF SnapInv

-----------------------------------------------------------------------------
(* The publisher's actions.                                                *)

\* PubDelta preserves the invariant.
LEMMA PubDeltaInv ==
  ASSUME IndInv, NEW d \in Deltas, PubDelta(d)
  PROVE  IndInv'
<1> DEFINE M == [mkt : Nat, delta : Deltas]
           x == [mkt |-> chan + 1, delta |-> d]
<1>1. TypeOK /\ PubInv /\ chan \in Nat
  BY DEF IndInv, TypeOK
<1>2. /\ sent' = Append(sent, x) /\ x \in M /\ sent \in Seq(M)
      /\ Len(sent) < MaxDeltas /\ chan' = chan + 1
      /\ UNCHANGED <<book, now, epochs, snaps, session, heard, seen, readyAt, shorts>>
  BY <1>1 DEF PubDelta, TypeOK
<1> HIDE DEF M, x
<1>3. /\ sent' \in Seq(M) /\ Len(sent') = Len(sent) + 1 /\ Len(sent) \in Nat
      /\ \A k \in DOMAIN sent : sent'[k] = sent[k]
  BY <1>2
<1>4. TypeOK'
  <2>1. Len(sent') <= MaxDeltas
    BY <1>2, <1>3, PriceBookConstants
  <2> QED BY <1>1, <1>2, <1>3, <2>1 DEF TypeOK, M
<1>5. Grown
  BY <1>1, <1>2, <1>3, EpochsType DEF Grown
<1>6. PubInv'
  <2>1. \A s \in DOMAIN snaps' : SnapInv(s)'
    BY <1>1, <1>2, <1>5, SnapInvGrown
  <2>2. \A e \in DOMAIN epochs' : epochs'[e].start <= Len(sent') /\ epochs'[e].anchor <= chan'
    BY <1>1, <1>2, <1>3, EpochsType DEF PubInv
  <2> QED BY <2>1, <2>2 DEF PubInv
<1>7. BookInv(book, heard, seen)'
  BY <1>2, <1>5, BookInvGrown
<1> QED BY <1>4, <1>6, <1>7 DEF IndInv

\* PubOther preserves the invariant.
LEMMA PubOtherInv ==
  ASSUME IndInv, PubOther
  PROVE  IndInv'
<1>1. TypeOK /\ PubInv /\ chan \in Nat
  BY DEF IndInv, TypeOK
<1>2. /\ chan' = chan + 1
      /\ UNCHANGED <<book, now, sent, epochs, snaps, session, heard, seen, readyAt, shorts>>
  BY DEF PubOther
<1>3. TypeOK'
  BY <1>1, <1>2 DEF TypeOK
<1>4. Grown
  BY <1>1, <1>2, EpochsType, SentIsWire, WireType DEF Grown
<1>5. PubInv'
  <2>1. \A s \in DOMAIN snaps' : SnapInv(s)'
    BY <1>1, <1>2, <1>4, SnapInvGrown
  <2>2. \A e \in DOMAIN epochs' : epochs'[e].start <= Len(sent') /\ epochs'[e].anchor <= chan'
    BY <1>1, <1>2, EpochsType DEF PubInv
  <2> QED BY <2>1, <2>2 DEF PubInv
<1>6. BookInv(book, heard, seen)'
  BY <1>2, <1>4, BookInvGrown
<1> QED BY <1>3, <1>5, <1>6 DEF IndInv

\* PubSnapshot preserves the invariant: the new rotation is the true book.
LEMMA PubSnapshotInv ==
  ASSUME IndInv, NEW bound \in DepthBounds, PubSnapshot(bound)
  PROVE  IndInv'
<1> DEFINE levels == Truth(Len(epochs), Len(sent))
           x == [id |-> Len(snaps) + 1, anchor |-> chan, total |-> Cardinality(levels),
                 last |-> Len(sent), bound |-> bound, levels |-> levels,
                 epoch |-> Len(epochs)]
           N == Len(snaps) + 1
<1>1. /\ TypeOK /\ PubInv /\ chan \in Nat /\ bound \in Nat
      /\ Len(sent) \in 0..MaxDeltas /\ Len(sent) \in Nat
      /\ Len(epochs) \in Nat /\ DOMAIN epochs = 1..Len(epochs) /\ Len(epochs) \in DOMAIN epochs
      /\ Len(snaps) \in Nat /\ DOMAIN snaps = 1..Len(snaps)
  <2>1. TypeOK /\ PubInv
    BY DEF IndInv
  <2>2. chan \in Nat /\ heard \in DOMAIN epochs
    BY <2>1 DEF TypeOK
  <2>3. Len(sent) \in 0..MaxDeltas /\ MaxDeltas \in Nat
    BY <2>1, SentIsWire, WireType, PriceBookConstants
  <2>4. bound \in Nat
    BY FeedConstants
  <2> QED BY <2>1, <2>2, <2>3, <2>4, EpochsType, SnapsType
<1>2. levels \in SUBSET Level /\ Cardinality(levels) \in Nat
  <2>1. levels \in SUBSET Level
    BY <1>1, TruthType
  <2> QED BY <2>1, FinitelyManyLevels, FS_Subset, FS_CardinalityType
<1>3. /\ snaps' = Append(snaps, x) /\ snaps \in Seq(SnapType)
      /\ UNCHANGED <<book, now, sent, chan, epochs, session, heard, seen, readyAt, shorts>>
  BY <1>1 DEF PubSnapshot, TypeOK, SnapType
<1>4. x \in SnapType
  BY <1>1, <1>2 DEF SnapType
<1>5. /\ x.id = N /\ x.anchor = chan /\ x.total = Cardinality(levels) /\ x.last = Len(sent)
      /\ x.levels = levels /\ x.epoch = Len(epochs)
  OBVIOUS
<1> HIDE DEF x, levels
<1>6. /\ snaps' \in Seq(SnapType) /\ Len(snaps') = N /\ DOMAIN snaps' = 1..N
      /\ snaps'[N] = x /\ \A s \in DOMAIN snaps : snaps'[s] = snaps[s]
  BY <1>3, <1>4
<1>7. TypeOK'
  <2>1. seen' \in 0..Len(snaps')
    BY <1>1, <1>3, <1>6 DEF TypeOK
  <2> QED BY <1>1, <1>3, <1>6, <2>1 DEF TypeOK, SnapType
<1>8. Grown
  BY <1>1, <1>3, <1>6 DEF Grown
<1>9. PubInv'
  <2>1. \A s \in DOMAIN snaps : SnapInv(s)'
    <3>1. \A e \in DOMAIN epochs' \ DOMAIN epochs : epochs'[e].anchor = chan + 1
      BY <1>3
    <3>2. \A t \in DOMAIN snaps' \ DOMAIN snaps : snaps'[t].epoch = Len(epochs)
      BY <1>1, <1>5, <1>6
    <3> QED BY <1>1, <1>3, <1>8, <3>1, <3>2, SnapInvGrown
  <2>2. ASSUME NEW s \in DOMAIN snaps', s = N
        PROVE  SnapInv(s)'
    <3>1. epochs[Len(epochs)].start <= Len(sent)
      BY <1>1 DEF PubInv
    <3>2. levels = Truth(Len(epochs), Len(sent))'
      BY <1>3 DEF levels, Truth
    <3>3. \A t \in DOMAIN snaps' : s <= t => t = s
      BY <1>1, <1>6, <2>2
    <3>4. snaps'[s] = x
      BY <1>6, <2>2
    <3>5. snaps'[s].levels = Truth(snaps[s].epoch, snaps[s].last)'
      BY <1>3, <1>5, <3>2, <3>4 DEF Truth
    <3> QED BY <1>1, <1>2, <1>3, <1>5, <2>2, <3>1, <3>3, <3>4, <3>5 DEF SnapInv
  <2>3. \A s \in DOMAIN snaps' : s \in DOMAIN snaps \/ s = N
    BY <1>1, <1>6
  <2> QED BY <1>1, <1>3, <2>1, <2>2, <2>3 DEF PubInv
<1>10. BookInv(book, heard, seen)'
  BY <1>3, <1>8, BookInvGrown
<1> QED BY <1>7, <1>9, <1>10 DEF IndInv

\* PubReset preserves the invariant: older rotations are anchored before it.
LEMMA PubResetInv ==
  ASSUME IndInv, NEW base \in ResetBooks, PubReset(base)
  PROVE  IndInv'
<1> DEFINE M == [base : SUBSET Level, start : Nat, anchor : Nat]
           x == [base |-> base, start |-> Len(sent), anchor |-> chan + 1]
           N == Len(epochs) + 1
<1>1. /\ TypeOK /\ PubInv /\ chan \in Nat /\ base \in SUBSET Level /\ Len(sent) \in Nat
      /\ Len(epochs) \in Nat /\ DOMAIN epochs = 1..Len(epochs)
  BY EpochsType, SentIsWire, WireType, FeedConstants DEF IndInv, TypeOK
<1>2. /\ epochs' = Append(epochs, x) /\ x \in M /\ epochs \in Seq(M) /\ chan' = chan + 1
      /\ UNCHANGED <<book, now, sent, snaps, session, heard, seen, readyAt, shorts>>
  BY <1>1 DEF PubReset, TypeOK
<1>3. x.start = Len(sent) /\ x.anchor = chan + 1
  OBVIOUS
<1> HIDE DEF M, x
<1>4. /\ epochs' \in Seq(M) /\ Len(epochs') = N /\ DOMAIN epochs' = 1..N
      /\ epochs'[N] = x /\ \A e \in DOMAIN epochs : epochs'[e] = epochs[e]
  BY <1>2
<1>5. TypeOK'
  <2>1. heard' \in DOMAIN epochs'
    BY <1>1, <1>2, <1>4 DEF TypeOK
  <2>2. epochs' \in Seq([base : SUBSET Level, start : Nat, anchor : Nat]) /\ chan' \in Nat
    BY <1>1, <1>2, <1>4 DEF M
  <2>3. UNCHANGED <<book, now, sent, snaps, session, seen, readyAt, shorts>>
    BY <1>2
  <2> QED BY ONLY <1>1, <2>1, <2>2, <2>3 DEF TypeOK
<1>6. Grown
  BY <1>1, <1>2, <1>4 DEF Grown
<1>7. PubInv'
  <2>1. \A s \in DOMAIN snaps' : SnapInv(s)'
    <3>1. \A e \in DOMAIN epochs' \ DOMAIN epochs : epochs'[e].anchor = chan + 1
      BY <1>1, <1>3, <1>4
    <3> QED BY <1>1, <1>2, <1>6, <3>1, SnapInvGrown
  <2>2. \A e \in DOMAIN epochs : epochs[e].start <= Len(sent) /\ epochs[e].anchor <= chan'
    BY <1>1, <1>2, EpochsType DEF PubInv
  <2>3. \A e \in DOMAIN epochs' : epochs'[e].start <= Len(sent') /\ epochs'[e].anchor <= chan'
    BY <1>1, <1>2, <1>3, <1>4, <2>2
  <2> QED BY <2>1, <2>3 DEF PubInv
<1>8. BookInv(book, heard, seen)'
  BY <1>2, <1>6, BookInvGrown
<1> QED BY <1>5, <1>7, <1>8 DEF IndInv

-----------------------------------------------------------------------------
(* Arrivals leave the publisher alone.                                     *)

\* A step of the book alone leaves the publisher's part of the invariant.
LEMMA ArrivalInv ==
  ASSUME IndInv, UNCHANGED pub, TypeOK', BookInv(book', heard', seen')
  PROVE  IndInv'
<1>1. sent' = sent /\ chan' = chan /\ epochs' = epochs /\ snaps' = snaps
  BY DEF pub
<1>2. PubInv'
  BY <1>1 DEF IndInv, PubInv, SnapInv, Truth
<1>3. BookInv(book, heard, seen)'
  BY <1>1 DEF BookInv, OpenInv, AnchorInv, Claims, Matches, Truth
<1> QED BY <1>2, <1>3 DEF IndInv

\* The empty sequence is a sequence over any set.
LEMMA EmptySeq == \A S : <<>> \in Seq(S)
OBVIOUS

\* The history of when the book was Ready is a time.
LEMMA MarkType == TypeOK /\ Mark => readyAt' \in Nat
BY DEF TypeOK, Mark

\* The parts of the invariant the steps of NextInv use.
LEMMA Facts ==
  ASSUME IndInv
  PROVE  /\ TypeOK /\ PubInv /\ BookInv(book, heard, seen) /\ IsWire(sent)
         /\ book \in PriceBookType /\ heard \in DOMAIN epochs /\ seen \in 0..Len(snaps)
         /\ now \in Nat
BY SentIsWire DEF IndInv, TypeOK

\* Every step of the feed preserves the inductive invariant: one step per
\* action.
LEMMA NextInv == IndInv /\ [Next]_vars => IndInv'
<1> SUFFICES ASSUME IndInv, [Next]_vars PROVE IndInv'
  OBVIOUS
<1>1. ASSUME NEW d \in Deltas, PubDelta(d) PROVE IndInv'
  BY <1>1, PubDeltaInv
<1>2. CASE PubOther
  BY <1>2, PubOtherInv
<1>3. ASSUME NEW n \in DepthBounds, PubSnapshot(n) PROVE IndInv'
  BY <1>3, PubSnapshotInv
<1>4. ASSUME NEW B \in ResetBooks, PubReset(B) PROVE IndInv'
  BY <1>4, PubResetInv
<1>5. ASSUME NEW k \in DOMAIN sent, OnDelta(k) PROVE IndInv'
  <2>1. book' = on_delta(book, k, sent) /\ UNCHANGED <<now, heard, seen, shorts, pub>> /\ Mark
    BY <1>5 DEF OnDelta
  <2>2. book' \in PriceBookType /\ BookInv(book', heard, seen)
    BY <2>1, Facts, OnDeltaType, OnDeltaInv
  <2>3. TypeOK'
    BY <2>1, <2>2, Facts, MarkType DEF TypeOK, pub
  <2> QED BY <2>1, <2>2, <2>3, ArrivalInv
<1>6. ASSUME NEW s \in DOMAIN snaps, InOrder(s), Noticed(s), UNCHANGED <<now, heard, pub>>,
             book' \in PriceBookType, shorts' \subseteq Nat, Mark,
             ASSUME seen' \in DOMAIN snaps, Fifo => seen' = s, BookInv(book, heard, seen')
             PROVE  BookInv(book', heard, seen')
      PROVE  IndInv'
  <2>1. seen' \in DOMAIN snaps /\ (Fifo => seen' = s) /\ BookInv(book, heard, seen')
    <3>1. Fifo => s >= seen
      BY <1>6 DEF InOrder
    <3>2. seen' = IF s > seen THEN s ELSE seen
      BY <1>6 DEF Noticed
    <3> QED BY <3>1, <3>2, Facts, SeenInv
  <2>2. BookInv(book', heard', seen')
    BY <1>6, <2>1
  <2>3. TypeOK'
    <3>1. seen' \in 0..Len(snaps)
      BY <2>1, Facts, SnapsType
    <3> QED BY <1>6, <3>1, Facts, MarkType DEF TypeOK, pub
  <2> QED BY <1>6, <2>2, <2>3, ArrivalInv
<1>7. ASSUME NEW s \in DOMAIN snaps, OnBegin(s) PROVE IndInv'
  <2>1. /\ book' = on_snapshot_begin(book, snaps[s], now) /\ InOrder(s) /\ Noticed(s)
        /\ UNCHANGED <<now, heard, pub>> /\ Mark
    BY <1>7 DEF OnBegin
  <2>2. book' \in PriceBookType
    BY <2>1, Facts, SnapsType, BeginType
  <2>3. shorts' \subseteq Nat
    <3>1. shorts \subseteq Nat
      BY Facts, Zenon DEF TypeOK
    <3>2. s \in Nat
      BY Facts, SnapsType
    <3>3. shorts' \in {shorts \cup {s}, {}, shorts}
      BY <1>7 DEF OnBegin
    <3> QED BY <3>1, <3>2, <3>3
  <2>4. ASSUME seen' \in DOMAIN snaps, Fifo => seen' = s, BookInv(book, heard, seen')
        PROVE  BookInv(book', heard, seen')
    BY <2>1, <2>4, Facts, OnBeginInv
  <2> QED BY <1>6, <2>1, <2>2, <2>3, <2>4
<1>8. ASSUME NEW s \in DOMAIN snaps, NEW l \in snaps[s].levels, OnLevel(s, l) PROVE IndInv'
  <2>1. /\ book' = on_snapshot_level(book, snaps[s].id, l) /\ InOrder(s) /\ Noticed(s)
        /\ UNCHANGED <<now, heard, shorts, pub>> /\ Mark
    BY <1>8 DEF OnLevel
  <2>2. book' \in PriceBookType
    <3>1. l \in Level
      BY Facts, SnapsType DEF SnapType
    <3> QED BY <2>1, <3>1, Facts, LevelType
  <2>3. shorts' \subseteq Nat
    BY <2>1, Facts DEF TypeOK
  <2>4. ASSUME seen' \in DOMAIN snaps, Fifo => seen' = s, BookInv(book, heard, seen')
        PROVE  BookInv(book', heard, seen')
    BY <2>1, <2>4, Facts, OnLevelInv
  <2> QED BY <1>6, <2>1, <2>2, <2>3, <2>4
<1>9. ASSUME NEW s \in DOMAIN snaps, OnEnd(s) PROVE IndInv'
  <2>1. /\ book' = on_snapshot_end(book, snaps[s].anchor, snaps[s].id, sent)
        /\ InOrder(s) /\ Noticed(s) /\ UNCHANGED <<now, heard, pub>> /\ Mark
    BY <1>9 DEF OnEnd
  <2>2. book' \in PriceBookType
    <3>1. book.open # None => book.open.last_instrument_seq <= Len(sent)
      BY Facts DEF BookInv, OpenInv, PubInv, SnapInv
    <3> QED BY <2>1, <3>1, Facts, EndType
  <2>3. shorts' \subseteq Nat
    BY <1>9, Facts DEF OnEnd, TypeOK
  <2>4. ASSUME seen' \in DOMAIN snaps, Fifo => seen' = s, BookInv(book, heard, seen')
        PROVE  BookInv(book', heard, seen')
    BY <2>1, <2>4, Facts, OnEndInv
  <2> QED BY <1>6, <2>1, <2>2, <2>3, <2>4
<1>10. ASSUME NEW e \in 2..Len(epochs), OnReset(e) PROVE IndInv'
  <2>1. /\ book' = on_instrument_reset(book, epochs[e].anchor, sent) /\ heard' = e
        /\ Fifo => e >= heard
        /\ UNCHANGED <<now, seen, shorts, pub>> /\ Mark
    BY <1>10 DEF OnReset
  <2>2. e \in DOMAIN epochs /\ epochs[e].anchor \in Nat
    BY Facts, EpochsType
  <2>3. book' \in PriceBookType /\ BookInv(book', heard', seen)
    BY <2>1, <2>2, Facts, ResetType, OnResetInv
  <2>4. TypeOK'
    BY <2>1, <2>2, <2>3, Facts, MarkType DEF TypeOK, pub
  <2> QED BY <2>1, <2>3, <2>4, ArrivalInv
<1>11. CASE DropBuffer
  <2>1. book' = drop_buffer(book) /\ UNCHANGED <<now, heard, seen, shorts, pub>> /\ Mark
    BY <1>11 DEF DropBuffer
  <2>2. book' \in PriceBookType /\ BookInv(book', heard, seen)
    BY <2>1, Facts, DropBufferType, DropBufferInv
  <2>3. TypeOK'
    BY <2>1, <2>2, Facts, MarkType DEF TypeOK, pub
  <2> QED BY <2>1, <2>2, <2>3, ArrivalInv
<1>12. CASE EndOfSession
  <2>1. /\ book' = on_end_of_session(book) /\ sent' = <<>> /\ epochs' = <<FirstEpoch>>
        /\ snaps' = <<>> /\ heard' = 1 /\ seen' = 0 /\ chan' = 0 /\ session' = session + 1
        /\ UNCHANGED <<now, shorts>> /\ Mark
    BY <1>12 DEF EndOfSession
  <2>2. book' \in PriceBookType
    BY <2>1, Facts, SessionType
  <2>3. book'.open = None /\ book'.required = None /\ book'.status = "AwaitingSnapshot"
    BY <2>1, Facts DEF on_end_of_session, PriceBookType
  <2>4. TypeOK'
    <3>1. Len(sent') <= MaxDeltas /\ seen' \in 0..Len(snaps')
      BY <2>1, PriceBookConstants
    <3>2. epochs' \in Seq([base : SUBSET Level, start : Nat, anchor : Nat])
          /\ heard' \in DOMAIN epochs'
      BY <2>1 DEF FirstEpoch
    <3>3. now' \in Nat /\ readyAt' \in Nat /\ chan' \in Nat /\ session' \in Nat
          /\ shorts' \subseteq Nat
      BY <2>1, Facts, MarkType DEF TypeOK
    <3>4. /\ sent' \in Seq([mkt : Nat, delta : Deltas])
          /\ snaps' \in Seq([id : Nat, anchor : Nat, total : Nat, last : 0..MaxDeltas,
                              bound : Nat, levels : SUBSET Level, epoch : Nat])
      BY <2>1, EmptySeq
    <3> QED BY <2>2, <3>1, <3>2, <3>3, <3>4 DEF TypeOK
  <2>5. PubInv'
    BY <2>1 DEF PubInv, FirstEpoch
  <2>6. BookInv(book, heard, seen)'
    BY <2>1, <2>3 DEF BookInv, OpenInv, AnchorInv, Claims
  <2> QED BY <2>4, <2>5, <2>6 DEF IndInv
<1>13. CASE Tick
  <2>1. /\ now' = now + 1 /\ UNCHANGED <<book, heard, seen, shorts, pub>>
        /\ readyAt' = IF book.status = "Ready" THEN now + 1 ELSE readyAt
    BY <1>13 DEF Tick
  <2>2. TypeOK'
    BY <2>1, Facts DEF TypeOK, pub
  <2> QED BY <2>1, <2>2, Facts, ArrivalInv
<1>14. CASE UNCHANGED vars
  <2>1. TypeOK'
    BY <1>14, Facts DEF TypeOK, vars
  <2> QED BY <1>14, <2>1, Facts, ArrivalInv DEF vars, pub
<1> QED BY <1>1, <1>2, <1>3, <1>4, <1>5, <1>7, <1>8, <1>9, <1>10, <1>11, <1>12, <1>13, <1>14
        DEF Next

\* The invariant holds of the new book before anything is published.
LEMMA InitInv == Init => IndInv
<1> SUFFICES ASSUME Init PROVE IndInv
  OBVIOUS
<1>1. book \in PriceBookType /\ book.open = None /\ book.required = None
      /\ book.status = "AwaitingSnapshot"
  BY NoPendingType, ZeroSeq DEF Init, new, PriceBookType, Status
<1>2. TypeOK
  <2>1. Len(sent) <= MaxDeltas /\ seen \in 0..Len(snaps)
    BY PriceBookConstants DEF Init
  <2>2. epochs \in Seq([base : SUBSET Level, start : Nat, anchor : Nat])
        /\ heard \in DOMAIN epochs
    BY DEF Init, FirstEpoch
  <2> QED BY <1>1, <2>1, <2>2 DEF Init, TypeOK
<1>3. PubInv
  BY DEF Init, PubInv, FirstEpoch
<1>4. BookInv(book, heard, seen)
  BY <1>1 DEF Init, BookInv, OpenInv, AnchorInv, Claims
<1> QED BY <1>2, <1>3, <1>4 DEF IndInv

\* The inductive invariant holds of every reachable state: what the
\* publisher, the open group and the served levels keep true together.
THEOREM Invariance == Spec => []IndInv
BY InitInv, NextInv, PTL DEF Spec

\* Type correctness of the feed and of the book of pricebook.rs.
THEOREM TypeCorrect == Spec => []TypeOK
<1>1. IndInv => TypeOK
  BY DEF IndInv
<1> QED BY <1>1, Invariance, PTL

(***************************************************************************)
(* For every price, quantity and delta alphabet, every cap, every number   *)
(* of deltas, rotations and resets, and every loss, duplication and        *)
(* reordering: a book reported as served is the publisher's book.          *)
(***************************************************************************)
THEOREM Served == Spec => []ServedIsTruth
<1>1. IndInv => ServedIsTruth
  <2> SUFFICES ASSUME IndInv, serves_a_book(book, now)
               PROVE  \E e \in (IF Fifo THEN heard ELSE 1)..Len(epochs) :
                        epochs[e].start <= book.last /\ book.levels = Truth(e, book.last)
    BY DEF ServedIsTruth
  <2>1. Claims(book)
    BY DEF serves_a_book, Claims
  <2> QED BY <2>1 DEF IndInv, BookInv, Matches
<1> QED BY <1>1, Invariance, PTL

-----------------------------------------------------------------------------
(* How long a rebuild claims the live book, and who re-anchors it.         *)

\* A rotation assembles over a live book.
Over(b) == b.status = "BuildingSnapshot" /\ b.open # None /\ b.open.over_live_book

\* No group is open while the book can publish.
Closed(b) == b.status = "Ready" => b.open = None

\* A method leaves c of the book b at time t: a rebuild over a live book is the one b was in, or
\* starts its clock now from a book that could publish.
Chained(b, c, t) ==
  Over(c) => \/ Over(b) /\ c.open.serving_since_ns = b.open.serving_since_ns
             \/ b.status = "Ready" /\ c.open.serving_since_ns = t

\* A method neither re-anchors nor strikes.
Calm(b, c) == c.reanchor = b.reanchor /\ c.strike \in {None, b.strike}

Modest(b, c, t) == Closed(c) /\ Chained(b, c, t) /\ Calm(b, c)

\* A method that leaves the open group, and at most gives up the status, is modest.
LEMMA SameGroupModest ==
  ASSUME NEW b, NEW c, NEW t, Closed(b), c.open = b.open, c.status \in {b.status, "Gap", "AwaitingSnapshot"},
         c.reanchor = b.reanchor, c.strike = b.strike
  PROVE  Modest(b, c, t)
BY DEF Modest, Closed, Chained, Over, Calm

\* `on_delta' opens no group.
LEMMA OnDeltaModest ==
  ASSUME NEW b \in PriceBookType, Closed(b), NEW w, NEW k \in Nat, NEW t
  PROVE  Modest(b, on_delta(b, k, w), t)
<1>1. Modest(b, b, t)
  BY SameGroupModest
<1>2. Modest(b, buffer(b, k), t)
  <2> DEFINE p == [b.pending EXCEPT ![k] = @ + 1]
             x == [b EXCEPT !.pending = p]
             y == [b EXCEPT !.pending = NoPending, !.status = "Gap"]
  <2>1. Modest(b, x, t)
    <3> HIDE DEF p
    <3>1. x.open = b.open /\ x.status = b.status /\ x.reanchor = b.reanchor /\ x.strike = b.strike
      BY DEF PriceBookType
    <3> HIDE DEF x
    <3> QED BY <3>1, SameGroupModest
  <2>2. Modest(b, y, t)
    <3>1. y.open = b.open /\ y.status = "Gap" /\ y.reanchor = b.reanchor /\ y.strike = b.strike
      BY DEF PriceBookType
    <3> HIDE DEF y
    <3> QED BY <3>1, SameGroupModest
  <2> QED BY <2>1, <2>2 DEF buffer
<1>3. Modest(b, apply(b, k, w), t)
  <2> DEFINE L == ApplyLevels(b.levels, w[k].delta)
             x == [b EXCEPT !.levels = L, !.last = k]
             y == overflow(b)
  <2>1. Modest(b, x, t)
    <3> HIDE DEF L
    <3>1. x.open = b.open /\ x.status = b.status /\ x.reanchor = b.reanchor /\ x.strike = b.strike
      BY DEF PriceBookType
    <3> HIDE DEF x
    <3> QED BY <3>1, SameGroupModest
  <2>2. Modest(b, y, t)
    <3>1. /\ y.open = b.open /\ y.status = "AwaitingSnapshot" /\ y.reanchor = b.reanchor
          /\ y.strike = b.strike
      BY DEF PriceBookType, overflow
    <3> HIDE DEF y
    <3> QED BY <3>1, SameGroupModest
  <2> QED BY <2>1, <2>2 DEF apply
<1>4. Modest(b, [b EXCEPT !.status = "Gap", !.pending = [NoPending EXCEPT ![k] = 1]], t)
  <2> DEFINE p == [NoPending EXCEPT ![k] = 1]
             x == [b EXCEPT !.status = "Gap", !.pending = p]
  <2> HIDE DEF p
  <2>1. x.open = b.open /\ x.status = "Gap" /\ x.reanchor = b.reanchor /\ x.strike = b.strike
    BY DEF PriceBookType
  <2> HIDE DEF x
  <2>2. Modest(b, x, t)
    BY <2>1, SameGroupModest
  <2> QED BY <2>2 DEF x, p
<1>5. \/ b.status # "Ready" \/ (b.status = "Ready" /\ k <= b.last)
      \/ (b.status = "Ready" /\ k > b.last + 1) \/ (b.status = "Ready" /\ k = b.last + 1)
  BY DEF PriceBookType
<1> QED BY <1>1, <1>2, <1>3, <1>4, <1>5 DEF on_delta

\* `replay' leaves the group and the strikes alone.
LEMMA ReplayFields ==
  ASSUME NEW b \in PriceBookType, NEW w, NEW anchor, NEW c, c = replay(b, anchor, w)
  PROVE  c.open = b.open /\ c.reanchor = b.reanchor /\ c.strike = b.strike
<1> DEFINE stop == FirstStop(b, anchor, w)
           L == ApplyRun(b.levels, w, b.last, stop - 1)
           l == stop - 1
           ran == [b EXCEPT !.levels = L, !.last = l]
           P == [k \in Seqs |-> IF k > stop /\ Kept(b, k, anchor, w) THEN b.pending[k] ELSE 0]
           st == IF \E k \in Seqs : k > stop /\ Kept(b, k, anchor, w) THEN "Gap" ELSE "Ready"
<1>1. c = IF Kept(b, stop, anchor, w) THEN overflow(ran) ELSE [ran EXCEPT !.pending = P, !.status = st]
  BY Zenon DEF replay
<1> HIDE DEF stop, L, l, P, st
<1>2. /\ ran.open = b.open /\ ran.reanchor = b.reanchor /\ ran.strike = b.strike
      /\ DOMAIN ran = DOMAIN b
  BY DEF PriceBookType
<1>3. DOMAIN b = {"levels", "status", "last", "bound", "required", "open", "pending", "reanchor", "strike"}
  BY DEF PriceBookType
<1> HIDE DEF ran
<1>4. CASE Kept(b, stop, anchor, w)
  <2>1. c = [ran EXCEPT !.levels = {}, !.pending = NoPending, !.status = "AwaitingSnapshot"]
    BY <1>1, <1>4 DEF overflow
  <2> QED BY <1>2, <1>3, <2>1
<1>5. CASE ~Kept(b, stop, anchor, w)
  <2>1. c = [ran EXCEPT !.pending = P, !.status = st]
    BY <1>1, <1>5
  <2> QED BY <1>2, <1>3, <2>1
<1> QED BY <1>4, <1>5

\* `on_snapshot_level' goes on with the group it finds.
LEMMA LevelModest ==
  ASSUME NEW b \in PriceBookType, Closed(b), NEW id, NEW l, NEW t
  PROVE  Modest(b, on_snapshot_level(b, id, l), t)
<1> DEFINE others == {x \in b.open.levels : <<x.side, x.price>> # <<l.side, l.price>>}
           n == others \cup {l}
           r == IF others = b.open.levels THEN b.open.received_levels + 1 ELSE b.open.received_levels
           o == [b.open EXCEPT !.levels = n, !.received_levels = r]
           c == [b EXCEPT !.open = o]
<1>1. CASE b.open = None \/ b.open.snapshot_id # id \/ Cardinality(b.open.levels) >= MAX_LEVELS_PER_BOOK
  <2>1. on_snapshot_level(b, id, l) = b
    BY <1>1 DEF on_snapshot_level
  <2> QED BY <2>1, SameGroupModest
<1>2. CASE ~(b.open = None \/ b.open.snapshot_id # id \/ Cardinality(b.open.levels) >= MAX_LEVELS_PER_BOOK)
  <2>1. on_snapshot_level(b, id, l) = c
    BY <1>2 DEF on_snapshot_level
  <2>2. b.open \in Building /\ b.status # "Ready"
    BY <1>2 DEF PriceBookType, Closed
  <2> HIDE DEF n, r
  <2>3. o.over_live_book = b.open.over_live_book /\ o.serving_since_ns = b.open.serving_since_ns
    BY <2>2 DEF Building
  <2> HIDE DEF o
  <2>4. c.open = o /\ c.status = b.status /\ c.reanchor = b.reanchor /\ c.strike = b.strike
    BY DEF PriceBookType
  <2> HIDE DEF c
  <2>5. Modest(b, c, t)
    BY <1>2, <2>2, <2>3, <2>4 DEF Modest, Closed, Chained, Over, Calm
  <2> QED BY <2>1, <2>5
<1> QED BY <1>1, <1>2

\* `on_snapshot_end' closes the group.
LEMMA EndModest ==
  ASSUME NEW b \in PriceBookType, Closed(b), NEW w, IsWire(w), NEW anchor, NEW id, NEW t,
         b.open # None => b.open.last_instrument_seq <= Len(w)
  PROVE  Modest(b, on_snapshot_end(b, anchor, id, w), t)
<1>1. CASE b.open = None
  <2>1. on_snapshot_end(b, anchor, id, w) = b
    BY <1>1 DEF on_snapshot_end
  <2> QED BY <2>1, SameGroupModest
<1>2. CASE /\ b.open # None
           /\ \/ b.open.snapshot_id # id \/ b.open.anchor_seq # anchor
              \/ b.open.received_levels # b.open.total_levels
  <2> DEFINE c == [b EXCEPT !.levels = {}, !.bound = None, !.open = None,
                            !.status = "AwaitingSnapshot"]
  <2>1. c.open = None /\ c.reanchor = b.reanchor /\ c.strike = b.strike
    BY DEF PriceBookType
  <2>2. on_snapshot_end(b, anchor, id, w) = c
    BY <1>2 DEF on_snapshot_end
  <2> HIDE DEF c
  <2> QED BY <2>1, <2>2 DEF Modest, Closed, Chained, Over, Calm
<1>3. CASE ~(\/ b.open = None \/ b.open.snapshot_id # id \/ b.open.anchor_seq # anchor
             \/ b.open.received_levels # b.open.total_levels)
  <2>1. b.open \in Building
    BY <1>3 DEF PriceBookType
  <2> DEFINE a == [b EXCEPT !.levels = b.open.levels, !.last = b.open.last_instrument_seq,
                            !.bound = b.open.bound, !.required = None, !.strike = None,
                            !.status = "Ready", !.open = None]
             c == replay(a, b.open.anchor_seq, w)
  <2>2. on_snapshot_end(b, anchor, id, w) = c
    BY <1>3 DEF on_snapshot_end, install
  <2>3. a \in PriceBookType /\ a.open = None /\ a.strike = None /\ a.reanchor = b.reanchor
    <3>1. b.open.last_instrument_seq \in 0..MaxDeltas
      BY <1>3, <2>1, WireType, PriceBookConstants DEF Building
    <3>2. b.open.levels \in SUBSET Level /\ b.open.bound \in Nat
      BY <2>1 DEF Building
    <3> QED BY <3>1, <3>2 DEF PriceBookType, Status
  <2> HIDE DEF a
  <2>4. c.open = None /\ c.strike = None /\ c.reanchor = b.reanchor
    BY <2>3, ReplayFields
  <2> HIDE DEF c
  <2> QED BY <2>2, <2>4 DEF Modest, Closed, Chained, Over, Calm
<1> QED BY <1>1, <1>2, <1>3

\* `on_instrument_reset' keeps a group only as a cold rebuild.
LEMMA ResetModest ==
  ASSUME NEW b \in PriceBookType, NEW anchor, NEW w, NEW t
  PROVE  Modest(b, on_instrument_reset(b, anchor, w), t)
<1> DEFINE keep == b.open # None /\ b.open.anchor_seq >= anchor
           o == IF keep THEN [b.open EXCEPT !.over_live_book = FALSE] ELSE None
           P == [k \in Seqs |-> IF k \in DOMAIN w /\ w[k].mkt > anchor THEN b.pending[k] ELSE 0]
           st == IF keep THEN "BuildingSnapshot" ELSE "AwaitingSnapshot"
           c == [b EXCEPT !.levels = {}, !.last = 0, !.bound = None, !.required = anchor,
                          !.open = o, !.pending = P, !.status = st]
<1>1. on_instrument_reset(b, anchor, w) = c
  BY Zenon DEF on_instrument_reset
<1>2. st # "Ready" /\ (o # None => ~o.over_live_book)
  BY DEF PriceBookType, Building
<1> HIDE DEF o, P, st
<1>3. c.open = o /\ c.status = st /\ c.reanchor = b.reanchor /\ c.strike = b.strike
  BY DEF PriceBookType
<1> HIDE DEF c
<1>4. Modest(b, c, t)
  BY <1>2, <1>3 DEF Modest, Closed, Chained, Over, Calm
<1> QED BY <1>1, <1>4

\* `drop_buffer' and `on_end_of_session' open nothing.
LEMMA DropModest ==
  ASSUME NEW b \in PriceBookType, Closed(b), NEW t
  PROVE  Modest(b, drop_buffer(b), t) /\ Modest(b, on_end_of_session(b), t)
<1> DEFINE c == drop_buffer(b)
           d == on_end_of_session(b)
<1>1. c.open = b.open /\ c.status = "Gap" /\ c.reanchor = b.reanchor /\ c.strike = b.strike
  BY DEF drop_buffer, PriceBookType
<1>2. /\ d.open = None /\ d.status = "AwaitingSnapshot" /\ d.reanchor = b.reanchor
      /\ d.strike = b.strike
  BY DEF on_end_of_session, PriceBookType
<1> HIDE DEF c, d
<1>3. Modest(b, c, t)
  BY <1>1, SameGroupModest
<1>4. Modest(b, d, t)
  BY <1>2 DEF Modest, Closed, Chained, Over, Calm
<1> QED BY <1>3, <1>4 DEF c, d

\* The accepting path of `on_snapshot_begin' inherits the clock, or starts it on a Ready book.
LEMMA AcceptChained ==
  ASSUME NEW b \in PriceBookType, Closed(b), NEW s \in SnapType, NEW t \in Nat
  PROVE  Closed(accept(b, s, t)) /\ Chained(b, accept(b, s, t), t) /\ Calm(b, accept(b, s, t))
<1> DEFINE over == serves_a_book(b, t)
           since == IF over /\ b.open # None THEN b.open.serving_since_ns ELSE t
           o == [snapshot_id |-> s.id, anchor_seq |-> s.anchor, total_levels |-> s.total,
                 received_levels |-> 0, last_instrument_seq |-> s.last, bound |-> s.bound,
                 over_live_book |-> over, serving_since_ns |-> since, levels |-> {}]
           c == [b EXCEPT !.status = "BuildingSnapshot", !.open = o]
<1>1. accept(b, s, t) = c
  BY Zenon DEF accept
<1>2. over => (b.status = "Ready" /\ b.open = None) \/ Over(b)
  BY DEF serves_a_book, Over, Closed
<1>3. over => (b.status = "Ready" /\ since = t) \/ (Over(b) /\ since = b.open.serving_since_ns)
  BY <1>2 DEF Over
<1> HIDE DEF over, since
<1>4. o.over_live_book = over /\ o.serving_since_ns = since
  OBVIOUS
<1> HIDE DEF o
<1>5. /\ c.open = o /\ c.status = "BuildingSnapshot" /\ c.reanchor = b.reanchor
      /\ c.strike = b.strike
  BY DEF PriceBookType
<1> HIDE DEF c
<1>6. Closed(c) /\ Calm(b, c)
  BY <1>5 DEF Closed, Calm
<1>7. Chained(b, c, t)
  BY <1>3, <1>4, <1>5 DEF Chained, Over
<1> QED BY <1>1, <1>6, <1>7

\* A rotation measured against the Ready book it is behind.
Measured(b, s) == ~Refused(b, s) /\ Declines(b, s) /\ s.bound = 0
Short(b, s) == reanchor_warranted(Shortfall(b, s), s.total)

\* What `on_snapshot_begin' does of strikes: a short rotation strikes first, and the second
\* distinct one may re-anchor; an agreeing one clears; any other leaves them.
Struck(b, s, c) ==
  /\ Measured(b, s) /\ Short(b, s) =>
       \/ c.reanchor = b.reanchor /\ c.strike = (IF b.strike = None THEN s.id ELSE b.strike)
       \/ b.strike # None /\ b.strike # s.id /\ c.strike = None
  /\ Measured(b, s) /\ ~Short(b, s) => c.reanchor = b.reanchor /\ c.strike = None
  /\ ~Measured(b, s) => c.reanchor = b.reanchor /\ c.strike = b.strike

\* The declined path of `on_snapshot_begin'.
LEMMA DeclineStruck ==
  ASSUME NEW b \in PriceBookType, Closed(b), NEW s \in SnapType, NEW t \in Nat,
         ~Refused(b, s), Declines(b, s)
  PROVE  /\ Closed(decline(b, s, t)) /\ Chained(b, decline(b, s, t), t)
         /\ Struck(b, s, decline(b, s, t))
<1>1. CASE s.bound # 0
  <2>1. decline(b, s, t) = b
    BY <1>1 DEF decline
  <2>2. Closed(b) /\ Chained(b, b, t) /\ Struck(b, s, b)
    BY <1>1 DEF Closed, Chained, Struck, Measured
  <2> QED BY <2>1, <2>2
<1>2. CASE s.bound = 0 /\ ~Short(b, s)
  <2> DEFINE c == [b EXCEPT !.strike = None]
  <2>1. decline(b, s, t) = c
    BY <1>2 DEF decline, Short
  <2>2. c.open = b.open /\ c.status = b.status /\ c.reanchor = b.reanchor /\ c.strike = None
    BY DEF PriceBookType
  <2> HIDE DEF c
  <2>3. Closed(c) /\ Chained(b, c, t)
    BY <2>2 DEF Closed, Chained, Over
  <2>4. Struck(b, s, c)
    BY <1>2, <2>2 DEF Struck, Measured
  <2> QED BY <2>1, <2>3, <2>4
<1>3. CASE s.bound = 0 /\ Short(b, s)
  <2>1. CASE b.strike # None /\ b.strike # s.id /\ reanchor_allowed(b, t)
    <3> DEFINE c == force_resync(b, t)
    <3>1. decline(b, s, t) = c
      BY <1>3, <2>1 DEF decline, Short
    <3>2. c.open = b.open /\ c.status = "AwaitingSnapshot" /\ c.strike = None
      BY DEF PriceBookType, force_resync
    <3> HIDE DEF c
    <3>3. Closed(c) /\ Chained(b, c, t)
      BY <3>2 DEF Closed, Chained, Over
    <3>4. Struck(b, s, c)
      BY <1>3, <2>1, <3>2 DEF Struck, Measured
    <3> QED BY <3>1, <3>3, <3>4
  <2>2. CASE ~(b.strike # None /\ b.strike # s.id /\ reanchor_allowed(b, t))
    <3> DEFINE x == IF b.strike = None THEN s.id ELSE b.strike
               c == [b EXCEPT !.strike = x]
    <3>1. decline(b, s, t) = c
      BY <1>3, <2>2 DEF decline, Short
    <3> HIDE DEF x
    <3>2. c.open = b.open /\ c.status = b.status /\ c.reanchor = b.reanchor /\ c.strike = x
      BY DEF PriceBookType
    <3> HIDE DEF c
    <3>3. Closed(c) /\ Chained(b, c, t)
      BY <3>2 DEF Closed, Chained, Over
    <3>4. Struck(b, s, c)
      BY <1>3, <3>2 DEF Struck, Measured, x
    <3> QED BY <3>1, <3>3, <3>4
  <2> QED BY <2>1, <2>2
<1> QED BY <1>1, <1>2, <1>3

\* `on_snapshot_begin' as a whole.
LEMMA BeginStruck ==
  ASSUME NEW b \in PriceBookType, Closed(b), NEW s \in SnapType, NEW t \in Nat
  PROVE  /\ Closed(on_snapshot_begin(b, s, t)) /\ Chained(b, on_snapshot_begin(b, s, t), t)
         /\ Struck(b, s, on_snapshot_begin(b, s, t))
<1>1. Closed(b) /\ Chained(b, b, t)
  BY DEF Closed, Chained
<1>2. CASE Refused(b, s)
  <2>1. on_snapshot_begin(b, s, t) = b
    BY <1>2 DEF on_snapshot_begin
  <2>2. Struck(b, s, b)
    BY <1>2 DEF Struck, Measured
  <2> QED BY <1>1, <2>1, <2>2
<1>3. CASE ~Refused(b, s) /\ Declines(b, s)
  <2>1. on_snapshot_begin(b, s, t) = decline(b, s, t)
    BY <1>3 DEF on_snapshot_begin
  <2> QED BY <1>3, <2>1, DeclineStruck
<1>4. CASE ~Refused(b, s) /\ ~Declines(b, s) /\ SameGroup(b, s)
  <2>1. on_snapshot_begin(b, s, t) = b
    BY <1>4 DEF on_snapshot_begin
  <2>2. Struck(b, s, b)
    BY <1>4 DEF Struck, Measured
  <2> QED BY <1>1, <2>1, <2>2
<1>5. CASE ~Refused(b, s) /\ ~Declines(b, s) /\ ~SameGroup(b, s)
  <2> DEFINE c == accept(b, s, t)
  <2>1. on_snapshot_begin(b, s, t) = c
    BY <1>5 DEF on_snapshot_begin
  <2>2. Closed(c) /\ Chained(b, c, t) /\ c.reanchor = b.reanchor /\ c.strike = b.strike
    <3>1. c.reanchor = b.reanchor /\ c.strike = b.strike
      BY DEF accept, PriceBookType
    <3> QED BY <3>1, AcceptChained
  <2> HIDE DEF c
  <2>3. Struck(b, s, c)
    BY <1>5, <2>2 DEF Struck, Measured
  <2> QED BY <2>1, <2>2, <2>3
<1> QED BY <1>2, <1>3, <1>4, <1>5

\* When the book last could publish bounds the clock of a rebuild over it.
ClaimInv ==
  /\ Closed(book) /\ now >= 1 /\ readyAt <= now
  /\ book.status = "Ready" => readyAt = now
  /\ Over(book) => book.open.serving_since_ns \in 1..readyAt

\* The rotation that struck has called the book short.
StrikeInv ==
  /\ IsFiniteSet(shorts)
  /\ book.strike # None => book.strike \in shorts

\* An arrival preserves ClaimInv if the method chains the clock.
LEMMA ClaimStep ==
  ASSUME TypeOK, ClaimInv, Closed(book'), Chained(book, book', now), Mark, now' = now
  PROVE  ClaimInv'
<1>1. now \in Nat /\ readyAt \in Nat
  BY DEF TypeOK
<1>2. readyAt' \in {now, readyAt} /\ ("Ready" \in {book.status, book'.status} => readyAt' = now)
  BY DEF Mark
<1>3. readyAt' <= now' /\ readyAt <= readyAt' /\ readyAt' \in Nat
  BY <1>1, <1>2 DEF ClaimInv
<1>4. book'.status = "Ready" => readyAt' = now'
  BY <1>2
<1>5. Over(book') => book'.open.serving_since_ns \in 1..readyAt'
  <2> SUFFICES ASSUME Over(book') PROVE book'.open.serving_since_ns \in 1..readyAt'
    OBVIOUS
  <2>1. CASE Over(book) /\ book'.open.serving_since_ns = book.open.serving_since_ns
    BY <1>1, <1>3, <2>1 DEF ClaimInv
  <2>2. CASE book.status = "Ready" /\ book'.open.serving_since_ns = now
    BY <1>1, <1>2, <2>2 DEF ClaimInv
  <2> QED BY <2>1, <2>2 DEF Chained
<1>6. now' >= 1
  BY DEF ClaimInv
<1> QED BY <1>3, <1>4, <1>5, <1>6, Zenon DEF ClaimInv, Closed, Over

\* A step that calls nothing short and re-anchors nothing.
LEMMA CalmStep ==
  ASSUME StrikeInv, Calm(book, book'), shorts' = shorts
  PROVE  StrikeInv' /\ book'.reanchor = book.reanchor
BY DEF StrikeInv, Calm

Claimed == ClaimInv' /\ StrikeInv' /\ (book'.reanchor # book.reanchor => Cardinality(shorts') >= 2)

\* A step that leaves the book and the clock alone.
LEMMA ClaimKept ==
  ASSUME ClaimInv, StrikeInv, UNCHANGED <<book, now, readyAt, shorts>>
  PROVE  Claimed
BY DEF Claimed, ClaimInv, StrikeInv, Closed, Over

\* An arrival whose method is modest.
LEMMA ModestStep ==
  ASSUME TypeOK, ClaimInv, StrikeInv, Modest(book, book', now), Mark, now' = now, shorts' = shorts
  PROVE  Claimed
<1>1. ClaimInv'
  BY ClaimStep DEF Modest
<1>2. StrikeInv' /\ book'.reanchor = book.reanchor
  BY CalmStep DEF Modest
<1> QED BY <1>1, <1>2 DEF Claimed

\* SnapshotBegin: only a second distinct short rotation re-anchors the book.
LEMMA OnBeginClaimed ==
  ASSUME IndInv, ClaimInv, StrikeInv, NEW s \in DOMAIN snaps, OnBegin(s)
  PROVE  Claimed
<1>1. /\ book' = on_snapshot_begin(book, snaps[s], now) /\ Mark /\ now' = now
      /\ shorts' = IF CallsShort(s) THEN shorts \cup {s} ELSE IF AgreesWith(s) THEN {} ELSE shorts
  BY DEF OnBegin
<1>2. /\ TypeOK /\ book \in PriceBookType /\ now \in Nat /\ snaps[s] \in SnapType
      /\ snaps[s].id = s /\ Closed(book) /\ s # None
  <2>1. snaps[s] \in SnapType /\ s \in Nat
    BY Facts, SnapsType
  <2> QED BY <2>1, Facts, PriceBookConstants DEF PubInv, SnapInv, ClaimInv
<1>3. /\ Closed(book') /\ Chained(book, book', now)
      /\ Struck(book, snaps[s], book')
  BY <1>1, <1>2, BeginStruck
<1>4. ClaimInv'
  BY <1>1, <1>2, <1>3, ClaimStep
<1>5. /\ CallsShort(s) <=> Measured(book, snaps[s]) /\ Short(book, snaps[s])
      /\ AgreesWith(s) <=> Measured(book, snaps[s]) /\ ~Short(book, snaps[s])
  BY DEF CallsShort, AgreesWith, Measured, Short
<1>6. IsFiniteSet(shorts')
  BY <1>1, FS_EmptySet, FS_AddElement DEF StrikeInv
<1>7. CASE CallsShort(s)
  <2>1. shorts' = shorts \cup {s}
    BY <1>1, <1>7
  <2>2. CASE book'.reanchor = book.reanchor
                /\ book'.strike = (IF book.strike = None THEN s ELSE book.strike)
    <3>1. book'.strike \in shorts'
      BY <2>1, <2>2 DEF StrikeInv
    <3> QED BY <1>4, <1>6, <2>2, <3>1 DEF Claimed, StrikeInv
  <2>3. CASE book.strike # None /\ book.strike # s /\ book'.strike = None
    <3>1. {s, book.strike} \subseteq shorts'
      BY <2>1, <2>3 DEF StrikeInv
    <3>2. Cardinality({s, book.strike}) = 2 /\ IsFiniteSet({s, book.strike})
      <4>1. Cardinality({s}) = 1 /\ IsFiniteSet({s})
        BY FS_Singleton
      <4>2. /\ IsFiniteSet({s} \cup {book.strike})
            /\ Cardinality({s} \cup {book.strike}) = Cardinality({s}) + 1
        BY <2>3, <4>1, FS_AddElement
      <4>3. {s} \cup {book.strike} = {s, book.strike}
        OBVIOUS
      <4> QED BY <4>1, <4>2, <4>3
    <3>3. Cardinality(shorts') >= 2
      BY <1>6, <3>1, <3>2, FS_Subset, FS_CardinalityType
    <3> QED BY <1>4, <1>6, <2>3, <3>3 DEF Claimed, StrikeInv
  <2> QED BY <1>2, <1>3, <1>5, <1>7, <2>2, <2>3 DEF Struck
<1>8. CASE AgreesWith(s)
  <2>1. book'.reanchor = book.reanchor /\ book'.strike = None
    BY <1>3, <1>5, <1>8 DEF Struck
  <2> QED BY <1>4, <1>6, <2>1 DEF Claimed, StrikeInv
<1>9. CASE ~CallsShort(s) /\ ~AgreesWith(s)
  <2>1. book'.reanchor = book.reanchor /\ book'.strike = book.strike /\ shorts' = shorts
    BY <1>1, <1>3, <1>5, <1>9 DEF Struck
  <2> QED BY <1>4, <1>6, <2>1 DEF Claimed, StrikeInv
<1> QED BY <1>7, <1>8, <1>9

\* Every step preserves both, and re-anchors only on two rotations' word.
LEMMA NextClaimed ==
  ASSUME IndInv, ClaimInv, StrikeInv, [Next]_vars
  PROVE  Claimed
<1>0. TypeOK /\ book \in PriceBookType /\ Closed(book) /\ IsWire(sent) /\ now \in Nat /\ readyAt \in Nat
  BY Facts DEF ClaimInv, TypeOK
<1>1. ASSUME NEW d \in Deltas, PubDelta(d) PROVE Claimed
  BY <1>1, ClaimKept DEF PubDelta
<1>2. CASE PubOther
  BY <1>2, ClaimKept DEF PubOther
<1>3. ASSUME NEW n \in DepthBounds, PubSnapshot(n) PROVE Claimed
  BY <1>3, ClaimKept DEF PubSnapshot
<1>4. ASSUME NEW B \in ResetBooks, PubReset(B) PROVE Claimed
  BY <1>4, ClaimKept DEF PubReset
<1>5. ASSUME NEW k \in DOMAIN sent, OnDelta(k) PROVE Claimed
  <2>1. book' = on_delta(book, k, sent) /\ UNCHANGED <<now, shorts>> /\ Mark
    BY <1>5 DEF OnDelta
  <2>2. k \in Nat
    BY <1>0, WireType
  <2> QED BY <1>0, <2>1, <2>2, OnDeltaModest, ModestStep
<1>6. ASSUME NEW s \in DOMAIN snaps, OnBegin(s) PROVE Claimed
  BY <1>6, OnBeginClaimed
<1>7. ASSUME NEW s \in DOMAIN snaps, NEW l \in snaps[s].levels, OnLevel(s, l) PROVE Claimed
  <2>1. book' = on_snapshot_level(book, snaps[s].id, l) /\ UNCHANGED <<now, shorts>> /\ Mark
    BY <1>7 DEF OnLevel
  <2> QED BY <1>0, <2>1, LevelModest, ModestStep
<1>8. ASSUME NEW s \in DOMAIN snaps, OnEnd(s) PROVE Claimed
  <2>1. /\ book' = on_snapshot_end(book, snaps[s].anchor, snaps[s].id, sent)
        /\ shorts' = IF book'.strike = None THEN {} ELSE shorts
        /\ now' = now /\ Mark
    BY <1>8 DEF OnEnd
  <2>2. book.open # None => book.open.last_instrument_seq <= Len(sent)
    BY Facts DEF BookInv, OpenInv, PubInv, SnapInv
  <2>3. Modest(book, book', now)
    BY <1>0, <2>1, <2>2, EndModest
  <2>4. ClaimInv'
    BY <1>0, <2>1, <2>3, ClaimStep DEF Modest
  <2>5. StrikeInv' /\ book'.reanchor = book.reanchor
    BY <2>1, <2>3, FS_EmptySet DEF StrikeInv, Modest, Calm
  <2> QED BY <2>4, <2>5 DEF Claimed
<1>9. ASSUME NEW e \in 2..Len(epochs), OnReset(e) PROVE Claimed
  <2>1. book' = on_instrument_reset(book, epochs[e].anchor, sent) /\ UNCHANGED <<now, shorts>> /\ Mark
    BY <1>9 DEF OnReset
  <2> QED BY <1>0, <2>1, ResetModest, ModestStep
<1>10. CASE DropBuffer
  <2>1. book' = drop_buffer(book) /\ UNCHANGED <<now, shorts>> /\ Mark
    BY <1>10 DEF DropBuffer
  <2> QED BY <1>0, <2>1, DropModest, ModestStep
<1>11. CASE EndOfSession
  <2>1. book' = on_end_of_session(book) /\ UNCHANGED <<now, shorts>> /\ Mark
    BY <1>11 DEF EndOfSession
  <2> QED BY <1>0, <2>1, DropModest, ModestStep
<1>12. CASE Tick
  <2>1. /\ now' = now + 1 /\ UNCHANGED <<book, shorts>>
        /\ readyAt' = IF book.status = "Ready" THEN now + 1 ELSE readyAt
    BY <1>12 DEF Tick
  <2>2. now' >= 1 /\ readyAt' <= now' /\ (book.status = "Ready" => readyAt' = now')
    BY <1>0, <2>1 DEF ClaimInv
  <2>3. Over(book) => book.open.serving_since_ns \in 1..readyAt'
    BY <1>0, <2>1 DEF ClaimInv
  <2>4. ClaimInv'
    BY <1>0, <2>1, <2>2, <2>3 DEF ClaimInv, Closed, Over
  <2> QED BY <2>1, <2>4 DEF Claimed, StrikeInv
<1>13. CASE UNCHANGED vars
  BY <1>13, ClaimKept DEF vars
<1> QED BY <1>1, <1>2, <1>3, <1>4, <1>5, <1>6, <1>7, <1>8, <1>9, <1>10, <1>11, <1>12, <1>13
        DEF Next

\* The new book claims nothing and was never called short.
LEMMA InitClaimed == Init => ClaimInv /\ StrikeInv
BY FS_EmptySet DEF Init, new, ClaimInv, StrikeInv, Closed, Over

\* Both hold of every reachable state.
THEOREM ClaimInvariance == Spec => [](IndInv /\ ClaimInv /\ StrikeInv)
<1>1. IndInv /\ ClaimInv /\ StrikeInv /\ [Next]_vars => (IndInv /\ ClaimInv /\ StrikeInv)'
  BY NextInv, NextClaimed DEF Claimed
<1> QED BY <1>1, InitInv, InitClaimed, PTL DEF Spec

(***************************************************************************)
(* However many rotations lose their end, and for every limit: a path that *)
(* rebuilds over a live book claims it for at most MAX_REBUILD_SERVE_NS    *)
(* after it last could publish.                                            *)
(***************************************************************************)
THEOREM ClaimIsBounded == Spec => []ClaimAges
<1>1. IndInv /\ ClaimInv => ClaimAges
  <2> SUFFICES ASSUME IndInv, ClaimInv, serves_a_book(book, now), book.status # "Ready"
               PROVE  now - readyAt <= MAX_REBUILD_SERVE_NS
    BY DEF ClaimAges
  <2>1. Over(book) /\ ~rebuild_expired(book.open.serving_since_ns, now)
    BY DEF serves_a_book, Over
  <2>2. now \in Nat /\ readyAt \in Nat /\ book.open.serving_since_ns \in 1..readyAt /\ now >= 1
    BY <2>1, Facts DEF ClaimInv, TypeOK
  <2>3. now - book.open.serving_since_ns <= MAX_REBUILD_SERVE_NS
    BY <2>1, <2>2, PriceBookConstants DEF rebuild_expired
  <2> QED BY <2>2, <2>3, PriceBookConstants
<1> QED BY <1>1, ClaimInvariance, PTL

(***************************************************************************)
(* For every threshold and interval, and whatever is duplicated or lost: a *)
(* book is re-anchored only after two distinct rotations called it short,  *)
(* with no agreeing one and no install in between.                         *)
(***************************************************************************)
THEOREM ReanchoredByTwo == Spec => TwoRotations
<1>1. IndInv /\ ClaimInv /\ StrikeInv /\ [Next]_vars
        => [book'.reanchor # book.reanchor => Cardinality(shorts') >= 2]_vars
  BY NextClaimed DEF Claimed
<1> QED BY <1>1, ClaimInvariance, PTL DEF Spec, TwoRotations
=============================================================================
