--------------------------- MODULE BookGateProofs ---------------------------
(* What reaches the consumer of one market, for every set of paths, scope   *)
(* and bound: one whole book of one path, under slots that never move back. *)
EXTENDS BookGate, TLAPS

-----------------------------------------------------------------------------
(* The inductive invariant.                                                 *)

\* Change and Prefix of a scope sc.
ChangeOf(sc, p, k) == IF sc.shared THEN k ELSE <<p, k>>
Upto(sc, p, k) == {ChangeOf(sc, p, i) : i \in 1..k}

AuthState ==
  [leader : Path \cup {None}, seen : [Path -> Stamp], samples : [Path -> Seq(Int)],
   window : Nat, ordinals : Seq(Path), markets : [Market -> MarketState \cup {None}],
   order : Seq(Market)]

PathState ==
  [status : {"gap", "rebuild", "ready"}, pos : Nat, open : BOOLEAN, slot : Stamp,
   lapsed : BOOLEAN, filed : BOOLEAN \cup {None}, close : CloseState \cup {None}]

Consumer ==
  [book : SUBSET ChangeId, pending : SUBSET ChangeId, slot : Stamp, at : Stamp]

Batch == [clear : BOOLEAN, changes : SUBSET ChangeId, last : BOOLEAN, batch_id : Stamp]

TypeOK ==
  /\ au \in AuthState /\ bm \in BookMarket \cup {None} /\ replay \in Accumulator \cup {None}
  /\ consumer \in Consumer /\ path \in [Path -> PathState]
  /\ closed \in [Path -> SUBSET Nat] /\ scope \in Scope

AtMost(t, k) == t # None => t <= k

\* What a close under way still owes the arbiter.
Closing(x) == IF x.close = None THEN {} ELSE x.close.changes

\* A path has closed no slot it has not reached, and closes only a book that is up.
Sound(sc, p, x) ==
  /\ AtMost(x.slot, x.pos)
  /\ x.close # None => x.status = "ready" /\ x.close.changes \subseteq Upto(sc, p, x.pos)

\* An accumulator holds all that p, at x, has sent of its book, and nothing else.
Covers(acc, sc, p, x) ==
  /\ acc.book \cup acc.pending \subseteq Upto(sc, p, x.pos)
  /\ x.status = "ready" => acc.book \cup acc.pending \cup Closing(x) = Upto(sc, p, x.pos)

\* A book is p's at the end of an event, no earlier than a slot t.
WholeAt(book, sc, p, ks, t) == \E k \in ks : book = Upto(sc, p, k) /\ AtMost(t, k)

\* What the arbiter keeps of p in case p is served.
Followed(acc, sc, p, x, ks) ==
  /\ AtMost(acc.pending_batch_id, x.pos) /\ AtMost(acc.batch_id, x.pos)
  /\ acc.baselined => Covers(acc, sc, p, x) /\ WholeAt(acc.book, sc, p, ks, acc.batch_id)

\* The replay entry: a whole book, and, unless a re-baseline is owed, all that the served path
\* q has sent.
Offered(r, k, q, sc, xs, cl) ==
  r # None /\ r.baselined =>
    /\ \E p \in Path : WholeAt(r.book, sc, p, cl[p], None)
    /\ ~k.rebaseline /\ q # None => Covers(r, sc, q, xs[q])

Tracked(k, xs, cl, sc) ==
  \A p \in Path : k.paths[p] # None => Followed(k.paths[p], sc, p, xs[p], cl[p])

Published(k, c) == k # None /\ k.wire_slot # None => c.slot = k.wire_slot

GateInv(k, r, c, q, xs, cl, sc) ==
  /\ k = None => r = None
  /\ k # None => Tracked(k, xs, cl, sc)
  /\ Offered(r, k, q, sc, xs, cl)
  /\ Published(k, c)

Inv ==
  /\ TypeOK
  /\ \A p \in Path : Sound(scope, p, path[p])
  /\ GateInv(bm, replay, consumer, last_admitted(au, market), path, closed, scope)

\* The consumer holds the book on offer, which has reached the slot it was told.
Same(r, c, cl, sc) ==
  r # None /\ r.baselined =>
    /\ c.book = r.book /\ c.pending = r.pending
    /\ \E p \in Path : WholeAt(r.book, sc, p, cl[p], c.at)

\* The wait of a re-baseline was not given up so far (see AbandonedIsIncomplete).
Patient == bm # None => bm.withheld < MAX_WITHHELD_BATCHES

OneInv == Same(replay, consumer, closed, scope)
-----------------------------------------------------------------------------
(* The authority, as far as the gate reads it: the path admitted last.      *)

\* y is a state of the authority in which the market's last admitted path is that of x.
Keeps(x, y) == y \in AuthState /\ last_admitted(y, market) = last_admitted(x, market)

\* The constants the model is built on.
LEMMA Constants ==
  /\ market \in Market /\ Now \in Nat /\ None \notin Path /\ None \notin Nat
  /\ MAX_PENDING_CHANGES \in Nat /\ MAX_WITHHELD_BATCHES \in Nat /\ 0 < MAX_WITHHELD_BATCHES
BY GateAssumption, AuthorityConstants

WithEntry(x, e) == [x EXCEPT !.markets = [@ EXCEPT ![market] = e]]

\* An entry of the market is replaced.
LEMMA EntryReplaced ==
  ASSUME NEW x \in AuthState, NEW e \in MarketState, NEW y, y = WithEntry(x, e)
  PROVE  y \in AuthState /\ y.leader = x.leader /\ last_admitted(y, market) = e.last_admitted
<1> DEFINE mk == [x.markets EXCEPT ![market] = e]
<1>1. mk \in [Market -> MarketState \cup {None}] /\ mk[market] = e
  BY Constants DEF AuthState
<1>2. y = [x EXCEPT !.markets = mk]
  BY DEF AuthState, WithEntry
<1> HIDE DEF mk
<1>3. y \in AuthState /\ y.markets = mk /\ y.leader = x.leader
  BY <1>1, <1>2 DEF AuthState
<1> QED BY <1>1, <1>3, NoneAssumption DEF last_admitted

\* market_mut: the market has an entry, as it was or new.
LEMMA MarketEntered ==
  ASSUME NEW x \in AuthState, NEW y, y = market_mut(x, market)
  PROVE  /\ Keeps(x, y) /\ y.leader = x.leader /\ y.markets[market] \in MarketState
         /\ y.markets[market].last_admitted = last_admitted(x, market)
<1>1. x.markets \in [Market -> MarketState \cup {None}] /\ x.order \in Seq(Market)
  BY DEF AuthState
<1>2. CASE x.markets[market] # None
  BY <1>1, <1>2, Constants DEF market_mut, Keeps, last_admitted
<1>3. CASE x.markets[market] = None
  <2> DEFINE n == IF Len(x.order) >= MAX_TRACKED_MARKETS
                  THEN Len(x.order) - MAX_TRACKED_MARKETS + 1 ELSE 0
             mk == [k \in Market |->
                 IF k = market THEN NewMarket
                 ELSE IF \E i \in 1..n : x.order[i] = k THEN None ELSE x.markets[k]]
             ord == Append(SubSeq(x.order, n + 1, Len(x.order)), market)
  <2>1. y = [x EXCEPT !.markets = mk, !.order = ord]
    BY <1>3 DEF market_mut
  <2>2. NewMarket \in MarketState /\ NewMarket.last_admitted = None
    BY DEF NewMarket, MarketState
  <2>3. mk \in [Market -> MarketState \cup {None}] /\ mk[market] = NewMarket
    BY <1>1, <2>2, Constants
  <2>4. ord \in Seq(Market)
    <3>1. n \in Nat /\ n <= Len(x.order)
      BY <1>1, AuthorityConstants
    <3> HIDE DEF n
    <3> QED BY <1>1, <3>1, Constants
  <2> HIDE DEF mk, ord
  <2>5. y \in AuthState /\ y.markets = mk /\ y.leader = x.leader
    BY <2>1, <2>3, <2>4 DEF AuthState
  <2> QED BY <1>3, <2>2, <2>3, <2>5, NoneAssumption DEF Keeps, last_admitted
<1> QED BY <1>2, <1>3

\* path_ordinal: only the labels grow.
LEMMA PathLabelled ==
  ASSUME NEW x \in AuthState, NEW p \in Path, NEW y, y = path_ordinal(x, p)
  PROVE  Keeps(x, y) /\ y.leader = x.leader
<1>1. CASE p \in Range(x.ordinals) \/ Len(x.ordinals) >= MAX_LABELLED_PATHS
  BY <1>1 DEF path_ordinal, Keeps
<1>2. CASE ~(p \in Range(x.ordinals) \/ Len(x.ordinals) >= MAX_LABELLED_PATHS)
  <2>1. y = [x EXCEPT !.ordinals = Append(@, p)] /\ x.ordinals \in Seq(Path)
    BY <1>2 DEF path_ordinal, AuthState
  <2>2. Append(x.ordinals, p) \in Seq(Path)
    BY <2>1
  <2>3. y \in AuthState /\ y.markets = x.markets /\ y.leader = x.leader
    BY <2>1, <2>2 DEF AuthState
  <2> QED BY <2>3 DEF Keeps, last_admitted
<1> QED BY <1>1, <1>2

\* note_rebaseline_point marks p as re-baselined and changes nothing else of the entry.
LEMMA PointNoted ==
  ASSUME NEW x \in AuthState, NEW p \in Path, NEW y, y = note_rebaseline_point(x, market, p)
  PROVE  Keeps(x, y) /\ y.leader = x.leader
<1>1. CASE x.markets[market] = None
  BY <1>1 DEF note_rebaseline_point, Keeps
<1>2. CASE x.markets[market] # None
  <2> DEFINE e == [x.markets[market] EXCEPT !.reinstalled = @ \cup {p}]
  <2>1. x.markets[market] \in MarketState
    BY <1>2, Constants DEF AuthState
  <2>2. e \in MarketState /\ e.last_admitted = x.markets[market].last_admitted
    BY <2>1 DEF MarketState
  <2>3. y = WithEntry(x, e)
    BY <1>2, Constants DEF note_rebaseline_point, AuthState, WithEntry
  <2> HIDE DEF e
  <2>4. y \in AuthState /\ y.leader = x.leader /\ last_admitted(y, market) = e.last_admitted
    BY <2>2, <2>3, EntryReplaced
  <2> QED BY <1>2, <2>2, <2>4 DEF Keeps, last_admitted
<1> QED BY <1>1, <1>2

\* drop_hold removes the hold and nothing else of the entry.
LEMMA HoldDropped ==
  ASSUME NEW x \in AuthState, NEW y, y = drop_hold(x, market)
  PROVE  Keeps(x, y) /\ y.leader = x.leader
<1>1. CASE x.markets[market] = None
  BY <1>1 DEF drop_hold, Keeps
<1>2. CASE x.markets[market] # None
  <2> DEFINE e == [x.markets[market] EXCEPT !.hold = None]
  <2>1. x.markets[market] \in MarketState
    BY <1>2, Constants DEF AuthState
  <2>2. e \in MarketState /\ e.last_admitted = x.markets[market].last_admitted
    BY <2>1 DEF MarketState
  <2>3. y = WithEntry(x, e)
    BY <1>2, Constants DEF drop_hold, AuthState, WithEntry
  <2> HIDE DEF e
  <2>4. y \in AuthState /\ y.leader = x.leader /\ last_admitted(y, market) = e.last_admitted
    BY <2>2, <2>3, EntryReplaced
  <2> QED BY <1>2, <2>2, <2>4 DEF Keeps, last_admitted
<1> QED BY <1>1, <1>2

\* take_authority moves the lead and empties the window.
LEMMA LeadTaken ==
  ASSUME NEW x \in AuthState, NEW p \in Path, NEW y, y = take_authority(x, p, Now)
  PROVE  Keeps(x, y) /\ y.leader = p
<1> DEFINE sm == [q \in Path |-> <<>>]
<1>1. sm \in [Path -> Seq(Int)]
  OBVIOUS
<1>2. y = [x EXCEPT !.leader = p, !.window = Now, !.samples = sm]
  BY DEF take_authority
<1> HIDE DEF sm
<1>3. y \in AuthState /\ y.markets = x.markets /\ y.leader = p
  BY <1>1, <1>2, Constants DEF AuthState
<1> QED BY <1>3 DEF Keeps, last_admitted

\* heard stamps the path, which may take the lead.
LEMMA HeardNow ==
  ASSUME NEW x \in AuthState, NEW p \in Path, NEW y, y = heard(x, p, Now)
  PROVE  Keeps(x, y) /\ (x.leader # None => y.leader # None)
<1> DEFINE sn == [x.seen EXCEPT ![p] = Now]
           b == [x EXCEPT !.seen = sn]
           takes == p # x.leader /\ Now - LastSeen(x, x.leader) > leader_timeout_ns
<1>1. sn \in [Path -> Stamp]
  BY Constants DEF AuthState, Stamp
<1>2. y = IF takes THEN take_authority(b, p, Now) ELSE b
  BY DEF heard, AuthState
<1> HIDE DEF takes, sn
<1>3. b \in AuthState /\ b.leader = x.leader /\ b.markets = x.markets
  BY <1>1 DEF AuthState
<1> HIDE DEF b
<1>4. CASE takes
  <2>1. Keeps(b, y) /\ y.leader = p
    BY <1>2, <1>3, <1>4, LeadTaken
  <2> QED BY <1>3, <2>1, Constants DEF Keeps, last_admitted
<1>5. CASE ~takes
  BY <1>2, <1>3, <1>5 DEF Keeps, last_admitted
<1> QED BY <1>4, <1>5
\* refresh_hold: only the hold of the entry changes.
LEMMA HoldRefreshed ==
  ASSUME NEW x \in AuthState, NEW p \in Path, x.leader # None,
         NEW y, y = refresh_hold(x, market, p, Now)
  PROVE  Keeps(x, y)
<1> DEFINE stored == HoldOf(x, market)
           ok == healthy(x, market, x.leader)
           since == IF stored.since = None THEN Now ELSE stored.since
           next == IF ~Stands(x, market, stored, Now)
                     THEN IF ok \/ p = x.leader \/ ~healthy(x, market, p) THEN None
                          ELSE [holder |-> p, leader |-> x.leader, since |-> None]
                   ELSE IF ~ok THEN [stored EXCEPT !.since = None]
                   ELSE IF Releases(x, market, since, p, Now) THEN None
                   ELSE [stored EXCEPT !.since = since]
           b == market_mut(x, market)
           e == [b.markets[market] EXCEPT !.hold = next]
<1>1. y = IF stored = None /\ (ok \/ next = None) THEN x
          ELSE [b EXCEPT !.markets[market].hold = next]
  BY Zenon DEF refresh_hold
<1>2. next \in RevertHold \cup {None}
  <2>1. x.leader \in Path
    BY DEF AuthState
  <2>2. CASE ~Stands(x, market, stored, Now)
    BY <2>1, <2>2 DEF RevertHold
  <2>3. CASE Stands(x, market, stored, Now)
    <3>1. stored \in RevertHold
      BY <2>3, Constants DEF Stands, HoldOf, AuthState, MarketState
    <3>2. since \in Nat
      BY <3>1, Constants DEF RevertHold
    <3> HIDE DEF stored, ok, since
    <3> QED BY <2>3, <3>1, <3>2 DEF RevertHold
  <2> QED BY <2>2, <2>3
<1> HIDE DEF next, ok, stored
<1>3. CASE stored = None /\ (ok \/ next = None)
  BY <1>1, <1>3 DEF Keeps
<1>4. CASE ~(stored = None /\ (ok \/ next = None))
  <2>1. Keeps(x, b) /\ b.markets[market] \in MarketState
        /\ b.markets[market].last_admitted = last_admitted(x, market)
    BY MarketEntered
  <2>2. y = [b EXCEPT !.markets[market].hold = next]
    BY <1>1, <1>4
  <2> HIDE DEF b
  <2>3. e \in MarketState /\ e.last_admitted = b.markets[market].last_admitted
    BY <1>2, <2>1 DEF MarketState
  <2>4. y = WithEntry(b, e)
    BY <2>1, <2>2, Constants DEF AuthState, WithEntry, Keeps
  <2> HIDE DEF e
  <2>5. y \in AuthState /\ last_admitted(y, market) = e.last_admitted
    BY <2>1, <2>3, <2>4, EntryReplaced DEF Keeps
  <2> QED BY <2>1, <2>3, <2>5 DEF Keeps
<1> QED BY <1>3, <1>4

\* Served: the path is the last admitted.
LEMMA EntryServed ==
  ASSUME NEW x \in AuthState, NEW p \in Path, NEW y, y = Served(x, market, p)
  PROVE  y \in AuthState /\ last_admitted(y, market) = p
<1> DEFINE b == market_mut(x, market)
           e == [b.markets[market] EXCEPT !.last_admitted = p]
<1>1. b \in AuthState /\ b.markets[market] \in MarketState
  BY MarketEntered DEF Keeps
<1>2. y = WithEntry(b, e)
  BY <1>1, Constants DEF AuthState, Served, WithEntry
<1> HIDE DEF b
<1>3. e \in MarketState /\ e.last_admitted = p
  BY <1>1 DEF MarketState
<1> HIDE DEF e
<1> QED BY <1>1, <1>2, <1>3, EntryReplaced

\* first: the path leads and is the last admitted.
LEMMA FirstServed ==
  ASSUME NEW x \in AuthState, NEW p \in Path, NEW y, y = first(x, market, p, Now)
  PROVE  y \in AuthState /\ last_admitted(y, market) = p
<1> DEFINE sn == [x.seen EXCEPT ![p] = Now]
           b == [x EXCEPT !.leader = p, !.seen = sn, !.window = Now]
<1>1. sn \in [Path -> Stamp]
  BY Constants DEF AuthState, Stamp
<1>2. y = Served(b, market, p)
  BY DEF first, Served, AuthState
<1> HIDE DEF sn
<1>3. b \in AuthState
  BY <1>1, Constants DEF AuthState
<1> HIDE DEF b
<1> QED BY <1>2, <1>3, EntryServed

\* admit: a batch that goes out makes p the last admitted, one that is dropped changes nothing.
LEMMA Admitted ==
  ASSUME NEW x \in AuthState, NEW p \in Path, NEW v, v = admit(x, market, p, Now)
  PROVE  /\ v.au \in AuthState
         /\ last_admitted(v.au, market) = IF v.out # "dropped" THEN p
                                          ELSE last_admitted(x, market)
<1> DEFINE r == path_ordinal(x, p)
           h == heard(r, p, Now)
           b == refresh_hold(h, market, p, Now)
<1>1. v = IF ~Eligible(x, p) THEN [au |-> x, out |-> "dropped"]
          ELSE IF x.leader = None THEN [au |-> first(r, market, p, Now), out |-> "opened"]
          ELSE IF serving(b, market) # p THEN [au |-> b, out |-> "dropped"]
          ELSE [au |-> Served(b, market, p),
                out |-> IF last_admitted(b, market) = p THEN "emitted" ELSE "opened"]
  BY Zenon DEF admit
<1>2. Keeps(x, r) /\ r.leader = x.leader
  BY PathLabelled
<1> HIDE DEF r
<1>3. Keeps(r, h) /\ (r.leader # None => h.leader # None)
  BY <1>2, HeardNow DEF Keeps
<1> HIDE DEF h
<1>4. x.leader # None => Keeps(h, b)
  BY <1>2, <1>3, HoldRefreshed DEF Keeps
<1> HIDE DEF b
<1>5. CASE ~Eligible(x, p)
  BY <1>1, <1>5
<1>6. CASE Eligible(x, p) /\ x.leader = None
  <2>1. first(r, market, p, Now) \in AuthState
        /\ last_admitted(first(r, market, p, Now), market) = p
    BY <1>2, FirstServed DEF Keeps
  <2> QED BY <1>1, <1>6, <2>1
<1>7. CASE Eligible(x, p) /\ x.leader # None /\ serving(b, market) # p
  <2>1. v.au = b /\ v.out = "dropped"
    BY <1>1, <1>7
  <2> QED BY <1>2, <1>3, <1>4, <1>7, <2>1 DEF Keeps
<1>8. CASE Eligible(x, p) /\ x.leader # None /\ serving(b, market) = p
  <2>1. v.au = Served(b, market, p) /\ v.out # "dropped"
    BY <1>1, <1>8
  <2> QED BY <1>4, <1>8, <2>1, EntryServed DEF Keeps
<1> QED BY <1>5, <1>6, <1>7, <1>8

\* The authority's half of the book arm: prev is the path last admitted, and p is from then on
\* if its batch goes out.
LEMMA Decided ==
  ASSUME au \in AuthState, NEW p \in Path, NEW clear \in BOOLEAN, NEW synthesized \in BOOLEAN,
         NEW v, v = decision(p, clear, synthesized)
  PROVE  /\ v.au \in AuthState /\ v.prev = last_admitted(au, market)
         /\ last_admitted(v.au, market) = IF v.out # "dropped" THEN p ELSE v.prev
<1> DEFINE r == path_ordinal(au, p)
           n == IF clear THEN note_rebaseline_point(r, market, p) ELSE r
           d == IF ~synthesized /\ n.leader = p /\ holding_revert(n, market) /\ replay_incomplete
                  THEN drop_hold(n, market) ELSE n
           w == IF synthesized THEN [au |-> d, out |-> admit_synthesized(d, market, p)]
                ELSE admit(d, market, p, Now)
<1>1. v = [au |-> w.au, prev |-> last_admitted(d, market), out |-> w.out]
  BY Zenon DEF decision
<1>2. Keeps(au, r)
  BY PathLabelled
<1> HIDE DEF r
<1>3. Keeps(au, n)
  BY <1>2, PointNoted DEF Keeps
<1> HIDE DEF n
<1>4. Keeps(au, d)
  BY <1>3, HoldDropped DEF Keeps
<1> HIDE DEF d
<1>5. /\ w.au \in AuthState
      /\ last_admitted(w.au, market) = IF w.out # "dropped" THEN p
                                       ELSE last_admitted(d, market)
  <2>1. CASE synthesized
    <3>1. w.au = d /\ w.out = admit_synthesized(d, market, p)
      BY <2>1
    <3>2. w.out # "dropped" => last_admitted(d, market) = p
      BY <3>1, Zenon DEF admit_synthesized
    <3> HIDE DEF w
    <3> QED BY <1>4, <3>1, <3>2 DEF Keeps
  <2>2. CASE ~synthesized
    <3>1. w = admit(d, market, p, Now)
      BY <2>2
    <3> QED BY <1>4, <3>1, Admitted DEF Keeps
  <2> QED BY <2>1, <2>2
<1> HIDE DEF w
<1> QED BY <1>1, <1>4, <1>5 DEF Keeps

\* set_health changes the path's health and a probation, not who was admitted.
LEMMA HealthSet ==
  ASSUME NEW x \in AuthState, NEW p \in Path, NEW ok \in BOOLEAN,
         NEW y, y = set_health(x, market, p, ok)
  PROVE  Keeps(x, y)
<1> DEFINE r == path_ordinal(x, p)
           b == market_mut(r, market)
           f == [b.markets[market] EXCEPT !.unhealthy = @ \ {p}]
           g == Doubted(b.markets[market], p)
<1>1. Keeps(x, r)
  BY PathLabelled
<1>2. Keeps(r, b) /\ b.markets[market] \in MarketState
      /\ b.markets[market].last_admitted = last_admitted(r, market)
  <2> HIDE DEF r
  <2> QED BY <1>1, MarketEntered DEF Keeps
<1>3. \/ y \in {x, r}
      \/ y = [b EXCEPT !.markets[market].unhealthy = @ \ {p}]
      \/ y = [b EXCEPT !.markets[market] = Doubted(@, p)]
  BY Zenon DEF set_health
<1> HIDE DEF r, b
<1>4. CASE y \in {x, r}
  BY <1>1, <1>4 DEF Keeps
<1>5. CASE y = [b EXCEPT !.markets[market].unhealthy = @ \ {p}]
  <2>1. f \in MarketState /\ f.last_admitted = b.markets[market].last_admitted
    BY <1>2 DEF MarketState
  <2>2. y = WithEntry(b, f)
    BY <1>2, <1>5, Constants DEF AuthState, WithEntry, Keeps
  <2> HIDE DEF f
  <2>3. y \in AuthState /\ last_admitted(y, market) = f.last_admitted
    BY <1>2, <2>1, <2>2, EntryReplaced DEF Keeps
  <2> QED BY <1>1, <1>2, <2>1, <2>3 DEF Keeps
<1>6. CASE y = [b EXCEPT !.markets[market] = Doubted(@, p)]
  <2> DEFINE e == b.markets[market]
             h == IF e.hold # None /\ e.hold.leader = p THEN [e.hold EXCEPT !.since = None]
                  ELSE e.hold
  <2>1. h \in RevertHold \cup {None}
    BY <1>2 DEF MarketState, RevertHold
  <2>2. g = [e EXCEPT !.unhealthy = @ \cup {p}, !.reinstalled = @ \ {p}, !.hold = h]
    BY <1>2 DEF Doubted, MarketState
  <2> HIDE DEF h
  <2>3. g \in MarketState /\ g.last_admitted = e.last_admitted
    <3> HIDE DEF g, e
    <3>1. e \in MarketState
      BY <1>2 DEF e
    <3> QED BY <2>1, <2>2, <3>1 DEF MarketState
  <2>4. y = WithEntry(b, g)
    BY <1>2, <1>6, Constants DEF AuthState, WithEntry, Keeps
  <2> HIDE DEF g
  <2>5. y \in AuthState /\ last_admitted(y, market) = g.last_admitted
    BY <1>2, <2>3, <2>4, EntryReplaced DEF Keeps
  <2> QED BY <1>1, <1>2, <2>3, <2>5 DEF Keeps
<1> QED BY <1>3, <1>4, <1>5, <1>6

\* A margin transfer moves the lead, not the markets.
LEMMA ScopeTransferred ==
  ASSUME NEW x \in AuthState, NEW p \in Path, NEW y, y = transfer_scope_to(x, p, Now)
  PROVE  Keeps(x, y)
BY LeadTaken DEF transfer_scope_to, Keeps

\* forget_market: the path admitted last is forgotten with the market.
LEMMA MarketForgotten ==
  ASSUME NEW x \in AuthState, NEW y, y = forget_market(x, market)
  PROVE  y \in AuthState /\ last_admitted(y, market) = None
<1> DEFINE mk == [x.markets EXCEPT ![market] = None]
<1>1. mk \in [Market -> MarketState \cup {None}] /\ mk[market] = None
  BY Constants DEF AuthState
<1>2. y = [x EXCEPT !.markets = mk]
  BY DEF forget_market, AuthState
<1> HIDE DEF mk
<1>3. y \in AuthState /\ y.markets = mk
  BY <1>1, <1>2 DEF AuthState
<1> QED BY <1>1, <1>3 DEF last_admitted

\* The passing of time ages stamps only.
LEMMA StampsAged ==
  ASSUME NEW x \in AuthState, NEW y, y = Aged(x)
  PROVE  Keeps(x, y)
<1> DEFINE sn == [p \in Path |-> Older(x.seen[p])]
           wn == Older(x.window)
           mk == [m \in Market |-> AgedEntry(x.markets[m])]
<1>1. \A t \in Stamp : Older(t) \in Stamp
  BY Constants DEF Older, Stamp
<1>2. sn \in [Path -> Stamp]
  BY <1>1 DEF AuthState
<1>3. wn \in Nat
  BY Constants DEF Older, AuthState
<1>4. ASSUME NEW m \in Market
      PROVE  /\ mk[m] \in MarketState \cup {None}
             /\ mk[m] = None <=> x.markets[m] = None
             /\ x.markets[m] # None => mk[m].last_admitted = x.markets[m].last_admitted
  <2> DEFINE e == x.markets[m]
  <2>1. e \in MarketState \cup {None} /\ mk[m] = AgedEntry(e)
    BY DEF AuthState
  <2> HIDE DEF mk, e
  <2>2. CASE e = None \/ e.hold = None
    BY <2>1, <2>2 DEF AgedEntry, e
  <2>3. CASE e # None /\ e.hold # None
    <3> DEFINE h == [e.hold EXCEPT !.since = Older(@)]
    <3>1. e \in MarketState /\ e.hold \in RevertHold
      BY <2>1, <2>3 DEF MarketState
    <3>2. h \in RevertHold
      BY <1>1, <3>1 DEF RevertHold, Stamp
    <3>3. AgedEntry(e) = [e EXCEPT !.hold = h]
      BY <2>3, <3>1 DEF AgedEntry, MarketState
    <3> HIDE DEF h
    <3>4. AgedEntry(e) \in MarketState /\ AgedEntry(e).last_admitted = e.last_admitted
      BY <3>1, <3>2, <3>3 DEF MarketState
    <3> QED BY <2>1, <2>3, <3>4, NoneAssumption DEF e
  <2> QED BY <2>2, <2>3
<1>5. mk \in [Market -> MarketState \cup {None}]
  BY <1>4
<1>6. y = [x EXCEPT !.seen = sn, !.window = wn, !.markets = mk]
  BY DEF Aged, AuthState
<1> HIDE DEF sn, wn, mk
<1>7. y \in AuthState /\ y.markets = mk
  BY <1>2, <1>3, <1>5, <1>6 DEF AuthState
<1> QED BY <1>4, <1>7, Constants DEF Keeps, last_admitted
-----------------------------------------------------------------------------
(* Prefixes of a path's changes.                                            *)

\* A later position has all the changes of an earlier one.
LEMMA UptoGrows ==
  ASSUME NEW sc, NEW p, NEW i \in Nat, NEW j \in Nat, i <= j
  PROVE  Upto(sc, p, i) \subseteq Upto(sc, p, j)
BY DEF Upto

\* One more position has one more change.
LEMMA UptoNext ==
  ASSUME NEW sc, NEW p, NEW k \in Nat
  PROVE  Upto(sc, p, k + 1) = Upto(sc, p, k) \cup {ChangeOf(sc, p, k + 1)}
<1>1. 1..(k + 1) = (1..k) \cup {k + 1}
  OBVIOUS
<1> QED BY <1>1 DEF Upto

\* Changes are named by numbers, or by a path and a number.
LEMMA UptoType ==
  ASSUME NEW sc, NEW p \in Path, NEW k \in Nat
  PROVE  Upto(sc, p, k) \subseteq ChangeId /\ ChangeOf(sc, p, k) \in ChangeId
BY DEF Upto, ChangeOf, ChangeId

\* Change and Prefix are those of the behaviour's scope.
LEMMA PrefixIs == \A p, k : Prefix(p, k) = Upto(scope, p, k) /\ Change(p, k) = ChangeOf(scope, p, k)
BY DEF Prefix, Upto, Change, ChangeOf

-----------------------------------------------------------------------------
(* Accumulators.                                                            *)

\* p, at x before and y after, sends b: a whole book, or the changes it has not sent yet.
Emits(sc, p, x, y, b) ==
  /\ AtMost(b.batch_id, y.pos) /\ x.pos <= y.pos
  /\ y.status = "ready" /\ y.close = None
  /\ b.clear => b.last /\ b.changes = Upto(sc, p, y.pos)
  /\ ~b.clear =>
       /\ x.status = "ready"
       /\ \/ b.changes = Closing(x) /\ y.pos = x.pos
          \/ Closing(x) = {} /\ Upto(sc, p, y.pos) = Upto(sc, p, x.pos) \cup b.changes

\* p goes from x to y and sends nothing.
Silent(sc, p, x, y) ==
  /\ x.pos <= y.pos
  /\ y.status = "ready" =>
       /\ x.status = "ready"
       /\ \/ Closing(y) = Closing(x) /\ y.pos = x.pos
          \/ Closing(x) = {} /\ Upto(sc, p, y.pos) = Upto(sc, p, x.pos) \cup Closing(y)

\* What one batch makes of the book, the open event and the stamps.
Folded(acc, b, f) ==
  /\ f \in Accumulator /\ (f.baselined => b.clear \/ acc.baselined)
  /\ f.batch_id \in {acc.batch_id, acc.pending_batch_id, b.batch_id}
  /\ f.pending_batch_id \in {acc.batch_id, acc.pending_batch_id, b.batch_id}
  /\ b.last => /\ f.pending = {}
               /\ f.book = IF b.clear THEN b.changes
                           ELSE acc.book \cup acc.pending \cup b.changes
  /\ ~b.last => /\ f.book = acc.book /\ f.batch_id = acc.batch_id
                /\ f.baselined => f.pending = acc.pending \cup b.changes

\* BookAccumulator::apply does that.
LEMMA FoldIs ==
  ASSUME NEW acc \in Accumulator, NEW b \in Batch, b.clear => b.last, NEW f, f = fold(acc, b)
  PROVE  Folded(acc, b, f)
<1> DEFINE id  == IF b.batch_id = None THEN acc.pending_batch_id ELSE b.batch_id
           buf == IF b.clear THEN b.changes ELSE acc.pending \cup b.changes
           now == [acc EXCEPT !.pending = buf, !.pending_batch_id = id]
<1>1. id \in Stamp /\ id \in {acc.pending_batch_id, b.batch_id} /\ buf \in SUBSET ChangeId
  BY DEF Accumulator, Batch
<1>2. f = IF ~b.last THEN IF Cardinality(buf) > MAX_PENDING_CHANGES THEN abandon(now) ELSE now
          ELSE [book |-> IF b.clear THEN buf ELSE acc.book \cup buf,
                pending |-> {}, pending_batch_id |-> id, batch_id |-> id,
                exact |-> b.batch_id # None, baselined |-> b.clear \/ acc.baselined]
  BY Zenon DEF fold
<1> HIDE DEF id
<1>3. CASE ~b.last
  <2>1. ~b.clear /\ buf = acc.pending \cup b.changes
    BY <1>3 DEF Batch
  <2> HIDE DEF buf
  <2>2. /\ now \in Accumulator /\ now.book = acc.book /\ now.pending = buf
        /\ now.pending_batch_id = id /\ now.batch_id = acc.batch_id
        /\ now.baselined = acc.baselined
    BY <1>1 DEF Accumulator
  <2> HIDE DEF now
  <2>3. CASE Cardinality(buf) > MAX_PENDING_CHANGES
    <3>1. f = abandon(now)
      BY <1>2, <1>3, <2>3
    <3>2. /\ f \in Accumulator /\ f.book = now.book /\ ~f.baselined
          /\ f.batch_id = now.batch_id /\ f.pending_batch_id = now.batch_id
      BY <2>2, <3>1 DEF abandon, Accumulator
    <3> QED BY <1>3, <2>2, <3>2 DEF Folded
  <2>4. CASE ~(Cardinality(buf) > MAX_PENDING_CHANGES)
    <3>1. f = now
      BY <1>2, <1>3, <2>4
    <3> QED BY <1>1, <1>3, <2>1, <2>2, <3>1 DEF Folded
  <2> QED BY <2>3, <2>4
<1>4. CASE b.last
  <2> DEFINE bk == IF b.clear THEN buf ELSE acc.book \cup buf
  <2>1. bk \in SUBSET ChangeId
        /\ bk = IF b.clear THEN b.changes ELSE acc.book \cup acc.pending \cup b.changes
    BY <1>1 DEF Accumulator
  <2> HIDE DEF buf, bk
  <2>2. PICK ex \in BOOLEAN, ba \in BOOLEAN :
          /\ ba => b.clear \/ acc.baselined
          /\ f = [book |-> bk, pending |-> {}, pending_batch_id |-> id, batch_id |-> id,
                  exact |-> ex, baselined |-> ba]
    <3>1. f = [book |-> bk, pending |-> {}, pending_batch_id |-> id, batch_id |-> id,
               exact |-> b.batch_id # None, baselined |-> b.clear \/ acc.baselined]
      BY <1>2, <1>4, Zenon DEF bk
    <3>2. b.clear \in BOOLEAN /\ acc.baselined \in BOOLEAN
      BY DEF Batch, Accumulator
    <3> QED BY <3>1, <3>2, Zenon
  <2> QED BY <1>1, <1>4, <2>1, <2>2 DEF Accumulator, Folded
<1> QED BY <1>3, <1>4 DEF Batch
\* What covers a path before a batch covers it once the batch is folded in.
LEMMA FoldCovers ==
  ASSUME NEW sc, NEW p \in Path, NEW x \in PathState, NEW y \in PathState, NEW b \in Batch,
         Emits(sc, p, x, y, b), NEW acc \in Accumulator, acc.baselined => Covers(acc, sc, p, x),
         NEW f, f = fold(acc, b), f.baselined
  PROVE  Covers(f, sc, p, y) /\ (b.last => f.book = Upto(sc, p, y.pos))
<1> DEFINE U == Upto(sc, p, x.pos)
           V == Upto(sc, p, y.pos)
           C == Closing(x)
<1>0. b.clear => b.last
  BY DEF Emits
<1>1. /\ b.last => /\ f.pending = {}
                   /\ f.book = IF b.clear THEN b.changes
                               ELSE acc.book \cup acc.pending \cup b.changes
      /\ ~b.last => f.book = acc.book /\ f.pending = acc.pending \cup b.changes
      /\ b.clear \/ acc.baselined
  <2>1. Folded(acc, b, f)
    BY <1>0, FoldIs
  <2> QED BY <2>1 DEF Folded
<1>2. Closing(y) = {} /\ y.status = "ready"
  BY DEF Emits, Closing
<1>3. b.clear => b.changes = V
  BY DEF Emits
<1>4. ~b.clear => acc.book \cup acc.pending \cup b.changes = V
  <2>1. ASSUME ~b.clear PROVE acc.book \cup acc.pending \cup b.changes = V
    <3>1. acc.book \cup acc.pending \subseteq U /\ acc.book \cup acc.pending \cup C = U
      BY <1>1, <2>1 DEF Covers, Emits
    <3>2. (b.changes = C /\ V = U) \/ (C = {} /\ V = U \cup b.changes)
      BY <2>1 DEF Emits
    <3> HIDE DEF U, V, C
    <3> QED BY <3>1, <3>2
  <2> QED BY <2>1
<1> HIDE DEF V
<1>5. f.book \cup f.pending = V /\ (b.last => f.book = V)
  BY <1>0, <1>1, <1>3, <1>4
<1> QED BY <1>2, <1>5 DEF Covers, V

\* What the arbiter keeps of a path stays in step with what the path sends.
LEMMA FoldFollowed ==
  ASSUME NEW sc, NEW p \in Path, NEW x \in PathState, NEW y \in PathState, NEW b \in Batch,
         Emits(sc, p, x, y, b), NEW acc \in Accumulator, NEW ks, NEW ls \in SUBSET Nat,
         ks \subseteq ls, Followed(acc, sc, p, x, ks), b.last => y.pos \in ls,
         NEW f, f = fold(acc, b)
  PROVE  f \in Accumulator /\ Followed(f, sc, p, y, ls)
<1>0. b.clear => b.last
  BY DEF Emits
<1>1. /\ f \in Accumulator /\ (f.baselined => b.clear \/ acc.baselined)
      /\ f.batch_id \in {acc.batch_id, acc.pending_batch_id, b.batch_id}
      /\ f.pending_batch_id \in {acc.batch_id, acc.pending_batch_id, b.batch_id}
      /\ ~b.last => f.book = acc.book /\ f.batch_id = acc.batch_id
  <2>1. Folded(acc, b, f)
    BY <1>0, FoldIs
  <2> QED BY <2>1 DEF Folded
<1>2. AtMost(f.batch_id, y.pos) /\ AtMost(f.pending_batch_id, y.pos)
  <2>1. \A t \in Stamp : AtMost(t, x.pos) => AtMost(t, y.pos)
    BY DEF AtMost, Stamp, Emits, PathState
  <2>2. AtMost(acc.batch_id, y.pos) /\ AtMost(acc.pending_batch_id, y.pos)
    BY <2>1 DEF Followed, Accumulator
  <2>3. AtMost(b.batch_id, y.pos)
    BY DEF Emits
  <2> QED BY <1>1, <2>2, <2>3
<1>3. ASSUME f.baselined
      PROVE  Covers(f, sc, p, y) /\ WholeAt(f.book, sc, p, ls, f.batch_id)
  <2>1. Covers(f, sc, p, y) /\ (b.last => f.book = Upto(sc, p, y.pos))
    BY <1>3, FoldCovers DEF Followed
  <2>2. CASE b.last
    BY <1>2, <2>1, <2>2 DEF WholeAt
  <2>3. CASE ~b.last
    <3>1. WholeAt(acc.book, sc, p, ks, acc.batch_id)
      BY <1>0, <1>1, <1>3, <2>3 DEF Followed
    <3> QED BY <1>1, <2>1, <2>3, <3>1 DEF WholeAt
  <2> QED BY <2>1, <2>2, <2>3
<1> QED BY <1>1, <1>2, <1>3 DEF Followed

\* A new accumulator claims nothing.
LEMMA NewFollowed ==
  ASSUME NEW sc, NEW p, NEW x, NEW ks
  PROVE  NewAccumulator \in Accumulator /\ ~NewAccumulator.baselined
         /\ Followed(NewAccumulator, sc, p, x, ks)
BY DEF NewAccumulator, Accumulator, Stamp, Followed, AtMost

\* What covers a path covers it while it is silent.
LEMMA SilentCovers ==
  ASSUME NEW sc, NEW p \in Path, NEW x \in PathState, NEW y \in PathState,
         Silent(sc, p, x, y), NEW acc \in Accumulator, Covers(acc, sc, p, x)
  PROVE  Covers(acc, sc, p, y)
<1> DEFINE U == Upto(sc, p, x.pos)
           V == Upto(sc, p, y.pos)
           C == Closing(x)
           D == Closing(y)
           H == acc.book \cup acc.pending
<1>1. U \subseteq V
  BY UptoGrows DEF Silent, PathState
<1>2. H \subseteq U /\ (x.status = "ready" => H \cup C = U)
  BY DEF Covers
<1>3. y.status = "ready" => /\ x.status = "ready"
                            /\ (D = C /\ V = U) \/ (C = {} /\ V = U \cup D)
  BY DEF Silent
<1> HIDE DEF U, V, C, D, H
<1>4. H \subseteq V /\ (y.status = "ready" => H \cup D = V)
  BY <1>1, <1>2, <1>3
<1> QED BY <1>4 DEF Covers, H, D, V

\* What the arbiter keeps of a path is in step while the path is silent.
LEMMA SilentFollowed ==
  ASSUME NEW sc, NEW p \in Path, NEW x \in PathState, NEW y \in PathState,
         Silent(sc, p, x, y), NEW acc \in Accumulator, NEW ks, Followed(acc, sc, p, x, ks)
  PROVE  Followed(acc, sc, p, y, ks)
<1>1. \A t \in Stamp : AtMost(t, x.pos) => AtMost(t, y.pos)
  BY DEF AtMost, Stamp, Silent, PathState
<1>2. AtMost(acc.batch_id, y.pos) /\ AtMost(acc.pending_batch_id, y.pos)
  BY <1>1 DEF Followed, Accumulator
<1> QED BY <1>2, SilentCovers DEF Followed

-----------------------------------------------------------------------------
(* The gate.                                                                *)

\* One batch is sent: the slot never moves back, and the consumer folds the batch.
Delivered(k, c, b, o) ==
  /\ o.bm \in BookMarket /\ o.consumer \in Consumer /\ Published(o.bm, o.consumer)
  /\ o.bm.paths = k.paths /\ o.bm.rebaseline = k.rebaseline /\ o.bm.withheld = k.withheld
  /\ k.wire_slot # None => o.bm.wire_slot # None /\ o.consumer.slot >= c.slot
  /\ ~b.last => /\ o.consumer.book = c.book /\ o.consumer.at = c.at
                /\ o.consumer.pending = c.pending \cup b.changes
  /\ b.last => /\ o.consumer.pending = {} /\ o.consumer.at \in {None, b.batch_id}
               /\ o.consumer.book = IF b.clear THEN b.changes
                                    ELSE c.book \cup c.pending \cup b.changes

\* monotonic_slot and the consumer's fold do that.
LEMMA Sent ==
  ASSUME NEW k \in BookMarket, NEW c \in Consumer, NEW b \in Batch, Published(k, c),
         b.clear => b.last, NEW o, o = send(k, c, b)
  PROVE  Delivered(k, c, b, o)
<1> DEFINE s == monotonic_slot(k, b.batch_id)
           d == [b EXCEPT !.batch_id = s]
           kk == IF s = None THEN k ELSE [k EXCEPT !.wire_slot = s]
           cc == received(c, d)
<1>1. o.bm = kk /\ o.consumer = cc
  BY DEF send
<1>2. /\ s \in Stamp /\ s \in {None, b.batch_id}
      /\ s # None /\ k.wire_slot # None => s >= k.wire_slot
  BY Constants DEF monotonic_slot, BookMarket, Batch, Stamp
<1> HIDE DEF s
<1>3. /\ d \in Batch /\ d.batch_id = s /\ d.clear = b.clear /\ d.last = b.last
      /\ d.changes = b.changes
  BY <1>2 DEF Batch
<1> HIDE DEF d
<1>4. /\ kk \in BookMarket /\ kk.paths = k.paths /\ kk.rebaseline = k.rebaseline
      /\ kk.withheld = k.withheld /\ kk.wire_slot = IF s = None THEN k.wire_slot ELSE s
  BY <1>2 DEF BookMarket
<1> HIDE DEF kk
<1>5. /\ cc \in Consumer /\ cc.slot = IF s = None THEN c.slot ELSE s
      /\ ~b.last => /\ cc.book = c.book /\ cc.at = c.at
                    /\ cc.pending = c.pending \cup b.changes
      /\ b.last => /\ cc.pending = {} /\ cc.at = s
                   /\ cc.book = IF b.clear THEN b.changes
                                ELSE c.book \cup c.pending \cup b.changes
  <2> DEFINE buf == IF b.clear THEN b.changes ELSE c.pending \cup b.changes
             t == IF s = None THEN c.slot ELSE s
             bk == IF b.clear THEN buf ELSE c.book \cup buf
  <2>1. cc = IF ~b.last THEN [c EXCEPT !.pending = buf, !.slot = t]
             ELSE [book |-> bk, pending |-> {}, slot |-> t, at |-> s]
    BY <1>3, Zenon DEF received
  <2>2. buf \in SUBSET ChangeId /\ bk \in SUBSET ChangeId /\ t \in Stamp
    BY <1>2 DEF Consumer, Batch
  <2>3. ~b.last => buf = c.pending \cup b.changes
    BY DEF Batch
  <2>4. bk = IF b.clear THEN b.changes ELSE c.book \cup c.pending \cup b.changes
    OBVIOUS
  <2> HIDE DEF cc, buf, t, bk
  <2>5. CASE ~b.last
    BY <2>1, <2>2, <2>3, <2>5 DEF Consumer, t
  <2>6. CASE b.last
    BY <1>2, <2>1, <2>2, <2>4, <2>6 DEF Consumer, t
  <2> QED BY <2>5, <2>6 DEF Batch
<1> HIDE DEF cc
<1>6. Published(kk, cc) /\ (k.wire_slot # None => kk.wire_slot # None /\ cc.slot >= c.slot)
  <2>1. kk # None /\ k # None
    BY <1>4, GateNone
  <2>2. k.wire_slot # None => c.slot = k.wire_slot /\ c.slot \in Nat
    BY <2>1 DEF Published, BookMarket, Stamp
  <2>3. CASE s = None
    BY <1>4, <1>5, <2>1, <2>2, <2>3 DEF Published
  <2>4. CASE s # None
    BY <1>2, <1>4, <1>5, <2>1, <2>2, <2>4 DEF Published, Stamp
  <2> QED BY <2>3, <2>4
<1> QED BY <1>1, <1>2, <1>4, <1>5, <1>6 DEF Delivered
Market0 == IF bm = None THEN NewBookMarket ELSE bm

\* p goes to y and sends b, with the ends of its events those of ls.
Sends(p, y, b, ls) ==
  /\ y \in PathState /\ b \in Batch /\ Emits(scope, p, path[p], y, b)
  /\ ls \in SUBSET Nat /\ closed[p] \subseteq ls /\ (b.last => y.pos \in ls)

\* What a batch of p leaves: the invariant, no slot moved back, and one book.
Lands(k, r, c, q, p, y, ls) ==
  /\ k \in BookMarket /\ r \in Accumulator \cup {None} /\ c \in Consumer
  /\ GateInv(k, r, c, q, [path EXCEPT ![p] = y], [closed EXCEPT ![p] = ls], scope)
  /\ bm # None /\ bm.wire_slot # None => c.slot >= consumer.slot
  /\ Patient /\ OneInv => Same(r, c, [closed EXCEPT ![p] = ls], scope)

\* The gate's state of the market before the batch.
LEMMA MarketBefore ==
  ASSUME Inv
  PROVE  /\ Market0 \in BookMarket /\ Published(Market0, consumer)
         /\ Tracked(Market0, path, closed, scope)
         /\ Patient => Market0.withheld < MAX_WITHHELD_BATCHES
         /\ bm # None => Market0 = bm
         /\ replay # None => bm # None
<1>1. NewBookMarket \in BookMarket /\ NewBookMarket.wire_slot = None
      /\ NewBookMarket.withheld = 0 /\ \A p \in Path : NewBookMarket.paths[p] = None
  BY DEF NewBookMarket, BookMarket, Stamp
<1>2. CASE bm = None
  BY <1>1, <1>2, Constants DEF Market0, Published, Tracked, Inv, GateInv
<1>3. CASE bm # None
  BY <1>3 DEF Market0, Inv, TypeOK, GateInv, Patient
<1> QED BY <1>2, <1>3

\* accumulate_book: the path's copy is folded in whether or not the batch goes out.
Accumulated(k, p, y, b, ls) ==
  /\ k \in BookMarket /\ Published(k, consumer)
  /\ k.rebaseline = Market0.rebaseline /\ k.withheld = Market0.withheld
  /\ k.wire_slot = Market0.wire_slot
  /\ k.paths[p] \in Accumulator /\ k.paths[p] # None
  /\ b.last => k.paths[p].pending = {}
  /\ Tracked(k, [path EXCEPT ![p] = y], [closed EXCEPT ![p] = ls], scope)

\* accumulate_book leaves that.
LEMMA Accumulates ==
  ASSUME Inv, NEW p \in Path, NEW y, NEW b, NEW ls, Sends(p, y, b, ls),
         NEW k, k = accumulate_book(Market0, p, b)
  PROVE  Accumulated(k, p, y, b, ls)
<1> DEFINE m == Market0
           acc == IF m.paths[p] = None THEN NewAccumulator ELSE m.paths[p]
           f == fold(acc, b)
           ps == [m.paths EXCEPT ![p] = f]
           xs == [path EXCEPT ![p] = y]
           cl == [closed EXCEPT ![p] = ls]
<1>1. m \in BookMarket /\ Published(m, consumer) /\ Tracked(m, path, closed, scope)
  BY MarketBefore
<1>2. y \in PathState /\ b \in Batch /\ Emits(scope, p, path[p], y, b) /\ path[p] \in PathState
      /\ ls \in SUBSET Nat /\ closed[p] \subseteq ls /\ (b.last => y.pos \in ls)
  BY DEF Sends, Inv, TypeOK
<1>3. acc \in Accumulator /\ Followed(acc, scope, p, path[p], closed[p])
  <2>1. CASE m.paths[p] = None
    BY <2>1, NewFollowed
  <2>2. CASE m.paths[p] # None
    BY <1>1, <2>2 DEF Tracked, BookMarket
  <2> QED BY <2>1, <2>2
<1>4. k = [m EXCEPT !.paths = ps]
  BY <1>1 DEF accumulate_book, BookMarket
<1> HIDE DEF m, acc
<1>5. f \in Accumulator /\ Followed(f, scope, p, y, ls)
  BY <1>2, <1>3, FoldFollowed
<1>6. b.last => f.pending = {}
  <2>1. Folded(acc, b, f)
    BY <1>2, <1>3, FoldIs DEF Emits
  <2> QED BY <2>1 DEF Folded
<1> HIDE DEF f
<1>7. ps \in [Path -> Accumulator \cup {None}] /\ ps[p] = f
      /\ \A q \in Path \ {p} : ps[q] = m.paths[q]
  BY <1>1, <1>5 DEF BookMarket
<1> HIDE DEF ps
<1>8. /\ k \in BookMarket /\ k.paths = ps /\ k.rebaseline = m.rebaseline
      /\ k.withheld = m.withheld /\ k.wire_slot = m.wire_slot
  BY <1>1, <1>4, <1>7 DEF BookMarket
<1>9. xs[p] = y /\ cl[p] = ls /\ \A q \in Path \ {p} : xs[q] = path[q] /\ cl[q] = closed[q]
  BY DEF Inv, TypeOK
<1> HIDE DEF xs, cl
<1>10. Tracked(k, xs, cl, scope)
  <2> SUFFICES ASSUME NEW q \in Path, k.paths[q] # None
               PROVE  Followed(k.paths[q], scope, q, xs[q], cl[q])
    BY DEF Tracked
  <2>1. CASE q = p
    BY <1>5, <1>7, <1>8, <1>9, <2>1
  <2>2. CASE q # p
    BY <1>1, <1>7, <1>8, <1>9, <2>2 DEF Tracked
  <2> QED BY <2>1, <2>2
<1>11. Published(k, consumer) /\ f # None
  <2>1. k # None /\ m # None /\ f # None
    BY <1>1, <1>5, <1>8, GateNone
  <2> QED BY <1>1, <1>8, <2>1 DEF Published
<1> QED BY <1>5, <1>6, <1>7, <1>8, <1>10, <1>11 DEF Accumulated, m, xs, cl
\* A path that goes on keeps the whole books there were.
LEMMA WholeKept ==
  ASSUME Inv, NEW p \in Path, NEW ls, closed[p] \subseteq ls, NEW book, NEW t,
         \E q \in Path : WholeAt(book, scope, q, closed[q], t)
  PROVE  \E q \in Path : WholeAt(book, scope, q, [closed EXCEPT ![p] = ls][q], t)
<1> DEFINE cl == [closed EXCEPT ![p] = ls]
<1>1. PICK q \in Path : WholeAt(book, scope, q, closed[q], t)
  OBVIOUS
<1>2. closed[q] \subseteq cl[q]
  BY DEF Inv, TypeOK
<1> HIDE DEF cl
<1>3. WholeAt(book, scope, q, cl[q], t)
  BY <1>1, <1>2 DEF WholeAt
<1> QED BY <1>3 DEF cl

\* A batch that is dropped: what its path had that the consumer follows is re-baselined.
LEMMA DroppedLands ==
  ASSUME Inv, NEW p \in Path, NEW y, NEW b, NEW ls, Sends(p, y, b, ls),
         NEW k, Accumulated(k, p, y, b, ls), NEW prev, prev = last_admitted(au, market),
         NEW d, d = dropped(k, prev, p, b)
  PROVE  Lands(d, replay, consumer, prev, p, y, ls)
<1> DEFINE xs == [path EXCEPT ![p] = y]
           cl == [closed EXCEPT ![p] = ls]
<1>1. /\ d \in BookMarket /\ d.paths = k.paths /\ d.wire_slot = k.wire_slot
      /\ d.rebaseline \/ (d = k /\ (prev = p => ~b.clear /\ b.changes = {}))
  BY DEF dropped, Accumulated, BookMarket
<1>2. replay \in Accumulator \cup {None} /\ consumer \in Consumer /\ d # None /\ k # None
      /\ prev \in Path \cup {None}
  BY <1>1, GateNone, Constants DEF Inv, TypeOK, Accumulated, AuthState, MarketState, last_admitted
<1>3. Tracked(d, xs, cl, scope)
  BY <1>1 DEF Accumulated, Tracked
<1>4. Published(d, consumer)
  BY <1>1, <1>2 DEF Accumulated, Published
<1>5. closed[p] \subseteq ls
  BY DEF Sends
<1>6. ASSUME replay # None, replay.baselined
      PROVE  /\ \E q \in Path : WholeAt(replay.book, scope, q, cl[q], None)
             /\ ~d.rebaseline /\ prev # None => Covers(replay, scope, prev, xs[prev])
  <2>1. /\ \E q \in Path : WholeAt(replay.book, scope, q, closed[q], None)
        /\ ~bm.rebaseline /\ prev # None => Covers(replay, scope, prev, path[prev])
    BY <1>6 DEF Inv, GateInv, Offered
  <2>2. \E q \in Path : WholeAt(replay.book, scope, q, cl[q], None)
    BY <1>5, <2>1, WholeKept
  <2>3. ASSUME ~d.rebaseline, prev # None PROVE Covers(replay, scope, prev, xs[prev])
    <3>1. k.rebaseline = bm.rebaseline /\ d = k
      BY <1>1, <1>6, <2>3, MarketBefore DEF Accumulated
    <3>2. Covers(replay, scope, prev, path[prev]) /\ prev \in Path
      BY <1>2, <2>1, <2>3, <3>1
    <3>3. CASE prev # p
      BY <3>2, <3>3 DEF Inv, TypeOK
    <3>4. CASE prev = p
      <4>1. ~b.clear /\ b.changes = {}
        BY <1>1, <2>3, <3>4
      <4>2. Silent(scope, p, path[p], y)
        <5>1. y.close = None /\ Closing(y) = {} /\ path[p].status = "ready"
              /\ path[p].pos <= y.pos
          BY <4>1 DEF Sends, Emits, Closing
        <5>2. \/ Closing(path[p]) = {} /\ y.pos = path[p].pos
              \/ Closing(path[p]) = {}
                 /\ Upto(scope, p, y.pos) = Upto(scope, p, path[p].pos)
          BY <4>1 DEF Sends, Emits
        <5> QED BY <5>1, <5>2 DEF Silent
      <4>3. Covers(replay, scope, p, y)
        BY <1>2, <1>6, <3>2, <3>4, <4>2, SilentCovers DEF Sends, Inv, TypeOK
      <4> QED BY <3>4, <4>3 DEF Inv, TypeOK
    <3> QED BY <3>3, <3>4
  <2> QED BY <2>2, <2>3
<1>7. GateInv(d, replay, consumer, prev, xs, cl, scope)
  BY <1>2, <1>3, <1>4, <1>6 DEF GateInv, Offered
<1>8. bm # None /\ bm.wire_slot # None => consumer.slot >= consumer.slot
  BY DEF Inv, TypeOK, GateInv, Published, BookMarket, Stamp
<1>9. OneInv => Same(replay, consumer, cl, scope)
  <2> SUFFICES ASSUME OneInv, replay # None, replay.baselined
               PROVE  /\ consumer.book = replay.book /\ consumer.pending = replay.pending
                      /\ \E q \in Path : WholeAt(replay.book, scope, q, cl[q], consumer.at)
    BY DEF Same
  <2>1. /\ consumer.book = replay.book /\ consumer.pending = replay.pending
        /\ \E q \in Path : WholeAt(replay.book, scope, q, closed[q], consumer.at)
    BY DEF OneInv, Same
  <2> QED BY <1>5, <2>1, WholeKept
<1> QED BY <1>1, <1>2, <1>7, <1>8, <1>9 DEF Lands
\* A batch withheld until the end of the event: a re-baseline is owed.
LEMMA WithheldLands ==
  ASSUME Inv, NEW p \in Path, NEW y, NEW b, NEW ls, Sends(p, y, b, ls),
         NEW k, Accumulated(k, p, y, b, ls),
         NEW d, d = [k EXCEPT !.rebaseline = TRUE, !.withheld = @ + 1]
  PROVE  Lands(d, replay, consumer, p, p, y, ls)
<1> DEFINE xs == [path EXCEPT ![p] = y]
           cl == [closed EXCEPT ![p] = ls]
<1>1. d \in BookMarket /\ d.paths = k.paths /\ d.wire_slot = k.wire_slot /\ d.rebaseline
  <2> DEFINE w == k.withheld + 1
  <2>1. k \in BookMarket /\ w \in Nat
    BY DEF Accumulated, BookMarket
  <2>2. d = [k EXCEPT !.rebaseline = TRUE, !.withheld = w]
    BY <2>1 DEF BookMarket
  <2> HIDE DEF w
  <2>3. d \in BookMarket /\ d.paths = k.paths /\ d.wire_slot = k.wire_slot
    BY <2>1, <2>2 DEF BookMarket
  <2>4. d.rebaseline
    BY <2>1, <2>2 DEF BookMarket
  <2> QED BY <2>3, <2>4
<1>2. replay \in Accumulator \cup {None} /\ consumer \in Consumer /\ d # None /\ k # None
  BY <1>1, GateNone DEF Inv, TypeOK, Accumulated
<1>3. Tracked(d, xs, cl, scope)
  BY <1>1 DEF Accumulated, Tracked
<1>4. Published(d, consumer)
  BY <1>1, <1>2 DEF Accumulated, Published
<1>5. closed[p] \subseteq ls
  BY DEF Sends
<1>6. ASSUME replay # None, replay.baselined
      PROVE  \E q \in Path : WholeAt(replay.book, scope, q, cl[q], None)
  <2>1. \E q \in Path : WholeAt(replay.book, scope, q, closed[q], None)
    BY <1>6 DEF Inv, GateInv, Offered
  <2> QED BY <1>5, <2>1, WholeKept
<1>7. GateInv(d, replay, consumer, p, xs, cl, scope)
  BY <1>1, <1>2, <1>3, <1>4, <1>6 DEF GateInv, Offered
<1>8. bm # None /\ bm.wire_slot # None => consumer.slot >= consumer.slot
  BY DEF Inv, TypeOK, GateInv, Published, BookMarket, Stamp
<1>9. OneInv => Same(replay, consumer, cl, scope)
  <2> SUFFICES ASSUME OneInv, replay # None, replay.baselined
               PROVE  /\ consumer.book = replay.book /\ consumer.pending = replay.pending
                      /\ \E q \in Path : WholeAt(replay.book, scope, q, cl[q], consumer.at)
    BY DEF Same
  <2>1. /\ consumer.book = replay.book /\ consumer.pending = replay.pending
        /\ \E q \in Path : WholeAt(replay.book, scope, q, closed[q], consumer.at)
    BY DEF OneInv, Same
  <2> QED BY <1>5, <2>1, WholeKept
<1> QED BY <1>1, <1>2, <1>7, <1>8, <1>9 DEF Lands

\* A batch that goes out as it came, onto a replay entry that has all its path sent: the entry
\* and the consumer fold it alike.
LEMMA AppliedLands ==
  ASSUME Inv, NEW p \in Path, NEW y, NEW b, NEW ls, Sends(p, y, b, ls),
         NEW k, Accumulated(k, p, y, b, ls),
         replay # None /\ replay.baselined => Covers(replay, scope, p, path[p]),
         NEW o, o = apply_book_replay(k, b)
  PROVE  Lands(o.bm, o.replay, o.consumer, p, p, y, ls)
<1> DEFINE xs == [path EXCEPT ![p] = y]
           cl == [closed EXCEPT ![p] = ls]
           r == send(k, consumer, b)
           acc == IF replay = None THEN NewAccumulator ELSE replay
           f == fold(acc, b)
<1>1. o.bm = r.bm /\ o.consumer = r.consumer /\ o.replay = f
  BY DEF apply_book_replay
<1>2. /\ y \in PathState /\ b \in Batch /\ Emits(scope, p, path[p], y, b) /\ path[p] \in PathState
      /\ ls \in SUBSET Nat /\ closed[p] \subseteq ls /\ (b.last => y.pos \in ls)
      /\ (b.clear => b.last) /\ consumer \in Consumer /\ k \in BookMarket
      /\ xs[p] = y /\ cl[p] = ls
  BY DEF Sends, Inv, TypeOK, Emits, Accumulated
<1>3. Delivered(k, consumer, b, r)
  BY <1>2, Sent DEF Accumulated
<1> HIDE DEF r
<1>4. acc \in Accumulator /\ (acc.baselined => replay # None /\ acc = replay)
      /\ (acc.baselined => Covers(acc, scope, p, path[p]))
  <2>1. CASE replay = None
    BY <2>1, NewFollowed
  <2>2. CASE replay # None
    BY <2>2 DEF Inv, TypeOK
  <2> QED BY <2>1, <2>2
<1> HIDE DEF acc
<1>5. Folded(acc, b, f)
  BY <1>2, <1>4, FoldIs
<1>6. f.baselined => Covers(f, scope, p, y) /\ (b.last => f.book = Upto(scope, p, y.pos))
  BY <1>2, <1>4, FoldCovers
<1> HIDE DEF f, xs, cl
<1>7. r.bm \in BookMarket /\ r.consumer \in Consumer /\ Published(r.bm, r.consumer)
      /\ r.bm.paths = k.paths /\ r.bm # None /\ f \in Accumulator
  BY <1>3, <1>5, GateNone DEF Delivered, Folded
<1>8. Tracked(r.bm, xs, cl, scope)
  BY <1>7 DEF Accumulated, Tracked, xs, cl
<1>9. ASSUME f.baselined, ~b.last
      PROVE  replay # None /\ replay.baselined /\ f.book = replay.book
             /\ f.pending = replay.pending \cup b.changes
  BY <1>2, <1>4, <1>5, <1>9 DEF Folded
<1>10. ASSUME f.baselined
       PROVE  \E q \in Path : WholeAt(f.book, scope, q, cl[q], None)
  <2>1. CASE b.last
    BY <1>2, <1>6, <1>10, <2>1 DEF WholeAt, AtMost
  <2>2. CASE ~b.last
    <3>1. \E q \in Path : WholeAt(replay.book, scope, q, closed[q], None)
      BY <1>9, <1>10, <2>2 DEF Inv, GateInv, Offered
    <3> QED BY <1>2, <1>9, <1>10, <2>2, <3>1, WholeKept DEF cl
  <2> QED BY <2>1, <2>2
<1>11. GateInv(r.bm, f, r.consumer, p, xs, cl, scope)
  BY <1>2, <1>6, <1>7, <1>8, <1>10 DEF GateInv, Offered
<1>12. bm # None /\ bm.wire_slot # None => r.consumer.slot >= consumer.slot
  <2>1. bm # None => k.wire_slot = bm.wire_slot
    BY MarketBefore DEF Accumulated
  <2> QED BY <1>3, <2>1 DEF Delivered
<1>13. OneInv => Same(f, r.consumer, cl, scope)
  <2> SUFFICES ASSUME OneInv, f.baselined
               PROVE  /\ r.consumer.book = f.book /\ r.consumer.pending = f.pending
                      /\ \E q \in Path : WholeAt(f.book, scope, q, cl[q], r.consumer.at)
    BY DEF Same
  <2>1. acc.baselined => /\ consumer.book = acc.book /\ consumer.pending = acc.pending
                         /\ \E q \in Path : WholeAt(acc.book, scope, q, closed[q], consumer.at)
    BY <1>4 DEF OneInv, Same
  <2>2. b.clear \/ acc.baselined
    BY <1>5 DEF Folded
  <2>3. CASE b.last
    <3>1. r.consumer.pending = {} /\ f.pending = {} /\ r.consumer.at \in {None, b.batch_id}
      BY <1>3, <1>5, <2>3 DEF Delivered, Folded
    <3>2. r.consumer.book = f.book
      BY <1>3, <1>5, <2>1, <2>2, <2>3 DEF Delivered, Folded
    <3>3. AtMost(r.consumer.at, y.pos)
      BY <1>2, <3>1 DEF Emits, AtMost
    <3>4. WholeAt(f.book, scope, p, cl[p], r.consumer.at)
      BY <1>2, <1>6, <2>3, <3>3 DEF WholeAt
    <3> QED BY <3>1, <3>2, <3>4
  <2>4. CASE ~b.last
    <3>1. /\ r.consumer.book = consumer.book /\ r.consumer.at = consumer.at
          /\ r.consumer.pending = consumer.pending \cup b.changes
      BY <1>3, <2>4 DEF Delivered
    <3>2. acc.baselined /\ f.book = acc.book /\ f.pending = acc.pending \cup b.changes
      BY <1>2, <1>5, <2>2, <2>4 DEF Folded
    <3>3. \E q \in Path : WholeAt(f.book, scope, q, cl[q], r.consumer.at)
      BY <1>2, <2>1, <3>1, <3>2, WholeKept DEF cl
    <3> QED BY <2>1, <3>1, <3>2, <3>3
  <2> QED BY <2>3, <2>4
<1> QED BY <1>1, <1>7, <1>11, <1>12, <1>13 DEF Lands, xs, cl
\* rebaseline_book: the path's whole book replaces the consumer's, or, with no complete book, a
\* bare clear and the batch go out and the entry does not claim to be complete.
LEMMA RebaselinedLands ==
  ASSUME Inv, NEW p \in Path, NEW y, NEW b, NEW ls, Sends(p, y, b, ls),
         NEW k, Accumulated(k, p, y, b, ls), ~waits(k, b),
         NEW o, o = rebaseline_book(k, p, b)
  PROVE  Lands(o.bm, o.replay, o.consumer, p, p, y, ls)
<1> DEFINE xs == [path EXCEPT ![p] = y]
           cl == [closed EXCEPT ![p] = ls]
           acc == k.paths[p]
           done == [k EXCEPT !.rebaseline = FALSE, !.withheld = 0]
           full == send(done, consumer, to_book(acc))
           bare == send(done, consumer, clear_only(b))
           rest == send(bare.bm, bare.consumer, b)
           r == IF acc.baselined THEN full ELSE rest
<1>1. o.bm = r.bm /\ o.consumer = r.consumer /\ o.replay = acc
  BY DEF rebaseline_book
<1>2. /\ y \in PathState /\ b \in Batch /\ ls \in SUBSET Nat /\ closed[p] \subseteq ls
      /\ (b.clear => b.last) /\ consumer \in Consumer /\ k \in BookMarket
      /\ acc \in Accumulator /\ acc # None /\ xs[p] = y /\ cl[p] = ls
      /\ Published(k, consumer)
  BY DEF Sends, Inv, TypeOK, Emits, Accumulated
<1>3. /\ done \in BookMarket /\ done.paths = k.paths /\ done.wire_slot = k.wire_slot
  BY <1>2 DEF BookMarket
<1>4. Published(done, consumer)
  <2>1. done # None /\ k # None
    BY <1>2, <1>3, GateNone
  <2> HIDE DEF done
  <2> QED BY <1>2, <1>3, <2>1 DEF Published
<1>5. Followed(acc, scope, p, y, ls)
  BY <1>2 DEF Accumulated, Tracked
<1> HIDE DEF done, acc, xs, cl
<1>6. /\ to_book(acc) \in Batch /\ to_book(acc).clear /\ to_book(acc).last
      /\ to_book(acc).changes = acc.book /\ to_book(acc).batch_id = acc.batch_id
  <2> DEFINE bk == acc.book
             id == acc.batch_id
  <2>1. bk \in SUBSET ChangeId /\ id \in Stamp
    BY <1>2 DEF Accumulator
  <2>2. to_book(acc) = [clear |-> TRUE, changes |-> bk, last |-> TRUE, batch_id |-> id]
    BY DEF to_book
  <2> HIDE DEF bk, id
  <2>3. to_book(acc) \in Batch /\ to_book(acc).changes = bk /\ to_book(acc).batch_id = id
    BY <2>1, <2>2 DEF Batch
  <2>4. to_book(acc).clear /\ to_book(acc).last
    BY <2>2
  <2> QED BY <2>3, <2>4 DEF bk, id
<1>7. clear_only(b) \in Batch /\ clear_only(b).last
  <2>1. clear_only(b) \in Batch
    BY <1>2 DEF clear_only, Batch
  <2>2. clear_only(b).last
    BY <1>2 DEF clear_only, Batch
  <2> QED BY <2>1, <2>2
<1>8. Delivered(done, consumer, to_book(acc), full)
  BY <1>2, <1>3, <1>4, <1>6, Sent
<1>9. Delivered(done, consumer, clear_only(b), bare)
  BY <1>2, <1>3, <1>4, <1>7, Sent
<1> HIDE DEF full, bare
<1>10. Delivered(bare.bm, bare.consumer, b, rest)
  <2>1. bare.bm \in BookMarket /\ bare.consumer \in Consumer /\ Published(bare.bm, bare.consumer)
    BY <1>9 DEF Delivered
  <2> QED BY <1>2, <2>1, Sent
<1> HIDE DEF rest
<1>11. /\ r.bm \in BookMarket /\ r.consumer \in Consumer /\ Published(r.bm, r.consumer)
       /\ r.bm.paths = k.paths
  <2>1. CASE acc.baselined
    BY <1>3, <1>8, <2>1 DEF Delivered
  <2>2. CASE ~acc.baselined
    BY <1>3, <1>9, <1>10, <2>2 DEF Delivered
  <2> QED BY <2>1, <2>2
<1>12. bm # None /\ bm.wire_slot # None => r.consumer.slot >= consumer.slot
  <2> SUFFICES ASSUME bm # None, bm.wire_slot # None PROVE r.consumer.slot >= consumer.slot
    OBVIOUS
  <2>1. done.wire_slot # None
    BY <1>3, MarketBefore DEF Accumulated
  <2>2. CASE acc.baselined
    BY <1>8, <2>1, <2>2 DEF Delivered
  <2>3. CASE ~acc.baselined
    <3>1. bare.bm.wire_slot # None /\ bare.consumer.slot >= consumer.slot
          /\ rest.consumer.slot >= bare.consumer.slot /\ rest.bm.wire_slot # None
      BY <1>9, <1>10, <2>1 DEF Delivered
    <3>2. consumer.slot \in Nat
      BY DEF Inv, TypeOK, GateInv, Published, BookMarket, Stamp
    <3>3. bare.consumer.slot \in Nat /\ rest.consumer.slot \in Nat
      <4>1. bare.bm # None /\ rest.bm # None /\ bare.bm \in BookMarket /\ rest.bm \in BookMarket
        BY <1>9, <1>10, GateNone DEF Delivered
      <4> QED BY <1>9, <1>10, <3>1, <4>1 DEF Delivered, Published, BookMarket, Stamp
    <3>4. r.consumer.slot = rest.consumer.slot
      BY <2>3
    <3> QED BY <3>1, <3>2, <3>3, <3>4
  <2> QED BY <2>2, <2>3
<1>13. Patient => Same(acc, r.consumer, cl, scope)
  <2> SUFFICES ASSUME Patient, acc.baselined
               PROVE  /\ r.consumer.book = acc.book /\ r.consumer.pending = acc.pending
                      /\ \E q \in Path : WholeAt(acc.book, scope, q, cl[q], r.consumer.at)
    BY DEF Same
  <2>1. b.last
    BY MarketBefore, Constants DEF waits, Accumulated
  <2>2. acc.pending = {}
    BY <2>1 DEF Accumulated, acc
  <2>3. r.consumer.pending = {} /\ r.consumer.book = acc.book
        /\ r.consumer.at \in {None, acc.batch_id}
    BY <1>6, <1>8 DEF Delivered
  <2>4. WholeAt(acc.book, scope, p, ls, acc.batch_id)
    BY <1>5 DEF Followed
  <2>5. WholeAt(acc.book, scope, p, ls, r.consumer.at)
    BY <2>3, <2>4 DEF WholeAt, AtMost
  <2> QED BY <1>2, <2>2, <2>3, <2>5
<1> HIDE DEF r
<1>14. Tracked(r.bm, xs, cl, scope)
  BY <1>11 DEF Accumulated, Tracked, xs, cl
<1>15. ASSUME acc.baselined
       PROVE  /\ \E q \in Path : WholeAt(acc.book, scope, q, cl[q], None)
              /\ Covers(acc, scope, p, xs[p])
  BY <1>2, <1>5, <1>15 DEF Followed, WholeAt, AtMost
<1>16. r.bm # None
  BY <1>11, GateNone
<1>17. GateInv(r.bm, acc, r.consumer, p, xs, cl, scope)
  BY <1>11, <1>14, <1>15, <1>16 DEF GateInv, Offered
<1> QED BY <1>1, <1>2, <1>11, <1>12, <1>13, <1>17 DEF Lands, xs, cl

\* The gate's half of the book arm.
LEMMA BatchLands ==
  ASSUME Inv, NEW p \in Path, NEW y, NEW b, NEW ls, Sends(p, y, b, ls),
         NEW prev, prev = last_admitted(au, market), NEW out,
         NEW o, o = emit_scoped(p, b, prev, out)
  PROVE  Lands(o.bm, o.replay, o.consumer, IF out # "dropped" THEN p ELSE prev, p, y, ls)
<1> DEFINE k == accumulate_book(Market0, p, b)
           seamless == prev \notin {None, p} /\ seamless_handover(Market0, p)
           owes == k.rebaseline \/ (prev # p /\ ~seamless)
           w == [k EXCEPT !.rebaseline = TRUE, !.withheld = @ + 1]
<1>1. o = IF ~(out # "dropped")
            THEN [bm |-> dropped(k, prev, p, b), replay |-> replay, consumer |-> consumer]
          ELSE IF ~owes THEN apply_book_replay(k, b)
          ELSE IF waits(k, b) THEN [bm |-> w, replay |-> replay, consumer |-> consumer]
          ELSE rebaseline_book(k, p, b)
  BY Zenon DEF emit_scoped, Market0
<1>2. Accumulated(k, p, y, b, ls)
  BY Accumulates
<1> HIDE DEF k
<1>3. CASE out = "dropped"
  <2>1. o.bm = dropped(k, prev, p, b) /\ o.replay = replay /\ o.consumer = consumer
    BY <1>1, <1>3
  <2>2. Lands(dropped(k, prev, p, b), replay, consumer, prev, p, y, ls)
    BY <1>2, DroppedLands
  <2> QED BY <1>3, <2>1, <2>2
<1>4. CASE out # "dropped" /\ ~owes
  <2>1. o = apply_book_replay(k, b)
    BY <1>1, <1>4
  <2>2. ASSUME replay # None, replay.baselined PROVE Covers(replay, scope, p, path[p])
    <3>1. bm # None /\ Market0 = bm
      BY <2>2, MarketBefore
    <3>2. ~bm.rebaseline
      BY <1>2, <1>4, <3>1 DEF Accumulated
    <3>3. CASE prev = p
      BY <2>2, <3>2, <3>3, Constants DEF Inv, GateInv, Offered
    <3>4. CASE prev # p
      <4>1. seamless_handover(bm, p)
        BY <1>4, <3>1, <3>4
      <4> DEFINE inc == bm.paths[p]
      <4>2. /\ inc # None /\ inc.baselined /\ inc.pending = {} /\ replay.pending = {}
            /\ replay.book = inc.book
        BY <4>1, Zenon DEF seamless_handover
      <4>3. Followed(inc, scope, p, path[p], closed[p])
        BY <3>1, <4>2 DEF Inv, GateInv, Tracked
      <4> HIDE DEF inc
      <4> QED BY <4>2, <4>3 DEF Followed, Covers
    <3> QED BY <3>3, <3>4
  <2>3. Lands(o.bm, o.replay, o.consumer, p, p, y, ls)
    BY <1>2, <2>1, <2>2, AppliedLands
  <2> QED BY <1>4, <2>3
<1>5. CASE out # "dropped" /\ owes /\ waits(k, b)
  <2>1. o.bm = w /\ o.replay = replay /\ o.consumer = consumer
    BY <1>1, <1>5
  <2>2. Lands(w, replay, consumer, p, p, y, ls)
    BY <1>2, WithheldLands
  <2> QED BY <1>5, <2>1, <2>2
<1>6. CASE out # "dropped" /\ owes /\ ~waits(k, b)
  <2>1. o = rebaseline_book(k, p, b)
    BY <1>1, <1>6
  <2>2. Lands(o.bm, o.replay, o.consumer, p, p, y, ls)
    BY <1>2, <1>6, <2>1, RebaselinedLands
  <2> QED BY <1>6, <2>2
<1> QED BY <1>3, <1>4, <1>5, <1>6
-----------------------------------------------------------------------------
(* The steps.                                                               *)

\* The slots of a tracked market do not move back in this step.
SlotStep == bm # None /\ bm.wire_slot # None => consumer'.slot >= consumer.slot

\* What every step is to keep.
Preserved == Inv' /\ SlotStep /\ (Patient /\ OneInv => OneInv')

\* A batch of p goes through the arbiter.
LEMMA Emitted ==
  ASSUME Inv, NEW p \in Path, NEW y, NEW b, NEW ls, Sends(p, y, b, ls), Sound(scope, p, y),
         NEW synthesized \in BOOLEAN, Emit(p, b, synthesized), path' = [path EXCEPT ![p] = y],
         closed' = [closed EXCEPT ![p] = ls], scope' = scope
  PROVE  Preserved
<1>1. PICK v : /\ v = decision(p, b.clear, synthesized)
               /\ \E o \in {emit_scoped(p, b, v.prev, v.out)} :
                    au' = v.au /\ bm' = o.bm /\ replay' = o.replay /\ consumer' = o.consumer
  BY Zenon DEF Emit
<1>2. PICK o : /\ o = emit_scoped(p, b, v.prev, v.out)
               /\ au' = v.au /\ bm' = o.bm /\ replay' = o.replay /\ consumer' = o.consumer
  BY <1>1, Zenon
<1>3. y \in PathState /\ b \in Batch /\ b.clear \in BOOLEAN /\ ls \in SUBSET Nat
  BY DEF Sends, Batch
<1>4. /\ v.au \in AuthState /\ v.prev = last_admitted(au, market)
      /\ last_admitted(v.au, market) = IF v.out # "dropped" THEN p ELSE v.prev
  <2>1. au \in AuthState
    BY DEF Inv, TypeOK
  <2> QED BY <1>1, <1>3, <2>1, Decided
<1>5. Lands(bm', replay', consumer', last_admitted(au', market), p, y, ls)
  <2>1. Lands(o.bm, o.replay, o.consumer, IF v.out # "dropped" THEN p ELSE v.prev, p, y, ls)
    BY <1>2, <1>4, BatchLands
  <2> QED BY <1>2, <1>4, <2>1
<1>6. TypeOK'
  <2>1. path' \in [Path -> PathState] /\ closed' \in [Path -> SUBSET Nat] /\ scope' \in Scope
    BY <1>3 DEF Inv, TypeOK
  <2>2. au' \in AuthState
    BY <1>2, <1>4
  <2> QED BY <1>5, <2>1, <2>2 DEF TypeOK, Lands
<1>7. \A q \in Path : Sound(scope', q, path'[q])
  BY DEF Inv, TypeOK
<1>8. GateInv(bm', replay', consumer', last_admitted(au', market), path', closed', scope')
  BY <1>5 DEF Lands
<1>9. Patient /\ OneInv => Same(replay', consumer', closed', scope')
  BY <1>5 DEF Lands
<1>10. SlotStep
  BY <1>5 DEF Lands, SlotStep
<1> QED BY <1>6, <1>7, <1>8, <1>9, <1>10 DEF Preserved, Inv, OneInv

\* p goes on without a batch, and the authority keeps who was admitted.
LEMMA WentSilently ==
  ASSUME Inv, NEW p \in Path, NEW y \in PathState, Silent(scope, p, path[p], y),
         Sound(scope, p, y), path' = [path EXCEPT ![p] = y], Keeps(au, au'),
         UNCHANGED <<bm, replay, consumer, closed, scope>>
  PROVE  Preserved
<1> DEFINE q == last_admitted(au, market)
<1>1. path[p] \in PathState /\ path'[p] = y /\ \A s \in Path \ {p} : path'[s] = path[s]
  BY DEF Inv, TypeOK
<1>2. TypeOK'
  BY DEF Inv, TypeOK, Keeps
<1>3. \A s \in Path : Sound(scope', s, path'[s])
  BY <1>1 DEF Inv
<1>4. ASSUME bm # None PROVE Tracked(bm, path', closed, scope)
  <2> SUFFICES ASSUME NEW s \in Path, bm.paths[s] # None
               PROVE  Followed(bm.paths[s], scope, s, path'[s], closed[s])
    BY DEF Tracked
  <2>1. Followed(bm.paths[s], scope, s, path[s], closed[s]) /\ bm.paths[s] \in Accumulator
    BY <1>4 DEF Inv, TypeOK, GateInv, Tracked, BookMarket
  <2>2. CASE s = p
    BY <1>1, <2>1, <2>2, SilentFollowed
  <2>3. CASE s # p
    BY <1>1, <2>1, <2>3
  <2> QED BY <2>2, <2>3
<1>5. Offered(replay, bm, q, scope, path', closed)
  <2> SUFFICES ASSUME replay # None, replay.baselined
               PROVE  /\ \E s \in Path : WholeAt(replay.book, scope, s, closed[s], None)
                      /\ ~bm.rebaseline /\ q # None => Covers(replay, scope, q, path'[q])
    BY DEF Offered
  <2>1. /\ \E s \in Path : WholeAt(replay.book, scope, s, closed[s], None)
        /\ ~bm.rebaseline /\ q # None => Covers(replay, scope, q, path[q])
    BY DEF Inv, GateInv, Offered
  <2>2. replay \in Accumulator /\ q \in Path \cup {None}
    BY Constants DEF Inv, TypeOK, AuthState, MarketState, last_admitted
  <2>3. ASSUME ~bm.rebaseline, q # None PROVE Covers(replay, scope, q, path'[q])
    <3> HIDE DEF q
    <3>1. CASE q = p
      BY <1>1, <2>1, <2>2, <2>3, <3>1, SilentCovers
    <3>2. CASE q # p
      BY <1>1, <2>1, <2>2, <2>3, <3>2
    <3> QED BY <3>1, <3>2
  <2> QED BY <2>1, <2>3
<1>6. GateInv(bm, replay, consumer, q, path', closed, scope)
  BY <1>4, <1>5 DEF Inv, GateInv
<1>7. GateInv(bm', replay', consumer', last_admitted(au', market), path', closed', scope')
  BY <1>6 DEF Keeps
<1>8. SlotStep
  BY DEF SlotStep, Inv, TypeOK, GateInv, Published, BookMarket, Stamp
<1>9. OneInv => OneInv'
  BY DEF OneInv
<1> QED BY <1>2, <1>3, <1>7, <1>8, <1>9 DEF Preserved, Inv

\* Only the authority moves, and keeps who was admitted.
LEMMA OnlyAuthority ==
  ASSUME Inv, Keeps(au, au'), UNCHANGED <<bm, replay, consumer, path, closed, scope>>
  PROVE  Preserved
<1>1. TypeOK'
  BY DEF Inv, TypeOK, Keeps
<1>2. \A s \in Path : Sound(scope', s, path'[s])
  BY DEF Inv
<1>3. GateInv(bm', replay', consumer', last_admitted(au', market), path', closed', scope')
  BY DEF Keeps, Inv
<1>4. SlotStep
  BY DEF SlotStep, Inv, TypeOK, GateInv, Published, BookMarket, Stamp
<1>5. OneInv => OneInv'
  BY DEF OneInv
<1> QED BY <1>1, <1>2, <1>3, <1>4, <1>5 DEF Preserved, Inv
\* A path takes a change, the next or the last one repeated.
LEMMA Advances ==
  ASSUME NEW sc, NEW p \in Path, NEW x \in PathState, x.pos < Changes \/ Resent,
         NEW y, y = Advanced(x)
  PROVE  /\ y \in PathState /\ x.pos <= y.pos
         /\ y.status = x.status /\ y.open = x.open /\ y.slot = x.slot /\ y.lapsed = x.lapsed
         /\ y.filed = x.filed /\ y.close = x.close
         /\ Upto(sc, p, y.pos) = Upto(sc, p, x.pos) \cup {ChangeOf(sc, p, y.pos)}
<1> DEFINE n == IF x.pos < Changes THEN x.pos + 1 ELSE x.pos
<1>1. x.pos \in Nat /\ Changes \in Nat /\ (Resent => Changes > 0)
  BY GateAssumption DEF PathState
<1>2. n \in Nat /\ x.pos <= n
  BY <1>1
<1>3. Upto(sc, p, n) = Upto(sc, p, x.pos) \cup {ChangeOf(sc, p, n)}
  <2>1. CASE x.pos < Changes
    BY <1>1, <2>1, UptoNext
  <2>2. CASE ~(x.pos < Changes)
    <3>1. n = x.pos /\ n \in 1..n
      BY <1>1, <2>2
    <3> HIDE DEF n
    <3>2. ChangeOf(sc, p, n) \in Upto(sc, p, n)
      BY <3>1 DEF Upto
    <3> QED BY <3>1, <3>2
  <2> QED BY <2>1, <2>2
<1>4. y = [x EXCEPT !.pos = n]
  BY DEF Advanced, PathState
<1> HIDE DEF n
<1>5. /\ y \in PathState /\ y.pos = n
      /\ y.status = x.status /\ y.open = x.open /\ y.slot = x.slot /\ y.lapsed = x.lapsed
      /\ y.filed = x.filed /\ y.close = x.close
  BY <1>2, <1>4 DEF PathState
<1> QED BY <1>2, <1>3, <1>5

\* The slot of a path's batches is one it has closed.
LEMMA CommittedReached ==
  ASSUME NEW x \in PathState, AtMost(x.slot, x.pos)
  PROVE  committed_slot(x) \in Stamp /\ AtMost(committed_slot(x), x.pos)
BY DEF committed_slot, PathState, Stamp, AtMost

\* What a path that handles no close has of one.
LEMMA IdleCloses ==
  ASSUME NEW x \in PathState, x.close = None
  PROVE  Closing(x) = {}
BY DEF Closing

\* A part of an event goes out.
LEMMA PartKeeps ==
  ASSUME Inv, NEW p \in Path, Part(p)
  PROVE  Preserved
<1> DEFINE w == path[p]
           x == Advanced(w)
           y == [x EXCEPT !.open = TRUE]
           cs == {Change(p, x.pos)}
           id == committed_slot(x)
           b == [clear |-> FALSE, changes |-> cs, last |-> FALSE, batch_id |-> id]
           ls == closed[p]
<1>1. /\ Ready(p) /\ CanChange(p) /\ Emit(p, b, FALSE) /\ path' = [path EXCEPT ![p] = y]
      /\ UNCHANGED <<closed, scope>>
  BY Zenon DEF Part
<1>2. w \in PathState /\ w.close = None /\ w.status = "ready" /\ Sound(scope, p, w)
      /\ (w.pos < Changes \/ Resent)
  BY <1>1 DEF Ready, Done, Idle, CanChange, Inv, TypeOK
<1> HIDE DEF w
<1>3. /\ x \in PathState /\ w.pos <= x.pos /\ x.slot = w.slot /\ x.close = None
      /\ x.status = "ready" /\ Upto(scope, p, x.pos) = Upto(scope, p, w.pos) \cup cs
  <2> DEFINE u == Advanced(w)
  <2>1. u \in PathState /\ w.pos <= u.pos /\ u.slot = w.slot /\ u.close = w.close
        /\ u.status = w.status
        /\ Upto(scope, p, u.pos) = Upto(scope, p, w.pos) \cup {ChangeOf(scope, p, u.pos)}
    <3> HIDE DEF u
    <3>1. u = Advanced(w)
      BY DEF u
    <3> QED BY <1>2, <3>1, Advances
  <2>2. cs = {ChangeOf(scope, p, u.pos)}
    BY PrefixIs
  <2> HIDE DEF u, cs
  <2> QED BY <1>2, <2>1, <2>2 DEF u
<1>4. cs \in SUBSET ChangeId
  <2>1. x.pos \in Nat
    BY <1>3 DEF PathState
  <2> QED BY <2>1, UptoType, PrefixIs
<1> HIDE DEF x, cs
<1>5. y \in PathState /\ y.pos = x.pos /\ y.slot = x.slot /\ y.close = None /\ y.status = "ready"
  BY <1>3 DEF PathState
<1>6. AtMost(x.slot, x.pos)
  BY <1>2, <1>3 DEF Sound, AtMost, PathState, Stamp
<1>7. id \in Stamp /\ AtMost(id, x.pos)
  BY <1>3, <1>6, CommittedReached
<1> HIDE DEF y, id
<1>8. b \in Batch /\ b.changes = cs /\ b.batch_id = id
  BY <1>4, <1>7 DEF Batch
<1>9. ~b.clear /\ ~b.last
  OBVIOUS
<1> HIDE DEF b
<1>10. Emits(scope, p, w, y, b)
  BY <1>2, <1>3, <1>5, <1>7, <1>8, <1>9, IdleCloses DEF Emits
<1>11. Sends(p, y, b, ls)
  BY <1>5, <1>8, <1>9, <1>10 DEF Sends, Inv, TypeOK, w
<1>12. Sound(scope, p, y)
  BY <1>5, <1>6 DEF Sound
<1>13. closed' = [closed EXCEPT ![p] = ls]
  BY <1>1 DEF Inv, TypeOK
<1> QED BY <1>1, <1>11, <1>12, <1>13, Emitted

\* A close begins: what it took from the feed is still owed to the arbiter.
LEMMA CloseKeeps ==
  ASSUME Inv, NEW p \in Path, NEW kind, NEW changed \in BOOLEAN, Close(p, kind, changed)
  PROVE  Preserved
<1> DEFINE w == path[p]
           x == IF changed THEN Advanced(w) ELSE w
           cs == IF changed THEN {Change(p, x.pos)} ELSE {}
           st == IF kind = "boundary" /\ scope.slotted THEN x.pos ELSE x.slot
           z == [owed |-> book_rebaselines_owed(p), changes |-> cs, synthesized |-> kind = "tick"]
           y == [x EXCEPT !.lapsed = kind # "boundary", !.slot = st, !.close = z]
<1>1. Ready(p) /\ (changed => CanChange(p)) /\ UNCHANGED <<au, bm, replay, consumer, closed, scope>>
  BY Zenon DEF Close
<1>2. path' = [path EXCEPT ![p] = [x EXCEPT !.lapsed = kind # "boundary",
                !.slot = IF kind = "boundary" /\ scope.slotted THEN x.pos ELSE @, !.close = z]]
  BY Zenon DEF Close
<1>3. w \in PathState /\ w.close = None /\ w.status = "ready" /\ Sound(scope, p, w)
      /\ (changed => w.pos < Changes \/ Resent)
  BY <1>1 DEF Ready, Done, Idle, CanChange, Inv, TypeOK
<1> HIDE DEF w
<1>4. /\ x \in PathState /\ w.pos <= x.pos /\ x.slot = w.slot /\ x.close = None
      /\ x.status = "ready" /\ Upto(scope, p, x.pos) = Upto(scope, p, w.pos) \cup cs
  <2>1. CASE changed
    <3> DEFINE u == Advanced(w)
    <3>1. u \in PathState /\ w.pos <= u.pos /\ u.slot = w.slot /\ u.close = w.close
          /\ u.status = w.status
          /\ Upto(scope, p, u.pos) = Upto(scope, p, w.pos) \cup {ChangeOf(scope, p, u.pos)}
      <4> HIDE DEF u
      <4>1. u = Advanced(w)
        BY DEF u
      <4> QED BY <1>3, <2>1, <4>1, Advances
    <3>2. x = u /\ cs = {ChangeOf(scope, p, u.pos)}
      BY <2>1, PrefixIs
    <3> HIDE DEF u, cs, x
    <3> QED BY <1>3, <3>1, <3>2
  <2>2. CASE ~changed
    BY <1>3, <2>2 DEF PathState
  <2> QED BY <2>1, <2>2
<1>5. cs \in SUBSET ChangeId
  <2>1. x.pos \in Nat
    BY <1>4 DEF PathState
  <2> QED BY <2>1, UptoType, PrefixIs
<1>6. path' = [path EXCEPT ![p] = y]
  <2> HIDE DEF x, z
  <2> QED BY <1>2, <1>4 DEF PathState
<1> HIDE DEF x, cs
<1>7. st \in Stamp /\ AtMost(st, x.pos)
  BY <1>3, <1>4 DEF Sound, AtMost, PathState, Stamp
<1> HIDE DEF st
<1>8. z \in CloseState /\ z.changes = cs
  <2>1. PICK ow \in BOOLEAN, sy \in BOOLEAN : z = [owed |-> ow, changes |-> cs, synthesized |-> sy]
    <3>1. book_rebaselines_owed(p) \in BOOLEAN /\ (kind = "tick") \in BOOLEAN
      BY Zenon DEF book_rebaselines_owed
    <3> QED BY <3>1, Zenon
  <2> HIDE DEF z
  <2> QED BY <1>5, <2>1 DEF CloseState
<1> HIDE DEF z
<1>9. PICK lp \in BOOLEAN : y = [x EXCEPT !.lapsed = lp, !.slot = st, !.close = z]
  <2>1. (kind # "boundary") \in BOOLEAN
    BY Zenon
  <2> QED BY <2>1, Zenon
<1> HIDE DEF y
<1>10. /\ y \in PathState /\ y.pos = x.pos /\ y.slot = st /\ y.close = z /\ y.status = "ready"
  BY <1>4, <1>7, <1>8, <1>9 DEF PathState
<1>11. Closing(y) = cs /\ Closing(w) = {}
  <2>1. z # None
    BY <1>8, GateNone
  <2> QED BY <1>3, <1>8, <1>10, <2>1 DEF Closing
<1>12. Silent(scope, p, w, y)
  BY <1>3, <1>4, <1>10, <1>11 DEF Silent
<1>13. Sound(scope, p, y)
  BY <1>4, <1>7, <1>8, <1>10 DEF Sound
<1>14. Keeps(au, au')
  BY <1>1 DEF Keeps, Inv, TypeOK
<1> QED BY <1>1, <1>6, <1>10, <1>12, <1>13, <1>14, WentSilently DEF w
\* A boundary, or its lapse, that closes nothing.
LEMMA AsideKeeps ==
  ASSUME Inv, NEW p \in Path, NEW kind, Aside(p, kind)
  PROVE  Preserved
<1> DEFINE x == path[p]
           st == IF kind = "boundary" /\ scope.slotted THEN x.pos ELSE x.slot
           y == [x EXCEPT !.lapsed = kind # "boundary", !.slot = st]
<1>1. Done(p) /\ UNCHANGED <<au, bm, replay, consumer, closed, scope>>
  BY Zenon DEF Aside
<1>2. path' = [path EXCEPT ![p] = [x EXCEPT !.lapsed = kind # "boundary",
                !.slot = IF kind = "boundary" /\ scope.slotted THEN x.pos ELSE @]]
  BY Zenon DEF Aside
<1>3. x \in PathState /\ x.close = None /\ Sound(scope, p, x)
  BY <1>1 DEF Done, Idle, Inv, TypeOK
<1> HIDE DEF x
<1>4. path' = [path EXCEPT ![p] = y]
  BY <1>2, <1>3 DEF PathState
<1>5. st \in Stamp /\ AtMost(st, x.pos)
  BY <1>3 DEF Sound, AtMost, PathState, Stamp
<1> HIDE DEF st
<1>6. PICK lp \in BOOLEAN : y = [x EXCEPT !.lapsed = lp, !.slot = st]
  <2>1. (kind # "boundary") \in BOOLEAN
    BY Zenon
  <2> QED BY <2>1, Zenon
<1> HIDE DEF y
<1>7. y \in PathState /\ y.pos = x.pos /\ y.slot = st /\ y.close = None /\ y.status = x.status
  BY <1>3, <1>5, <1>6 DEF PathState
<1>8. Silent(scope, p, x, y)
  BY <1>3, <1>7, IdleCloses DEF Silent, PathState
<1>9. Sound(scope, p, y)
  BY <1>5, <1>7 DEF Sound
<1>10. Keeps(au, au')
  BY <1>1 DEF Keeps, Inv, TypeOK
<1> QED BY <1>1, <1>4, <1>7, <1>8, <1>9, <1>10, WentSilently DEF x

\* A path whose book goes down, at its position or past it, sends nothing.
LEMMA DownKeeps ==
  ASSUME Inv, NEW p \in Path, Done(p), NEW changed \in BOOLEAN, changed => CanChange(p),
         NEW s \in {"gap", "rebuild"}, NEW x, x = IF changed THEN Advanced(path[p]) ELSE path[p],
         path' = [path EXCEPT ![p] = [x EXCEPT !.status = s]],
         UNCHANGED <<au, bm, replay, consumer, closed, scope>>
  PROVE  Preserved
<1> DEFINE w == path[p]
           y == [x EXCEPT !.status = s]
<1>1. w \in PathState /\ w.close = None /\ Sound(scope, p, w)
      /\ (changed => w.pos < Changes \/ Resent)
  BY DEF Done, Idle, CanChange, Inv, TypeOK
<1>2. x = IF changed THEN Advanced(w) ELSE w
  OBVIOUS
<1>3. path' = [path EXCEPT ![p] = y]
  OBVIOUS
<1> HIDE DEF w
<1>4. x \in PathState /\ w.pos <= x.pos /\ x.slot = w.slot /\ x.close = None
  <2>1. CASE changed
    <3>1. x = Advanced(w)
      BY <1>2, <2>1
    <3> QED BY <1>1, <2>1, <3>1, Advances
  <2>2. CASE ~changed
    BY <1>1, <1>2, <2>2 DEF PathState
  <2> QED BY <2>1, <2>2
<1>5. y \in PathState /\ y.pos = x.pos /\ y.slot = x.slot /\ y.close = None /\ y.status # "ready"
  BY <1>4 DEF PathState
<1> HIDE DEF y
<1>6. Silent(scope, p, w, y)
  BY <1>4, <1>5 DEF Silent
<1>7. Sound(scope, p, y)
  BY <1>1, <1>4, <1>5 DEF Sound, AtMost, PathState, Stamp
<1>8. Keeps(au, au')
  BY DEF Keeps, Inv, TypeOK
<1> QED BY <1>3, <1>5, <1>6, <1>7, <1>8, WentSilently DEF w

\* A path reports its health.
LEMMA ReportKeeps ==
  ASSUME Inv, NEW p \in Path, Report(p)
  PROVE  Preserved
<1> DEFINE x == path[p]
           y == [x EXCEPT !.filed = Healthy(p)]
<1>1. /\ Idle(p) /\ path' = [path EXCEPT ![p].filed = Healthy(p)]
      /\ au' = set_health(au, market, p, Healthy(p))
      /\ UNCHANGED <<bm, replay, consumer, closed, scope>>
  BY DEF Report, Files
<1>2. x \in PathState /\ x.close = None /\ Sound(scope, p, x)
  BY <1>1 DEF Idle, Inv, TypeOK
<1>3. path' = [path EXCEPT ![p] = y]
  BY <1>1, Zenon
<1>4. PICK h \in BOOLEAN : y = [x EXCEPT !.filed = h] /\ au' = set_health(au, market, p, h)
  <2>1. Healthy(p) \in BOOLEAN
    BY Zenon DEF Healthy
  <2> QED BY <1>1, <2>1, Zenon
<1> HIDE DEF x, y
<1>5. y \in PathState /\ y.pos = x.pos /\ y.slot = x.slot /\ y.close = None /\ y.status = x.status
  BY <1>2, <1>4 DEF PathState
<1>6. Silent(scope, p, x, y)
  BY <1>2, <1>5, IdleCloses DEF Silent, PathState
<1>7. Sound(scope, p, y)
  BY <1>2, <1>5 DEF Sound
<1>8. Keeps(au, au')
  BY <1>4, HealthSet DEF Inv, TypeOK
<1> QED BY <1>1, <1>3, <1>5, <1>6, <1>7, <1>8, WentSilently DEF x

\* The whole book of a path is a batch that ends an event.
LEMMA FullIs ==
  ASSUME Inv, NEW p \in Path, NEW x \in PathState, AtMost(x.slot, x.pos),
         NEW b, b = FullBook(p, x)
  PROVE  /\ b \in Batch /\ b.clear /\ b.last /\ b.changes = Upto(scope, p, x.pos)
         /\ AtMost(b.batch_id, x.pos)
<1> DEFINE cs == Prefix(p, x.pos)
           id == committed_slot(x)
<1>1. b = [clear |-> TRUE, changes |-> cs, last |-> TRUE, batch_id |-> id]
  BY DEF FullBook
<1>2. cs = Upto(scope, p, x.pos) /\ cs \in SUBSET ChangeId
  BY PrefixIs, UptoType DEF PathState
<1>3. id \in Stamp /\ AtMost(id, x.pos)
  BY CommittedReached
<1> HIDE DEF cs, id
<1>4. b \in Batch /\ b.changes = cs /\ b.batch_id = id
  BY <1>1, <1>2, <1>3 DEF Batch
<1>5. b.clear /\ b.last
  BY <1>1
<1> QED BY <1>2, <1>3, <1>4, <1>5

\* A close ends: the arbiter gets what it took, or the whole book.
LEMMA ClosedKeeps ==
  ASSUME Inv, NEW p \in Path, Closed(p)
  PROVE  Preserved
<1> DEFINE x == path[p]
           y == [x EXCEPT !.close = None, !.open = FALSE]
           cs == x.close.changes
           id == committed_slot(x)
           d == [clear |-> FALSE, changes |-> cs, last |-> TRUE, batch_id |-> id]
           b == IF x.close.owed THEN FullBook(p, x) ELSE d
           ls == closed[p] \cup {x.pos}
           sy == x.close.synthesized
<1>1. /\ x.close # None /\ path' = [path EXCEPT ![p] = [@ EXCEPT !.close = None, !.open = FALSE]]
      /\ Emit(p, b, sy) /\ closed' = [closed EXCEPT ![p] = @ \cup {x.pos}] /\ scope' = scope
  BY Zenon DEF Closed, EndsClose
<1>2. path' = [path EXCEPT ![p] = y] /\ closed' = [closed EXCEPT ![p] = ls]
  BY <1>1 DEF Inv, TypeOK
<1>3. x \in PathState /\ x.close \in CloseState /\ x.status = "ready" /\ Sound(scope, p, x)
      /\ AtMost(x.slot, x.pos) /\ sy \in BOOLEAN
  <2>1. x \in PathState /\ Sound(scope, p, x)
    BY DEF Inv, TypeOK
  <2>2. x.close \in CloseState
    BY <1>1, <2>1 DEF PathState
  <2> HIDE DEF x
  <2> QED BY <1>1, <2>1, <2>2 DEF Sound, CloseState
<1>4. closed[p] \in SUBSET Nat
  BY DEF Inv, TypeOK
<1> HIDE DEF x
<1>5. y \in PathState /\ y.pos = x.pos /\ y.slot = x.slot /\ y.close = None /\ y.status = "ready"
  BY <1>3 DEF PathState
<1> HIDE DEF y
<1>6. Closing(x) = cs /\ cs \in SUBSET ChangeId /\ x.pos \in Nat
  BY <1>1, <1>3 DEF Closing, CloseState, PathState
<1>7. id \in Stamp /\ AtMost(id, x.pos)
  BY <1>3, CommittedReached
<1> HIDE DEF cs, id
<1>8. d \in Batch /\ d.changes = cs /\ d.batch_id = id
  BY <1>6, <1>7 DEF Batch
<1>9. ~d.clear /\ d.last
  OBVIOUS
<1> HIDE DEF d
<1>10. b \in Batch /\ b.last /\ Emits(scope, p, x, y, b)
  <2>1. CASE x.close.owed
    <3>1. b = FullBook(p, x)
      BY <2>1
    <3> HIDE DEF b
    <3>2. /\ b \in Batch /\ b.clear /\ b.last /\ b.changes = Upto(scope, p, x.pos)
          /\ AtMost(b.batch_id, x.pos)
      BY <1>3, <3>1, FullIs
    <3> QED BY <1>5, <1>6, <3>2 DEF Emits
  <2>2. CASE ~x.close.owed
    <3>1. b = d
      BY <2>2
    <3> HIDE DEF b
    <3> QED BY <1>3, <1>5, <1>6, <1>7, <1>8, <1>9, <3>1 DEF Emits
  <2> QED BY <2>1, <2>2
<1> HIDE DEF b
<1>11. Sends(p, y, b, ls)
  BY <1>4, <1>5, <1>6, <1>10 DEF Sends, x
<1>12. Sound(scope, p, y)
  BY <1>3, <1>5 DEF Sound
<1> HIDE DEF ls, sy
<1>13. PICK s \in BOOLEAN : Emit(p, b, s)
  BY <1>1, <1>3, Zenon
<1>14. scope' = scope
  BY <1>1
<1> QED BY <1>2, <1>11, <1>12, <1>13, <1>14, Emitted, Zenon

\* A rebuilt book goes out whole.
LEMMA InstallKeeps ==
  ASSUME Inv, NEW p \in Path, Install(p)
  PROVE  Preserved
<1> DEFINE x == path[p]
           y == [x EXCEPT !.status = "ready", !.open = FALSE]
           b == FullBook(p, x)
           ls == closed[p] \cup {x.pos}
<1>1. /\ x.status # "ready"
      /\ path' = [path EXCEPT ![p] = [@ EXCEPT !.status = "ready", !.open = FALSE]]
      /\ Emit(p, b, FALSE) /\ closed' = [closed EXCEPT ![p] = @ \cup {x.pos}] /\ scope' = scope
  BY Zenon DEF Install, EndsRebuild
<1>2. path' = [path EXCEPT ![p] = y] /\ closed' = [closed EXCEPT ![p] = ls]
  BY <1>1 DEF Inv, TypeOK
<1>3. x \in PathState /\ x.close = None /\ AtMost(x.slot, x.pos) /\ x.pos \in Nat
  BY <1>1 DEF Inv, TypeOK, Sound, PathState
<1>4. closed[p] \in SUBSET Nat
  BY DEF Inv, TypeOK
<1> HIDE DEF x
<1>5. y \in PathState /\ y.pos = x.pos /\ y.slot = x.slot /\ y.close = None /\ y.status = "ready"
  BY <1>3 DEF PathState
<1>6. /\ b \in Batch /\ b.clear /\ b.last /\ b.changes = Upto(scope, p, x.pos)
      /\ AtMost(b.batch_id, x.pos)
  <2> HIDE DEF b
  <2>1. b = FullBook(p, x)
    BY DEF b
  <2> QED BY <1>3, <2>1, FullIs
<1> HIDE DEF y, b
<1>7. Emits(scope, p, x, y, b)
  BY <1>3, <1>5, <1>6 DEF Emits
<1>8. Sends(p, y, b, ls)
  BY <1>3, <1>4, <1>5, <1>6, <1>7 DEF Sends, x
<1>9. Sound(scope, p, y)
  BY <1>3, <1>5 DEF Sound
<1> HIDE DEF ls
<1> QED BY <1>1, <1>2, <1>8, <1>9, Emitted

\* The market is dropped: nothing is offered any more.
LEMMA DropKeeps ==
  ASSUME Inv, DropMarket
  PROVE  Preserved
<1>1. /\ bm' = None /\ replay' = None /\ au' = forget_market(au, market) /\ scope' = scope
      /\ UNCHANGED <<consumer, path, closed>>
  BY DEF DropMarket, Fault
<1>2. au' \in AuthState
  BY <1>1, MarketForgotten DEF Inv, TypeOK
<1>3. TypeOK'
  BY <1>1, <1>2 DEF Inv, TypeOK
<1>4. \A q \in Path : Sound(scope', q, path'[q])
  BY <1>1 DEF Inv
<1>5. GateInv(bm', replay', consumer', last_admitted(au', market), path', closed', scope')
  BY <1>1 DEF GateInv, Offered, Published
<1>6. SlotStep
  BY <1>1 DEF SlotStep, Inv, TypeOK, GateInv, Published, BookMarket, Stamp
<1>7. OneInv'
  BY <1>1 DEF OneInv, Same
<1> QED BY <1>3, <1>4, <1>5, <1>6, <1>7 DEF Preserved, Inv
\* Every step keeps the invariant.
LEMMA StepKeeps ==
  ASSUME Inv, [Next]_vars
  PROVE  Preserved
<1>1. ASSUME NEW p \in Path, Part(p) PROVE Preserved
  BY <1>1, PartKeeps
<1>2. ASSUME NEW p \in Path, Closes(p) PROVE Preserved
  BY <1>2, CloseKeeps DEF Closes
<1>3. ASSUME NEW p \in Path, TickClose(p) PROVE Preserved
  BY <1>3, CloseKeeps DEF TickClose
<1>4. ASSUME NEW p \in Path, Closed(p) PROVE Preserved
  BY <1>4, ClosedKeeps
<1>5. ASSUME NEW p \in Path, Lose(p) PROVE Preserved
  <2>1. Done(p) /\ CanChange(p) /\ UNCHANGED <<au, bm, replay, consumer, closed, scope>>
        /\ path' = [path EXCEPT ![p] = [Advanced(path[p]) EXCEPT !.status = "gap"]]
    BY <1>5 DEF Lose, Fault
  <2> DEFINE x == IF TRUE THEN Advanced(path[p]) ELSE path[p]
  <2>2. path' = [path EXCEPT ![p] = [x EXCEPT !.status = "gap"]]
    BY <2>1
  <2> QED BY <2>1, <2>2, DownKeeps
<1>6. ASSUME NEW p \in Path, NEW changed \in BOOLEAN, Rotate(p, changed) PROVE Preserved
  <2> DEFINE x == IF changed THEN Advanced(path[p]) ELSE path[p]
  <2>1. Done(p) /\ (changed => CanChange(p)) /\ UNCHANGED <<au, bm, replay, consumer, closed, scope>>
        /\ path' = [path EXCEPT ![p] = [x EXCEPT !.status = "rebuild"]]
    BY <1>6, Zenon DEF Rotate, Fault, Ready
  <2> QED BY <2>1, DownKeeps
<1>7. ASSUME NEW p \in Path, Install(p) PROVE Preserved
  BY <1>7, InstallKeeps
<1>8. ASSUME NEW p \in Path, Report(p) PROVE Preserved
  BY <1>8, ReportKeeps
<1>9. ASSUME NEW p \in Path, Elsewhere(p) PROVE Preserved
  BY <1>9, HeardNow, OnlyAuthority DEF Elsewhere, Inv, TypeOK
<1>10. ASSUME NEW p \in Path, Transfer(p) PROVE Preserved
  BY <1>10, ScopeTransferred, OnlyAuthority DEF Transfer, Fault, Inv, TypeOK
<1>11. ASSUME NEW p \in Path, NEW kind, Aside(p, kind) PROVE Preserved
  BY <1>11, AsideKeeps
<1>12. ASSUME DropMarket PROVE Preserved
  BY <1>12, DropKeeps
<1>13. ASSUME Tick PROVE Preserved
  BY <1>13, StampsAged, OnlyAuthority DEF Tick, Inv, TypeOK
<1>14. ASSUME UNCHANGED vars PROVE Preserved
  <2>1. Keeps(au, au')
    BY <1>14 DEF vars, Keeps, Inv, TypeOK
  <2> QED BY <1>14, <2>1, OnlyAuthority DEF vars
<1> QED
  BY <1>1, <1>2, <1>3, <1>4, <1>5, <1>6, <1>7, <1>8, <1>9, <1>10, <1>11, <1>12, <1>13, <1>14
  DEF Next

\* The initial states have it.
LEMMA InitHas ==
  ASSUME Init
  PROVE  Inv /\ OneInv
<1>1. au \in AuthState
  <2>1. au = NewAuthority
    BY DEF Init
  <2> QED BY <2>1, Constants DEF NewAuthority, AuthState, Stamp
<1>2. NewPath \in PathState /\ NewPath.slot = None /\ NewPath.close = None
  BY GateAssumption DEF NewPath, PathState, Stamp
<1>3. consumer \in Consumer
  BY DEF Init, Consumer, Stamp
<1>4. TypeOK
  BY <1>1, <1>2, <1>3, GateAssumption DEF Init, TypeOK
<1>5. \A p \in Path : Sound(scope, p, path[p])
  BY <1>2 DEF Init, Sound, AtMost
<1>6. GateInv(bm, replay, consumer, last_admitted(au, market), path, closed, scope)
  BY DEF Init, GateInv, Offered, Published
<1>7. OneInv
  BY DEF Init, OneInv, Same
<1> QED BY <1>4, <1>5, <1>6, <1>7 DEF Inv

\* The book arm of emit_scoped, with the processors and the authority around it: what the
\* arbiter keeps of every path, and what it offers and has published, stay consistent.
THEOREM GateSafe == Spec => []Inv
<1>1. Init => Inv
  BY InitHas
<1>2. Inv /\ [Next]_vars => Inv'
  BY StepKeeps DEF Preserved
<1> QED BY <1>1, <1>2, PTL DEF Spec

\* emit_scoped, rebaseline_book, seamless_handover: the book on offer is the whole book of one
\* path at the end of one of its events, whatever is dropped, withheld or handed over.
THEOREM OfferedWhole == Spec => []WholeBook
<1>1. Inv => WholeBook
  <2> SUFFICES ASSUME Inv, replay # None, replay.baselined
               PROVE  \E p \in Path : \E k \in closed[p] : replay.book = Prefix(p, k)
    BY DEF WholeBook
  <2>1. \E p \in Path : WholeAt(replay.book, scope, p, closed[p], None)
    BY DEF Inv, GateInv, Offered
  <2> QED BY <2>1, PrefixIs DEF WholeAt
<1> QED BY <1>1, GateSafe, PTL

\* monotonic_slot: while a market is tracked its published slots never move back.
THEOREM SlotsOnlyGrow == Spec => SlotMonotone
<1>1. Inv /\ [Next]_vars => [bm # None /\ bm.wire_slot # None => consumer'.slot >= consumer.slot]_vars
  BY StepKeeps DEF Preserved, SlotStep
<1> QED BY <1>1, GateSafe, PTL DEF Spec, SlotMonotone

\* While no wait was given up, the consumer's copy is the entry's.
LEMMA OneSafe == Spec /\ []Patient => []OneInv
<1>1. Init => OneInv
  BY InitHas
<1>2. Inv /\ Patient /\ OneInv /\ [Next]_vars => OneInv'
  BY StepKeeps DEF Preserved
<1> QED BY <1>1, <1>2, GateSafe, PTL DEF Spec

\* emit_scoped: unless a re-baseline gave up waiting for the end of an event, a consumer that
\* followed the stream and one bootstrapped from the replay map hold the same book.
THEOREM FollowerAndBootstrapAgree == Spec /\ []Patient => []OneBook
<1>1. OneInv => OneBook
  BY DEF OneInv, Same, OneBook
<1> QED BY <1>1, OneSafe, PTL

\* monotonic_slot, to_book, abandon: with the same proviso, a consumer's book has reached the
\* slot it was committed under.
THEOREM SlotIsReached == Spec /\ []Patient => []SlotReached
<1>1. Inv /\ OneInv => SlotReached
  <2> SUFFICES ASSUME Inv, OneInv, replay # None, replay.baselined, consumer.at # None
               PROVE  \E p \in Path : Prefix(p, consumer.at) \subseteq consumer.book
    BY DEF SlotReached
  <2>1. PICK p \in Path : WholeAt(consumer.book, scope, p, closed[p], consumer.at)
    BY DEF OneInv, Same
  <2>2. PICK k \in closed[p] : consumer.book = Upto(scope, p, k) /\ consumer.at <= k
    BY <2>1 DEF WholeAt, AtMost
  <2>3. k \in Nat /\ consumer.at \in Nat
    BY DEF Inv, TypeOK, Consumer, Stamp
  <2> QED BY <2>2, <2>3, UptoGrows, PrefixIs
<1> QED BY <1>1, GateSafe, OneSafe, PTL
=============================================================================
