----------------------------- MODULE Authority -----------------------------
(***************************************************************************)
(* StickyAuthority of src/src/ingest/authority.rs for one arbitration      *)
(* scope (a venue's Source ID and instrument universe; scopes share no     *)
(* state), as operators on one record:                                     *)
(*   leader    the path elected for the scope, None before the first       *)
(*   seen      last_seen_ns of every tracked path, None for the others     *)
(*   samples   matched leads of the open window, per path                  *)
(*   window    when the sampling window opened                             *)
(*   ordinals  the paths that hold a metric label, in order of first sight *)
(*   markets   per-market health, hold and last admitted path              *)
(*   order     insertion order of market keys, for the eviction            *)
(* overridden_from and hold_released, which only label metrics, are left   *)
(* out.                                                                    *)
(***************************************************************************)
EXTENDS Integers, Sequences, FiniteSets, Functions

CONSTANTS
  None,
  Path,                      \* publishers (source addresses)
  Market,                    \* (channel, instrument) pairs of the scope
  MAX_LABELLED_PATHS,
  MAX_TRACKED_MARKETS,
  MAX_WINDOW_SAMPLES,
  REVERT_HOLD_NS,
  REVERT_DEADLINE_NS,
  leader_timeout_ns,
  sample_interval_ns,
  transfer_margin_ns,
  transfer_win_percent,      \* transfer_win_rate, in percent
  min_window_samples

ASSUME AuthorityConstants ==
  /\ {MAX_LABELLED_PATHS, MAX_TRACKED_MARKETS, min_window_samples} \subseteq Nat \ {0}
  /\ {MAX_WINDOW_SAMPLES, REVERT_HOLD_NS, REVERT_DEADLINE_NS, leader_timeout_ns,
      sample_interval_ns, transfer_margin_ns, transfer_win_percent} \subseteq Nat
  /\ None \notin Path \cup Nat

RevertHold == [holder : Path, leader : Path, since : Nat \cup {None}]

MarketState ==
  [unhealthy : SUBSET Path, reinstalled : SUBSET Path, hold : RevertHold \cup {None},
   last_admitted : Path \cup {None}]

ASSUME NoneAssumption == None \notin RevertHold /\ None \notin MarketState

NewMarket ==
  [unhealthy |-> {}, reinstalled |-> {}, hold |-> None, last_admitted |-> None]

NewAuthority ==
  [leader |-> None, seen |-> [p \in Path |-> None], samples |-> [p \in Path |-> <<>>],
   window |-> 0, ordinals |-> <<>>, markets |-> [m \in Market |-> None], order |-> <<>>]

-----------------------------------------------------------------------------
\* path_ordinal mints a label on first sight while there are labels left; a path
\* without one is not eligible.
path_ordinal(a, p) ==
  IF p \in Range(a.ordinals) \/ Len(a.ordinals) >= MAX_LABELLED_PATHS
    THEN a ELSE [a EXCEPT !.ordinals = Append(@, p)]

Eligible(a, p) == p \in Range(path_ordinal(a, p).ordinals)

\* The entry of a market, created (and the oldest evicted) when it has none.
market_mut(a, m) ==
  IF a.markets[m] # None THEN a
  ELSE LET n == IF Len(a.order) >= MAX_TRACKED_MARKETS
                  THEN Len(a.order) - MAX_TRACKED_MARKETS + 1 ELSE 0
       IN  [a EXCEPT
             !.markets = [k \in Market |->
                 IF k = m THEN NewMarket
                 ELSE IF \E i \in 1..n : a.order[i] = k THEN None ELSE a.markets[k]],
             !.order = Append(SubSeq(a.order, n + 1, Len(a.order)), m)]

healthy(a, m, p) == a.markets[m] # None => p \notin a.markets[m].unhealthy

last_admitted(a, m) == IF a.markets[m] = None THEN None ELSE a.markets[m].last_admitted

HoldOf(a, m) == IF a.markets[m] = None THEN None ELSE a.markets[m].hold

\* The entry e of a market on which p is unhealthy: a re-baseline of p counts no more,
\* and a hold against it starts its probation again.
Doubted(e, p) ==
  [e EXCEPT
     !.unhealthy = @ \cup {p},
     !.reinstalled = @ \ {p},
     !.hold = IF @ # None /\ @.leader = p THEN [@ EXCEPT !.since = None] ELSE @]

\* Mutant: a relapse of the leader does not restart its probation.
set_health_keeps_stamp(a, m, p, ok) ==
  LET r == path_ordinal(a, p)
  IN  IF ~Eligible(a, p) THEN a
      ELSE IF ok /\ a.markets[m] = None THEN r
      ELSE LET b == market_mut(r, m)
           IN  IF ok THEN [b EXCEPT !.markets[m].unhealthy = @ \ {p}]
               ELSE [b EXCEPT !.markets[m].unhealthy = @ \cup {p},
                              !.markets[m].reinstalled = @ \ {p}]

\* A health report of the processor.  Healthy is the absent default.
set_health(a, m, p, ok) ==
  LET r == path_ordinal(a, p)
  IN  IF ~Eligible(a, p) THEN a
      ELSE IF ok /\ a.markets[m] = None THEN r
      ELSE LET b == market_mut(r, m)
           IN  IF ok THEN [b EXCEPT !.markets[m].unhealthy = @ \ {p}]
               ELSE [b EXCEPT !.markets[m] = Doubted(@, p)]

note_rebaseline_point(a, m, p) ==
  IF a.markets[m] = None THEN a
  ELSE [a EXCEPT !.markets[m].reinstalled = @ \cup {p}]

holding_revert(a, m) ==
  /\ a.leader # None
  /\ HoldOf(a, m) # None /\ HoldOf(a, m).leader = a.leader
  /\ healthy(a, m, a.leader)

drop_hold(a, m) ==
  IF a.markets[m] = None THEN a ELSE [a EXCEPT !.markets[m].hold = None]

forget_market(a, m) == [a EXCEPT !.markets[m] = None]

-----------------------------------------------------------------------------
\* A handover starts a new window: samples are measured against the leader.
take_authority(a, p, now) ==
  [a EXCEPT !.leader = p, !.window = now, !.samples = [q \in Path |-> <<>>]]

transfer_scope_to(a, p, now) ==
  IF a.leader # None /\ a.leader # p THEN take_authority(a, p, now) ELSE a

LastSeen(a, p) == IF a.seen[p] = None THEN 0 ELSE a.seen[p]

\* Ordered by last_seen_ns, ties by label.
MoreRecent(a, p, q) ==
  LET Label(x) == CHOOSE i \in DOMAIN a.ordinals : a.ordinals[i] = x
  IN  \/ LastSeen(a, p) > LastSeen(a, q)
      \/ LastSeen(a, p) = LastSeen(a, q) /\ Label(p) > Label(q)

\* The healthy tracked paths other than the leader.
Alternates(a, m) ==
  {p \in Path : a.seen[p] # None /\ p # a.leader /\ healthy(a, m, p)}

alternate(a, m) ==
  CHOOSE p \in Alternates(a, m) :
    \A q \in Alternates(a, m) \ {p} : MoreRecent(a, p, q)

\* Mutant: a holder whose book here has gone bad keeps the market.
serving_unchecked(a, m) ==
  LET h == HoldOf(a, m)
  IN  IF h # None /\ h.leader = a.leader THEN h.holder
      ELSE IF healthy(a, m, a.leader) \/ Alternates(a, m) = {} THEN a.leader
      ELSE alternate(a, m)

\* Who serves m: the holder of its override, its leader, or the most recently
\* live healthy path when the leader's book here is not healthy.
serving(a, m) ==
  LET h == HoldOf(a, m)
  IN  IF h # None /\ h.leader = a.leader /\ healthy(a, m, h.holder) THEN h.holder
      ELSE IF healthy(a, m, a.leader) \/ Alternates(a, m) = {} THEN a.leader
      ELSE alternate(a, m)

\* Mutant: a silent holder keeps its hold.
Stands_silent(a, m, h, now) ==
  h # None /\ h.leader = a.leader /\ healthy(a, m, h.holder)

\* A stored hold still stands: same leader, holder healthy here and live.
Stands(a, m, h, now) ==
  /\ h # None /\ h.leader = a.leader
  /\ healthy(a, m, h.holder)
  /\ a.seen[h.holder] # None /\ now - a.seen[h.holder] <= leader_timeout_ns

\* Mutant: a hold has no deadline.
Releases_no_deadline(a, m, since, p, now) ==
  /\ p = a.leader
  /\ a.leader \in a.markets[m].reinstalled /\ now - since >= REVERT_HOLD_NS

\* The leader's own batch takes m back once it has been healthy for the hold and
\* has re-baselined m itself, or for the deadline.
Releases(a, m, since, p, now) ==
  /\ p = a.leader
  /\ \/ a.leader \in a.markets[m].reinstalled /\ now - since >= REVERT_HOLD_NS
     \/ now - since >= REVERT_DEADLINE_NS

refresh_hold(a, m, p, now) ==
  LET stored == HoldOf(a, m)
      ok     == healthy(a, m, a.leader)
      since  == IF stored.since = None THEN now ELSE stored.since
      next   == IF ~Stands(a, m, stored, now)
                  THEN IF ok \/ p = a.leader \/ ~healthy(a, m, p) THEN None
                       ELSE [holder |-> p, leader |-> a.leader, since |-> None]
                ELSE IF ~ok THEN [stored EXCEPT !.since = None]
                ELSE IF Releases(a, m, since, p, now) THEN None
                ELSE [stored EXCEPT !.since = since]
  IN  IF stored = None /\ (ok \/ next = None) THEN a
      ELSE [market_mut(a, m) EXCEPT !.markets[m].hold = next]

-----------------------------------------------------------------------------
\* Mutant: the leader's own messages do not restart its silence clock.
heard_once(a, p, now) ==
  LET b == IF p = a.leader THEN a ELSE [a EXCEPT !.seen[p] = now]
  IN  IF p # a.leader /\ now - LastSeen(a, a.leader) > leader_timeout_ns
        THEN take_authority(b, p, now) ELSE b

\* The path is live; a silent leader loses the scope to the one that speaks.
heard(a, p, now) ==
  LET b == [a EXCEPT !.seen[p] = now]
  IN  IF p # a.leader /\ now - LastSeen(a, a.leader) > leader_timeout_ns
        THEN take_authority(b, p, now) ELSE b

\* The first eligible path to deliver is the leader.
first(a, m, p, now) ==
  LET b == [a EXCEPT !.leader = p, !.seen[p] = now, !.window = now]
  IN  [market_mut(b, m) EXCEPT !.markets[m].last_admitted = p]

Served(a, m, p) == [market_mut(a, m) EXCEPT !.markets[m].last_admitted = p]

\* One message of p on m: the new state and the decision, "opened" when the
\* served path changes (Admit::Emitted { opened_tick: true }).
admit(a, m, p, now) ==
  LET r == path_ordinal(a, p)
      b == refresh_hold(heard(r, p, now), m, p, now)
  IN  IF ~Eligible(a, p) THEN [au |-> a, out |-> "dropped"]
      ELSE IF a.leader = None THEN [au |-> first(r, m, p, now), out |-> "opened"]
      ELSE IF serving(b, m) # p THEN [au |-> b, out |-> "dropped"]
      ELSE [au |-> Served(b, m, p),
            out |-> IF last_admitted(b, m) = p THEN "emitted" ELSE "opened"]

\* Mutant: a synthesized close is served wherever its path would be.
admit_synthesized_anywhere(a, m, p) ==
  IF a.leader # None /\ serving(a, m) = p THEN "emitted" ELSE "dropped"

\* A batch no datagram delivered moves nothing and never changes the served path.
admit_synthesized(a, m, p) ==
  IF a.leader # None /\ serving(a, m) = p /\ last_admitted(a, m) = p
    THEN "emitted" ELSE "dropped"

-----------------------------------------------------------------------------
observe_matched_lead(a, p, lead) ==
  LET r == path_ordinal(a, p)
  IN  IF ~Eligible(a, p) THEN a
      ELSE IF a.leader = None \/ p = a.leader THEN r
      ELSE [r EXCEPT !.seen[p] = IF @ = None THEN 0 ELSE @,
                     !.samples[p] = IF Len(@) < MAX_WINDOW_SAMPLES
                                      THEN Append(@, lead) ELSE @]

\* Element Len \div 2 of the sorted samples.
median(s) ==
  CHOOSE v \in Range(s) :
    /\ Cardinality({i \in DOMAIN s : s[i] < v}) <= Len(s) \div 2
    /\ Cardinality({i \in DOMAIN s : s[i] <= v}) > Len(s) \div 2

Qualifies(a, p) ==
  LET s == a.samples[p]
  IN  /\ a.seen[p] # None /\ p # a.leader
      /\ Len(s) >= min_window_samples
      /\ Cardinality({i \in DOMAIN s : s[i] < -transfer_margin_ns}) * 100
           >= transfer_win_percent * Len(s)
      /\ median(s) <= -transfer_margin_ns

\* The qualifying paths of least median; the map's order breaks a tie.
best_challenger(a) ==
  {p \in Path : Qualifies(a, p)
     /\ \A q \in Path : Qualifies(a, q) => median(a.samples[p]) <= median(a.samples[q])}

\* The states the close of an elapsed window may leave.
close_window(a, now) ==
  IF now - a.window < sample_interval_ns \/ a.leader = None THEN {a}
  ELSE LET b == [a EXCEPT !.samples = [p \in Path |-> <<>>], !.window = now]
       IN  IF best_challenger(a) = {} THEN {b}
           ELSE {transfer_scope_to(b, p, now) : p \in best_challenger(a)}

-----------------------------------------------------------------------------
\* The relative clock of the modules that use the authority: it stands still and
\* every stamp ages instead, down to 0.
Older(t) == IF t = None \/ t = 0 THEN t ELSE t - 1

AgedEntry(e) ==
  IF e = None THEN e
  ELSE IF e.hold = None THEN e ELSE [e EXCEPT !.hold.since = Older(@)]

Aged(b) ==
  [b EXCEPT
     !.seen = [p \in Path |-> Older(@[p])],
     !.window = Older(@),
     !.markets = [m \in Market |-> AgedEntry(@[m])]]
=============================================================================
