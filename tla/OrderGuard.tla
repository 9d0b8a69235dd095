----------------------------- MODULE OrderGuard -----------------------------
(***************************************************************************)
(* What the order-level race of src/src/ingest/arbiter.rs keeps: the       *)
(* venue-time clock of a channel (ChannelClock) and one market's race      *)
(* state (MarketEvents), as pure operators.  An order event is [o, size]:  *)
(* sizes of an order only shrink, so size tells its events apart as action *)
(* and price do in the code; size 0 is the removal.  Counters, capacities  *)
(* and the compaction of the queues' slack, which no decision reads, are   *)
(* left out.                                                               *)
(***************************************************************************)
EXTENDS Integers, Sequences, FiniteSets, SequencesExt

CONSTANTS
  None,                     \* no stamp, no owner, no reason
  retention_ns, max_ts_jump_ns, reseat_after_ns,       \* BookGuardConfig
  MAX_FUTURE_SKEW_NS,
  book_dedup_window_ns, MAX_SEEN_ORDER_EVENTS,
  MAX_GUARDED_ORDERS, MAX_FORGOTTEN_PER_BATCH

ASSUME GuardAssumption ==
  /\ {retention_ns, max_ts_jump_ns, reseat_after_ns, MAX_FUTURE_SKEW_NS,
      book_dedup_window_ns} \subseteq Nat /\ None \notin Nat
  /\ {MAX_SEEN_ORDER_EVENTS, MAX_GUARDED_ORDERS, MAX_FORGOTTEN_PER_BATCH} \subseteq Nat \ {0}

\* BookGuardConfig::validate, which a process asserts before it races anything.
ASSUME ValidConfig == max_ts_jump_ns < retention_ns /\ MAX_FUTURE_SKEW_NS < retention_ns

\* Op applied along a sequence, from its first element (SequencesExt's FoldLeft, which TLC
\* evaluates by its set-theoretic definition).
Along(Op(_, _), base, s) ==
  LET acc[i \in 0..Len(s)] == IF i = 0 THEN base ELSE Op(acc[i - 1], s[i]) IN acc[Len(s)]

Least(a, b) == IF a < b THEN a ELSE b
Later(a, b) == IF a = None \/ b > a THEN b ELSE a
FirstSet(a, b) == IF a = None THEN b ELSE a

-----------------------------------------------------------------------------
(* ChannelClock.                                                           *)

NewClock == [newest_ts |-> None, moved_at |-> 0, ahead_since |-> None, sample |-> None]

\* Mutant: any write of the clock clears the sample and the ahead timer.
clock_set_clears(c, ts, now) ==
  [newest_ts |-> ts, moved_at |-> now, ahead_since |-> None, sample |-> None]

\* The one write of newest_ts.  Only a write that caught up with the sample clears it.
clock_set(c, ts, now) ==
  LET consumed == ts = None \/ c.sample = None \/ ts >= c.sample IN
  [newest_ts |-> ts, moved_at |-> now,
   ahead_since |-> IF consumed THEN None ELSE c.ahead_since,
   sample |-> IF consumed THEN None ELSE c.sample]

\* Take one batch's stamp: past the host's cap it is only sampled, at the cap; past the
\* jump bound it is sampled; else it seeds or advances the clock.
observe(c, ts, now, cap) ==
  LET s     == [c EXCEPT !.sample = Later(c.sample, Least(ts, cap))]
      ahead == [s EXCEPT !.ahead_since = FirstSet(c.ahead_since, now)]
  IN  IF ts > cap THEN ahead
      ELSE IF c.newest_ts = None THEN clock_set(s, ts, now)
      ELSE IF ts <= c.newest_ts THEN s
      ELSE IF ts - c.newest_ts <= max_ts_jump_ns THEN clock_set(s, ts, now)
      ELSE ahead

\* The hatch: a clock that did not move, or was behind its traffic, for too long takes
\* the sample, in either direction.
reseat(c, now) ==
  LET stuck == now - c.moved_at >= reseat_after_ns
      ahead == c.ahead_since # None /\ now - c.ahead_since >= reseat_after_ns
  IN  IF (stuck \/ ahead) /\ c.sample # None
      THEN clock_set([c EXCEPT !.sample = None], c.sample, now) ELSE c

\* The venue time before which an event is refused and a removed entry is forgotten.
frontier(c) ==
  IF c.newest_ts = None THEN None
  ELSE IF c.newest_ts < retention_ns THEN 0 ELSE c.newest_ts - retention_ns

\* The stamp a batch is judged and recorded by.
stamp(c, ts, cap) == Least(ts, IF c.newest_ts = None THEN cap ELSE c.newest_ts)

-----------------------------------------------------------------------------
(* MarketEvents.  seen is in delivery order; resting maps the orders the   *)
(* market has published to their Slot; live and dead may hold stale ids.   *)

NewEvents ==
  [seen |-> <<>>, resting |-> << >>, live |-> <<>>, dead |-> <<>>, n_live |-> 0, n_dead |-> 0,
   forced |-> FALSE]

Known(e, o)   == o \in DOMAIN e.resting
Removed(e, o) == Known(e, o) /\ e.resting[o].size = 0
Floored(e, o) == Known(e, o) /\ e.resting[o].size # 0

SetSlot(f, o, slot) == [x \in DOMAIN f \cup {o} |-> IF x = o THEN slot ELSE f[x]]
DropSlot(f, o) == [x \in DOMAIN f \ {o} |-> f[x]]

\* MarketEvents::pop: the queue without the stale ids before its first that is wanted.
SkipTo(q, wanted) ==
  LET hits == {i \in 1..Len(q) : q[i] \in wanted}
  IN  IF hits = {} THEN <<>> ELSE SubSeq(q, CHOOSE i \in hits : \A j \in hits : i <= j, Len(q))

\* Forget events delivered longer ago than the window; the rest is in delivery order.
expire(e, now) ==
  LET fresh(i) == now - e.seen[i].at <= book_dedup_window_ns
      keep == {i \in 1..Len(e.seen) : fresh(i)}
      from == IF keep = {} THEN Len(e.seen) + 1 ELSE CHOOSE i \in keep : \A j \in keep : i <= j
  IN  [e EXCEPT !.seen = SubSeq(@, from, Len(@))]

\* One floor too many: the oldest goes.
bound_live(e) ==
  LET q == SkipTo(e.live, {o \in DOMAIN e.resting : Floored(e, o)}) IN
  IF e.n_live > MAX_GUARDED_ORDERS /\ q # <<>>
  THEN [e EXCEPT !.live = Tail(q), !.resting = DropSlot(e.resting, Head(q)), !.n_live = @ - 1]
  ELSE e

\* Mutant: an order brought back by a snapshot keeps counting as removed.
track_floor_keeps_count(e, o, size, by, ts) ==
  LET f == [e EXCEPT !.resting = SetSlot(e.resting, o, [last_ts |-> ts, size |-> size, owner |-> by])]
  IN  bound_live(IF Floored(e, o) THEN f
                 ELSE [f EXCEPT !.n_live = @ + 1, !.live = Append(@, o)])

track_floor(e, o, size, by, ts) ==
  LET f == [e EXCEPT !.resting = SetSlot(e.resting, o, [last_ts |-> ts, size |-> size, owner |-> by])]
  IN  bound_live(IF Floored(e, o) THEN f
                 ELSE [f EXCEPT !.n_dead = @ - (IF Removed(e, o) THEN 1 ELSE 0),
                                !.n_live = @ + 1, !.live = Append(@, o)])

remove_order(e, o, ts) ==
  IF Removed(e, o) THEN e
  ELSE [e EXCEPT !.resting = SetSlot(e.resting, o, [last_ts |-> ts, size |-> 0, owner |-> None]),
                 !.n_live = @ - (IF Known(e, o) THEN 1 ELSE 0),
                 !.n_dead = @ + 1, !.dead = Append(@, o)]

\* An order event that was let through enters the dedup window.
Remember(e, ev, now) ==
  LET q == Append(e.seen, [ev |-> ev, at |-> now]) IN
  [e EXCEPT !.seen = IF Len(q) > MAX_SEEN_ORDER_EVENTS THEN Tail(q) ELSE q]

\* Mutant: an older change of an order passes on its size alone.
Verdict_no_floor(e, ev, by, ts) ==
  IF \E i \in 1..Len(e.seen) : e.seen[i].ev = ev THEN "Duplicate"
  ELSE IF Removed(e, ev.o) /\ ev.size # 0 THEN "Resurrection"
  ELSE "Deliver"

\* EventVerdict, in the order MarketEvents::admit decides it.
Verdict(e, ev, by, ts) ==
  IF \E i \in 1..Len(e.seen) : e.seen[i].ev = ev THEN "Duplicate"
  ELSE IF Removed(e, ev.o) /\ ev.size # 0 THEN "Resurrection"
  ELSE IF Floored(e, ev.o) /\ ev.size # 0 /\ ts < e.resting[ev.o].last_ts THEN "Stale"
  ELSE IF Floored(e, ev.o) /\ ev.size > e.resting[ev.o].size /\ e.resting[ev.o].owner # by
       THEN "Disagreement"
  ELSE "Deliver"

\* A known order that shrank, or was restated: the floor follows, the stamp always.
Restated(e, ev, by, ts) ==
  LET old == e.resting[ev.o]
      new == IF ev.size < old.size THEN [last_ts |-> ts, size |-> ev.size, owner |-> by]
             ELSE [old EXCEPT !.last_ts = ts]
  IN  [e EXCEPT !.resting = SetSlot(e.resting, ev.o, new)]

\* MarketEvents::admit: a refused change leaves nothing but, on a disagreement, the flag.
admit(e0, ev, by, now, ts) ==
  LET e == expire(e0, now)
      v == Verdict(e, ev, by, ts)
      f == IF ev.size = 0 THEN remove_order(e, ev.o, ts)
           ELSE IF Known(e, ev.o) THEN Restated(e, ev, by, ts)
           ELSE track_floor(e, ev.o, ev.size, by, ts)
  IN  IF v = "Deliver" THEN Remember(f, ev, now)
      ELSE IF v = "Disagreement" THEN [e EXCEPT !.forced = TRUE]
      ELSE e

\* Whether forget_expired drops the head of dead: an id that is live again or unknown
\* goes whatever its age, a removed one once it is older than the frontier.
Forgettable(e, o, f) == Removed(e, o) => e.resting[o].last_ts < f

ForgetHead(e) ==
  LET o == Head(e.dead)
      q == [e EXCEPT !.dead = Tail(@)]
  IN  IF Removed(e, o) THEN [q EXCEPT !.resting = DropSlot(e.resting, o), !.n_dead = @ - 1] ELSE q

\* Mutant: removed entries are forgotten a step before events of their time are refused.
forget_expired_early(e, f) ==
  IF f = None THEN e
  ELSE Along(LAMBDA a, i : IF a.dead # <<>> /\ Forgettable(a, Head(a.dead), f + 1)
                              THEN ForgetHead(a) ELSE a,
                e, [i \in 1..MAX_FORGOTTEN_PER_BATCH |-> i])

forget_expired(e, f) ==
  IF f = None THEN e
  ELSE Along(LAMBDA a, i : IF a.dead # <<>> /\ Forgettable(a, Head(a.dead), f)
                              THEN ForgetHead(a) ELSE a,
                e, [i \in 1..MAX_FORGOTTEN_PER_BATCH |-> i])

\* MarketEvents::forget_oldest_removed, once; n_dead > 0 says that one is there.
forget_oldest_removed(e) ==
  ForgetHead([e EXCEPT !.dead = SkipTo(e.dead, {o \in DOMAIN e.resting : Removed(e, o)})])

\* MarketEvents::rebaselined: the window goes, the guard stays, and every order of the new
\* book (a function from orders to sizes, 0 for absent) is seeded as a floor of no path.
rebaselined(e, orders, book, ts) ==
  Along(LAMBDA a, o : IF book[o] # 0 THEN track_floor(a, o, book[o], None, ts) ELSE a,
           [e EXCEPT !.seen = <<>>, !.forced = FALSE], orders)
=============================================================================
