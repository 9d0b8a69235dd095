------------------------------ MODULE OrderRace ------------------------------
(***************************************************************************)
(* Order-level racing in src/src/ingest/arbiter.rs: mirrored publishers of *)
(* one channel report the same order events, the first copy of each goes   *)
(* to the wire, and a guard keeps a lagging copy from bringing back what   *)
(* the wire has left.  The venue appends to a log; every path follows it   *)
(* in order at its own pace, skipping what it lost and what its book,      *)
(* unsynced by the loss, could not apply, and rebuilds its book by         *)
(* snapshot.  A step of a path is one batch under the arbiter lock.        *)
(*                                                                         *)
(* Batches carry `last` (both processors always set it), so nothing is     *)
(* buffered in the accumulator and the wait for a closed event never       *)
(* binds.  Markets are few, so none is evicted.                            *)
(***************************************************************************)
EXTENDS OrderGuard

CONSTANTS
  Path, Market,
  OrdersOf,                \* per market, its order ids as a sequence
  PEER_SERVING_NS, FORCED_REBASELINE_MIN_INTERVAL_NS, MAX_TOMBSTONES_TOTAL,
  AddSize,                 \* per order, what it rests at first
  Behind,                  \* by how much the host clock may be behind the venue's
  Start, MaxNow,           \* bound: where the clock starts and stops
  MaxLog, MaxBatch,        \* bound: events of the venue, changes of a batch
  Faults, MaxFaults        \* bound: which faults happen, and how many

ASSUME RaceAssumption ==
  /\ {PEER_SERVING_NS, FORCED_REBASELINE_MIN_INTERVAL_NS, MAX_TOMBSTONES_TOTAL, Start, MaxNow,
      MaxLog, MaxFaults} \subseteq Nat
  /\ MaxBatch \in Nat \ {0} /\ Behind \subseteq Nat
  /\ IsFiniteSet(Market)
  /\ \A m \in Market : /\ OrdersOf[m] \in Seq(Range(OrdersOf[m]))
                       /\ \A o \in Range(OrdersOf[m]) : AddSize[o] \in Nat \ {0}
  /\ Faults \subseteq {"gap", "depart", "reset", "session", "drop", "channel"}

VARIABLES
  now,      \* the monotonic clock; the venue's clock reads the same
  behind,   \* how far the host's wall clock is behind them
  log,      \* the venue's events so far: [m, o, size, ts]
  pos,      \* per path: how much of the log it is past
  book,     \* per path and market: whether its book follows the log
  clock,    \* the channel's ChannelClock
  ev,       \* Arbiter::book_events, one MarketEvents per market, NewEvents when absent
  bm,       \* per market: the BookMarket's rebaseline flag and rebaselined_ns
  sync,     \* Arbiter::book_sync: per path and market [synced, last_batch_ns] or None
  held,     \* GuardBudget::held
  wire,     \* the replay accumulator: what reached the wire, [base, size]
  known,    \* history: what the wire told of an order that the guard should remember
  faults

vars == <<now, behind, log, pos, book, clock, ev, bm, sync, held, wire, known, faults>>

Order(m) == Range(OrdersOf[m])
Nothing(m) == [o \in Order(m) |-> 0]

NewMarket == [rebaseline |-> FALSE, rebaselined_ns |-> 0]
NewWire(m) == [base |-> FALSE, size |-> Nothing(m)]

\* Every book is empty and followed, and one path's cold start was published.
Init ==
  /\ now = Start /\ behind \in Behind /\ log = <<>> /\ faults = 0
  /\ pos = [p \in Path |-> 0] /\ book = [p \in Path |-> [m \in Market |-> TRUE]]
  /\ clock = NewClock /\ held = 0
  /\ ev = [m \in Market |-> NewEvents]
  /\ bm = [m \in Market |-> NewMarket]
  /\ wire = [m \in Market |-> [NewWire(m) EXCEPT !.base = TRUE]]
  /\ \E first \in Path :
       sync = [p \in Path |-> [m \in Market |->
                 [synced |-> TRUE, last_batch_ns |-> IF p = first THEN now ELSE 0]]]
  /\ known = [m \in Market |-> [o \in Order(m) |-> "no"]]

-----------------------------------------------------------------------------
(* The venue.                                                              *)

\* The book of market m after the first n events of the log.
BookAt(m, n) ==
  Along(LAMBDA b, e : IF e.m = m THEN [b EXCEPT ![e.o] = e.size] ELSE b,
           Nothing(m), SubSeq(log, 1, n))

\* Histories of the venue that go on from the log by an event of market m: an order is
\* added once, shrinks and is removed.
NextEvents(m) ==
  UNION {{[m |-> m, o |-> o, size |-> s, ts |-> now] : s \in 0..AddSize[o]} : o \in Order(m)}

Fits(l, e) ==
  LET before == {i \in 1..Len(l) : l[i].m = e.m /\ l[i].o = e.o}
  IN  IF before = {} THEN e.size = AddSize[e.o] ELSE \A i \in before : e.size < l[i].size

Longer(l, m) ==
  IF Len(l) = MaxLog THEN {} ELSE {Append(l, e) : e \in {x \in NextEvents(m) : Fits(l, x)}}

\* What the log may be when path p, at its position, reports n events of market m.  The
\* venue's events happen as the first path reports or loses them: only a copy is late.
LogsFor(p, m, n) ==
  LET grow[k \in 0..n] ==
        IF k = 0 THEN {log}
        ELSE UNION {IF Len(l) >= pos[p] + k THEN {l} ELSE Longer(l, m) : l \in grow[k - 1]}
  IN  {l \in grow[n] : \A i \in pos[p] + 1 .. pos[p] + n : l[i].m = m}

Tick ==
  /\ now < MaxNow /\ now' = now + 1
  /\ UNCHANGED <<behind, log, pos, book, clock, ev, bm, sync, held, wire, known, faults>>

-----------------------------------------------------------------------------
(* The budget, and what the histories keep.                                *)

\* GuardBudget::take and ::release go with every change of n_dead, from e to f.
Charged(h, e, f) == h + f.n_dead - e.n_dead

\* Over the ceiling the admitting market forgets its oldest removed entries.
shed_over_budget(e, h) ==
  Along(LAMBDA a, i : IF Charged(h, e, a) > MAX_TOMBSTONES_TOTAL /\ a.n_dead > 0
                         THEN forget_oldest_removed(a) ELSE a,
           e, [i \in 1..e.n_dead |-> i])

\* history: a removal is excused once the frontier went back, or the ceiling shed it.
Aged(k) ==
  IF clock.newest_ts # None /\ (clock'.newest_ts = None \/ clock'.newest_ts < clock.newest_ts)
  THEN [m \in Market |-> [o \in Order(m) |-> IF k[m][o] = "buried" THEN "excused" ELSE k[m][o]]]
  ELSE k

Shed(e, f, g) ==
  [o \in DOMAIN g |-> IF Removed(e, o) /\ ~Removed(f, o) /\ g[o] = "buried" THEN "excused" ELSE g[o]]

\* history: so is one forgotten while the dedup window holds its event: a late batch whose
\* last event is young enough then delivers the order's earlier events and has the removal
\* refused as a duplicate.
InWindow(e, o) ==
  \E i \in DOMAIN expire(e, now).seen : expire(e, now).seen[i].ev = [o |-> o, size |-> 0]

Outlived(e, f, g) ==
  [o \in DOMAIN g |-> IF Removed(e, o) /\ ~Removed(f, o) /\ InWindow(f, o) /\ g[o] = "buried"
                        THEN "excused" ELSE g[o]]

\* history: the changes reached the wire.  A removal recorded below its own venue time
\* ages out early and is excused as well.
Told(g, changes, exact) ==
  Along(LAMBDA a, c : IF c.size = 0 /\ a[c.o] \in {"no", "rests"}
                         THEN [a EXCEPT ![c.o] = IF exact THEN "buried" ELSE "excused"]
                         ELSE IF a[c.o] = "no" THEN [a EXCEPT ![c.o] = "rests"] ELSE a,
           g, changes)

\* history: a whole book reached the wire.
Named(g, size) == [o \in DOMAIN g |-> IF size[o] # 0 THEN "rests" ELSE g[o]]

Forgiven(g) == [o \in DOMAIN g |-> "no"]

-----------------------------------------------------------------------------
(* A producer's own re-baseline: the Clear-led batch after a snapshot.     *)

\* The stamp a re-baseline seeds its orders at (channel_newest).
seed_ts == IF clock.newest_ts = None THEN 0 ELSE clock.newest_ts

\* A peer protects the market while it is in sync and delivered lately.
PeerServing(p, m) ==
  \E q \in Path \ {p} :
    /\ sync[q][m] # None /\ sync[q][m].synced /\ sync[q][m].last_batch_ns # 0
    /\ now - sync[q][m].last_batch_ns <= PEER_SERVING_NS

\* set_book_synced: a report of path p, whose entry starts as one that never delivered.
Report(s, b) == IF s = None THEN [synced |-> b, last_batch_ns |-> 0] ELSE [s EXCEPT !.synced = b]

\* note_book_delivery
Delivery(s) == IF s = None THEN [synced |-> FALSE, last_batch_ns |-> now]
               ELSE [s EXCEPT !.last_batch_ns = now]

\* clear_led_rebaseline: published whatever its stamp, which is a book's age.
clear_led_rebaseline(m, size) ==
  LET e == rebaselined(ev[m], OrdersOf[m], size, seed_ts) IN
  /\ ev' = [ev EXCEPT ![m] = e]
  /\ held' = Charged(held, ev[m], e)
  /\ bm' = [bm EXCEPT ![m].rebaseline = FALSE]
  /\ wire' = [wire EXCEPT ![m] = [base |-> TRUE, size |-> size]]
  /\ known' = [known EXCEPT ![m] = Named(@, size)]

\* The path's book is rebuilt and reported, and its batch is dropped while a peer serves.
Recover(p, m) ==
  /\ ~book[p][m] /\ book' = [book EXCEPT ![p][m] = TRUE]
  /\ IF PeerServing(p, m)
     THEN /\ sync' = [sync EXCEPT ![p][m] = Report(@, TRUE)]
          /\ UNCHANGED <<ev, bm, held, wire, known>>
     ELSE /\ sync' = [sync EXCEPT ![p][m] = Delivery(Report(@, TRUE))]
          /\ clear_led_rebaseline(m, BookAt(m, pos[p]))
  /\ UNCHANGED <<now, behind, log, pos, clock, faults>>

-----------------------------------------------------------------------------
(* A batch of order events.                                                *)

\* The host's wall clock and the skew it tolerates.
cap == IF now + MAX_FUTURE_SKEW_NS > behind THEN now + MAX_FUTURE_SKEW_NS - behind ELSE 0

\* serve_forced_rebaseline: a forced market is withheld until its interval has passed,
Withheld(m) ==
  /\ bm[m].rebaseline /\ bm[m].rebaselined_ns # 0
  /\ now - bm[m].rebaselined_ns < FORCED_REBASELINE_MIN_INTERVAL_NS

\* and is then republished from what reached the wire, or as a clear when that is incomplete.
Discharged(m) ==
  LET size == IF wire[m].base THEN wire[m].size ELSE Nothing(m) IN
  IF ~bm[m].rebaseline THEN [ev |-> ev[m], wire |-> wire[m], known |-> known[m]]
  ELSE [ev |-> rebaselined(ev[m], OrdersOf[m], size, seed_ts),
        wire |-> [base |-> TRUE, size |-> size], known |-> Named(known[m], size)]

\* The changes of a batch through MarketEvents::admit: the race state and what is kept.
Admitted(e0, changes, p, ts) ==
  Along(LAMBDA a, c :
             [e |-> admit(a.e, c, p, now, ts),
              kept |-> IF Verdict(expire(a.e, now), c, p, ts) = "Deliver" THEN Append(a.kept, c)
                       ELSE a.kept],
           [e |-> e0, kept |-> <<>>], changes)

\* Mutant: a batch that raised the flag is dropped whole.
SafeToDrop_always(forced, kept) == forced

\* A batch that raised the flag is dropped only when it removed nothing.
SafeToDrop(forced, kept) == forced /\ \A i \in 1..Len(kept) : kept[i].size # 0

Folded(size, kept) == Along(LAMBDA b, c : [b EXCEPT ![c.o] = c.size], size, kept)

\* What was admitted of a batch is settled: the flag, the budget, the wire and the delivery.
Settle(p, m, w, g, a, sends, exact) ==
  /\ ev' = [ev EXCEPT ![m] =
       shed_over_budget([a.e EXCEPT !.forced = FALSE], Charged(held, ev[m], a.e))]
  /\ held' = Charged(held, ev[m], ev'[m])
  /\ bm' = [bm EXCEPT ![m] =
       [rebaseline |-> a.e.forced,
        rebaselined_ns |-> IF bm[m].rebaseline THEN now ELSE bm[m].rebaselined_ns]]
  /\ wire' = [wire EXCEPT ![m] =
       IF sends THEN [w EXCEPT !.size = Folded(w.size, a.kept)] ELSE w]
  /\ sync' = IF sends THEN [sync EXCEPT ![p][m] = Delivery(@)] ELSE sync
  /\ known' = Aged([known EXCEPT ![m] =
       Shed(a.e, ev'[m], IF sends THEN Told(g, a.kept, exact) ELSE g)])

\* emit_order_level_book for a batch that no Clear leads: the clock takes the stamp, then
\* one frontier both forgets removed entries and refuses the batch.
RaceBatch(p, m, changes, ts) ==
  /\ clock' = reseat(observe(clock, ts, now, cap), now)
  /\ \E d \in {Discharged(m)}, st \in {stamp(clock', ts, cap)} :
     \E e \in {forget_expired(d.ev, frontier(clock'))} :
     \E a \in {IF frontier(clock') # None /\ st < frontier(clock') THEN [e |-> e, kept |-> <<>>]
               ELSE Admitted(e, changes, p, st)} :
       Settle(p, m, d.wire, Outlived(d.ev, e, d.known), a,
              a.kept # <<>> /\ ~SafeToDrop(a.e.forced, a.kept), st = ts)
  /\ UNCHANGED <<now, behind, book, faults>>

\* The next events of one market on path p, as many as share a datagram, of which an
\* unsynced book makes nothing.  Stamped by the last (BookState::last_event_ts).
Relay(p, m, n) ==
  \E l \in LogsFor(p, m, n) :
    LET batch == SubSeq(l, pos[p] + 1, pos[p] + n) IN
    /\ log' = l /\ pos' = [pos EXCEPT ![p] = @ + n]
    /\ IF ~book[p][m] \/ Withheld(m)
       THEN UNCHANGED <<now, behind, book, clock, ev, bm, sync, held, wire, known, faults>>
       ELSE RaceBatch(p, m, [i \in 1..n |-> [o |-> batch[i].o, size |-> batch[i].size]],
                      Last(batch).ts)

-----------------------------------------------------------------------------
(* Faults and the resets.                                                  *)

Fault(kind) == kind \in Faults /\ faults < MaxFaults /\ faults' = faults + 1

\* A datagram of path p is lost: its book gaps and says so.
Gap(p, m) ==
  /\ Fault("gap") /\ book[p][m]
  /\ log' \in LogsFor(p, m, 1) /\ pos' = [pos EXCEPT ![p] = @ + 1]
  /\ book' = [book EXCEPT ![p][m] = FALSE]
  /\ sync' = [sync EXCEPT ![p][m] = Report(@, FALSE)]
  /\ UNCHANGED <<now, behind, clock, ev, bm, held, wire, known>>

\* The receiver of path p exits, and its claims with it (forget_publisher_books).
Depart(p) ==
  /\ Fault("depart")
  /\ book' = [book EXCEPT ![p] = [m \in Market |-> FALSE]]
  /\ sync' = [sync EXCEPT ![p] = [m \in Market |-> None]]
  /\ UNCHANGED <<now, behind, log, pos, clock, ev, bm, held, wire, known>>

drop_book_events(m) ==
  ev' = [ev EXCEPT ![m] = NewEvents] /\ held' = held - ev[m].n_dead

\* InstrumentReset on path p: its book and the market's race state go.
InstrumentReset(p, m) ==
  /\ Fault("reset") /\ book' = [book EXCEPT ![p][m] = FALSE]
  /\ sync' = [sync EXCEPT ![p][m] = IF book[p][m] THEN Report(@, FALSE) ELSE @]
  /\ drop_book_events(m) /\ known' = [known EXCEPT ![m] = Forgiven(@)]
  /\ UNCHANGED <<now, behind, log, pos, clock, bm, wire>>

\* EndOfSession: every book of the processor, every market's race state and the clock.
EndOfSession ==
  /\ Fault("session")
  /\ book' = [p \in Path |-> [m \in Market |-> FALSE]]
  /\ sync' = [p \in Path |-> [m \in Market |->
                 IF book[p][m] THEN Report(sync[p][m], FALSE) ELSE sync[p][m]]]
  /\ ev' = [m \in Market |-> NewEvents] /\ held' = 0
  /\ clock' = clock_set(clock, None, now)
  /\ known' = [m \in Market |-> Forgiven(known[m])]
  /\ UNCHANGED <<now, behind, log, pos, bm, wire>>

\* drop_market_state: a Source ID left the market, or the tracked set evicted it.
DropMarket(m) ==
  /\ Fault("drop")
  /\ drop_book_events(m)
  /\ bm' = [bm EXCEPT ![m] = NewMarket] /\ wire' = [wire EXCEPT ![m] = NewWire(m)]
  /\ sync' = [p \in Path |-> [sync[p] EXCEPT ![m] = None]]
  /\ known' = [known EXCEPT ![m] = Forgiven(@)]
  /\ UNCHANGED <<now, behind, log, pos, book, clock>>

\* forget_channel_books: the channel is no longer ingested, and its clock goes as well.
ForgetChannel ==
  /\ Fault("channel")
  /\ ev' = [m \in Market |-> NewEvents] /\ held' = 0 /\ clock' = NewClock
  /\ bm' = [m \in Market |-> NewMarket] /\ wire' = [m \in Market |-> NewWire(m)]
  /\ sync' = [p \in Path |-> [m \in Market |-> None]]
  /\ known' = [m \in Market |-> Forgiven(known[m])]
  /\ UNCHANGED <<now, behind, log, pos, book>>

Next ==
  \/ Tick \/ EndOfSession \/ ForgetChannel
  \/ \E p \in Path : Depart(p)
  \/ \E m \in Market : DropMarket(m)
  \/ \E p \in Path, m \in Market :
       \/ Recover(p, m) \/ Gap(p, m) \/ InstrumentReset(p, m)
       \/ \E n \in 1..MaxBatch : Relay(p, m, n)

Spec == Init /\ [][Next]_vars

-----------------------------------------------------------------------------
(* Properties.                                                             *)

\* The accounting that assert_consistent and assert_budget_consistent check in a debug
\* build: through adds, removals, snapshots, shedding, forgetting and resets, every count
\* matches the slots, every removed order is queued for forgetting, every floor is queued
\* for eviction, and the budget is the sum of the markets.
GuardAddsUp ==
  /\ \A m \in Market :
       /\ ev[m].n_live = Cardinality({o \in Order(m) : Floored(ev[m], o)})
       /\ ev[m].n_dead = Cardinality({o \in Order(m) : Removed(ev[m], o)})
       /\ ev[m].n_live <= MAX_GUARDED_ORDERS
       /\ \A o \in Order(m) :
            /\ Removed(ev[m], o) => o \in Range(ev[m].dead) /\ ev[m].resting[o].owner = None
            /\ Floored(ev[m], o) => o \in Range(ev[m].live)
  /\ held = FoldSet(LAMBDA m, n : n + ev[m].n_dead, 0, Market)

\* An order whose removal reached the wire at its own venue time is not put back on the
\* wire by an event of the race, however late a path's copy of it is, unless the frontier
\* went back over the entry, the ceiling shed it, the entry was forgotten while the dedup
\* window held its event, or a whole book names the order.
NoResurrection ==
  \A m \in Market : \A o \in Order(m) : known[m][o] = "buried" => wire[m].size[o] = 0

\* What the guard holds as removed is removed on the wire: a removal is never lost to a
\* batch that was dropped for a disagreement, or the next re-baseline would revive it.
RemovalReachesWire ==
  \A m \in Market : \A o \in Order(m) : Removed(ev[m], o) => wire[m].size[o] = 0

\* The orders that can hold a floor in the course of a step: those that do, those a due
\* re-baseline seeds, and those of the events read.
Guards(m) ==
  {o \in Order(m) : Floored(ev[m], o) \/ (bm[m].rebaseline /\ wire[m].size[o] # 0)}
    \cup {log'[i].o : i \in {j \in UNION {pos[p] + 1 .. pos'[p] : p \in Path} : log'[j].m = m}}

\* The race never raises the size of an order that rests on the wire with its floor in the
\* guard: a path's late copy of an earlier size does not rewind a fill.  A floor that
\* MAX_GUARDED_ORDERS evicted, before the step or possibly in the course of it, protects
\* its order no more: a late copy of the add then rewinds it.
NoRewind ==
  [][\A m \in Market : \A o \in Order(m) :
       pos' # pos /\ wire[m].size[o] # 0 /\ Floored(ev[m], o)
         /\ Cardinality(Guards(m)) <= MAX_GUARDED_ORDERS
         => wire'[m].size[o] <= wire[m].size[o]]_vars
=============================================================================
