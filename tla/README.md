# Verification of the DoubleZero Edge bridge

The bridge (`src/src`) receives market data of several venues over redundant
multicast paths, rebuilds each market's state per path, decides per message
which path's copy a consumer gets, and serves the result over WebSocket and
HTTP. Several paths carry the same market, each with its own losses, its own
sequence numbers and its own clock, so the hard part is what this project
models: rebuilding a book from a lossy feed, electing or racing the paths of a
market, switching a live consumer from one path's book to another's without a
hole, and bringing a client that lost something back to the published book.

Everything runs in one process. Receivers are tasks; each hands datagrams to a
processor of its own and takes one shared lock (`Arbiter`) per message. Between
two takings of that lock any other path may act, and behind it the sinks read a
broadcast channel and a replay map that are not read together. Those are the
interleavings the modules explore.

## Inventory

| Component | State | Operations | Reached through |
|---|---|---|---|
| Market-by-price book (`ingest/pricebook.rs`) | levels, status, buffered deltas, open snapshot group, required anchor, re-anchor strike | delta, snapshot begin/level/end, instrument reset, end of session, buffer drop | MBP processor, per path and instrument |
| Market-by-order book (`ingest/book.rs`) | orders, level totals, buffered deltas, open group | the same, by order | MBO processor |
| Path authority (`ingest/authority.rs`) | per scope: leader, last seen per path, lead samples; per market: last admitted path, unhealthy paths, revert hold | admit, synthesized admit, health report, matched lead, window close, forget | arbiter, under its lock |
| Arbiter (`ingest/arbiter.rs`) | per market: one accumulator per path, owed re-baseline, withheld count, published slot; order races and channel clocks; quote, trade and depth floors; tape leaders | one arm per message kind, resets, evictions | every receiver and public input |
| Book accumulator (`model.rs`) | levels, pending event, slot, completeness | fold, republish | arbiter, replay map |
| Processors (`ingest/processor.rs`) | definitions, books, revealed Source IDs, open events and committed slot per channel, health memo | datagram, tick | one receiver each |
| Reference data (`ingest/subscriber.rs`) | manifest era, definitions | datagram, manifest, definition | processors |
| Receiver (`ingest/receiver.rs`) | sequence anchor per channel, idle interval, up/down | datagram, tick, rejoin | reconciler |
| Feed health (`ingest/health.rs`) | up per receiver, carriers | register, set, deregister | receivers, reconciler |
| Reconciler (`ingest/reconcile.rs`) | running and draining receivers, admitted filter, tape owners | tick: reap, apply, drain, purge | timer |
| Trade race (`ingest/path_race.rs`) | unmatched arrivals | trade, evict | arbiter |
| WebSocket sink (`sinks/ws.rs`) | per client: scope, bootstrap watermark, withheld markets, lag repair | subscribe, frame, lag, release | broadcast channel, replay map |
| Hyperliquid sink (`sinks/hyperliquid.rs`) | the stage's claims and published sizes; per client: subscriptions, lag | subscribe, batch, lag, bootstrap | the same |
| Trade history (`history.rs`) | one-second buckets per product, running total, ring of prints | ingest, purge, candles | writer task, query API |
| Shred forwarder (`shred/`) | dedup window over slots, leader schedule | shred, refresh | own sockets |
| Inputs, codecs, registry, API, metrics, CLI | configuration, parsing, rendering | | |

What is hard: a path loses, repeats and reorders; snapshots and deltas ride
different ports; a processor asks the arbiter something and acts on the answer
after unlocking; a rebuilt book is sent before its health is reported; a market
changes path inside a logical event; two mirrors race order by order under a
venue clock either may bend; a client is bootstrapped from a map that is ahead of
its queue; every table keyed by the wire is capped and evicts; timers (silence,
holds, rebuild claims, lapsed boundaries, repair paces) race late messages.
`PROJECT.json` lists the hazards at their lines with the properties that watch
them.

What makes each part correct:

- **books:** what is called served or synced is the publisher's book at some
  delta, and what is shown under the Source ID in use is that book;
- **authority:** one serving path per market, healthy and alive when there is
  one, every switch announced, a recovered leader neither too early nor too late;
- **book gate:** what a following consumer holds, what a new one is given and
  the whole book of one path at the end of an event are the same thing;
- **order race:** a removed order stays removed and a fill is never rewound,
  however late the other mirror's copy is and while the guard holds its floor, and
  no removal is lost;
- **quote gate:** while update IDs order a key no quote goes out twice or after
  a newer one, and nothing (wrap, padding, silence, a switched-off source) leaves
  the key dark;
- **trade gate:** two paths' copies of a print pair up, a print goes out once, and an
  election moves the tape once;
- **definitions:** prices are scaled by the newest manifest, and the definition in
  force reaches the prices, the new clients and the established one;
- **sinks:** a client taken for current holds the published book, and one that is
  not is bootstrapped in the end;
- **history:** candles of every granularity are those of the prints;
- **shreds:** the first good copy goes on and, inside the window, no second one;
- **reconciler:** one row prints a universe's tape, but for the moment in which
  running receivers are switched over, and a live one when there is one; a channel the operator dropped goes dark and nothing else is ever purged;
  a stopped receiver never holds its venue up.

## Modules

```
PriceBook <- PriceBookFeed <- MCPriceBook
                           <- PriceBookProofs
OrderBook <- MboFeed <- MCOrderBook
                     <- MboProofs
Definitions <- MCDefinitions
            <- DefinitionsProofs
Authority <- AuthorityElection <- MCAuthority
                               <- AuthorityProofs
Authority, BookAccumulator <- BookGate <- MCBookGate
                                       <- BookGateProofs
QuoteGate <- MCQuoteGate
          <- QuoteGateProofs
FeedHealth <- Reconciler <- MCReconciler
                         <- ReconcilerProofs
OrderGuard <- OrderRace    \
OrderGuard <- VenueClock    |
PathRace   <- TapeGate       > <- MCLanes
ShredForwarder              |
OrderSink, History         /
OrderRace, VenueClock, TapeGate, ShredForwarder, OrderSink <- LaneProofs
ClientFeed <- MCClient           ClientFeed implements ClientView
```

**PriceBook** holds one operator per method of `PriceBook`, on a record with the
struct's fields. Levels are a set of (side, price, quantity) records. The replay
loop is written in closed form (`replay`); `MCPriceBook` keeps the loop itself,
as a fold, and the run `pricebook` checks that they agree on every state
met. **PriceBookFeed** adds a publisher (external: modelled from what the code
expects of it) and a network in which an arrival is any message of the session,
any number of times; with `Fifo` each port stays in order. Order counts, level
flags, event clocks and the divergence report are left out; nothing in the
recovery reads them.

**OrderBook** does the same for `BookState`, order by order: a population is the
quantity of each id, and the levels are the running totals the code keeps beside
it, so that they can disagree. **MboFeed** is the publisher, the three ports and
`MboProcessor` with its memos (Source ID revealed, sync reported, book shown) and
what the arbiter and its consumers were told per Source ID. Left out: the set of
removed ids, which refuses a repeated Add that no venue sends, the event time of
the last delta and the floor on depth frames.

**Definitions** is the reference data of mirrored publishers: `RefDataState`, the
top-of-book and midpoint processors, the catalog they share, the instrument arm
of the arbiter and one established client. A precision stands for a definition.

**Authority** holds one operator per method of `StickyAuthority` for one scope;
scopes share only the market cap. **AuthorityElection** runs it with the book arm
as the caller, health reports, matched leads, window closes and evictions. Where
a hash map's order decides (`alternate`, `best_challenger`) every choice is
allowed. Metric labels and release reasons are left out.

**BookAccumulator** is the fold of `book` batches. A book is the *set of venue
changes* folded since the last clear: that tells a complete book from one with a
hole without modelling prices. **BookGate** is the book arm of
`Arbiter::emit_scoped` with everything it calls (`Emit`: the authority's half is
`decision`, the gate's half `emit_scoped`), around it the parts of
`MbpProcessor` that the gate depends on, as one action per step that takes the
lock:

| Action | Code |
|---|---|
| `Part` | a datagram inside an event (`send_book`, `last: false`) |
| `Close`, then `Closed` | boundary, lapse or tick: ask `book_rebaselines_owed`, unlock, then send the close or the whole book |
| `Aside` | a boundary or lapse that closes nothing of the market, or is refused |
| `Lose`, `Rotate`, `Install` | gap, rotation over a live book, rebuilt book sent whole |
| `Report` | `report_health`, at the end of each datagram, after its batches |
| `Elsewhere`, `Transfer` | the path is heard on another market; a margin transfer |
| `DropMarket` | `drop_market_state`: eviction, reset, departing channel |

The venue's changes are numbered and a path's book at position k holds 1..k.
In a `shared` scope both paths carry the same changes and slots; otherwise each
path's changes are its own, so a book mixed from two paths is visible. A slot is
named by the position it closes. A path handles one datagram at a time and files
its health before the next. Not modelled: a venue's own clears inside an event,
one-sided clears, order-level markets (they are `OrderRace`), the deferral until a Source ID is known,
paths past the label cap (turned away before the gate).

**OrderGuard** holds, as operators, the venue clock of a channel (`ChannelClock`)
and a market's race state (`MarketEvents`): floors, tombstones, the queue of seen
events. **OrderRace** is the order-level book arm with everything it calls, and
`set_book_synced`, `force_rebaseline` and every reset. The venue appends
to a log; a path follows it at its own pace, misses what it lost and rebuilds its
book by snapshot. **VenueClock** drives the clock alone with any stamps, which
the race's venue would not send.

**PathRace** holds the matcher's operators; **TapeGate** is the trade arm around
it: `tape_path_admits`, `claim_no_id_tape`, the window of ids. Which paths the
authority tracks and elects is arbitrary there, so what it shows holds for every
authority.

**ClientView** is what the WebSocket server promises one client about one market:
it holds the published book once what is queued has arrived, or the server knows
that it does not and bootstraps it. **ClientFeed** is the sink: the replay map,
the broadcast, the serializer, the client's queue, its watermark, withheld markets
and the paced repair; `View` is its refinement mapping and `KeepsPromise` says it
implements `ClientView`. The abstract view is what the client's book becomes when
the frames on their way have arrived, the ones its watermark drops left out.

**OrderSink** is the `l4Book` channel of the Hyperliquid sink: the stage that
renders each batch once for all clients, its claims and its record of published
sizes, and a client bootstrapped from the map. A batch carries all the changes of a
datagram, several of one order included, each told against the sizes before the batch. **History** is the store behind the
query API with its writer and the purge; the property compares its candles with
candles computed from the prints themselves. **ShredForwarder** is the dedup
window, the forwarder's decision with and without signatures, and the refresher of
the leader schedule.

**QuoteGate** is the quote arm of `emit_scoped` for one key: `judge` is
`UpdateIdFloor::judge` (a total operator from the key's state and a quote to the
verdict and the next state), `FloorAdmits`/`FloorAfter` are
`StalenessFloor::admit`, and `Quote` is the arm itself, with the guard on a
future timestamp, `judge_update_id` (`Judged`) and the fall back to the floor
(`Legacy`). The venue (external) numbers its updates without wrapping, at most
`Rate` per tick, and a path's copy of any update published within `Delay` arrives
any number of times, in any order. An encoder sends the counter modulo
`2 * HALF`, no ID, or constant padding. `HalfRing`,
`Rate * (timeout + Delay) <= HALF`, is the assumption the code's timeout is sized
for: without it the comparison of two IDs is not the order of their updates.
`HALF` stands for 2^31 and wraps for real in the run. What is not claimed: when a
key leaves the ID regime the floor has seen nothing of what the regime forwarded,
so `source_ts` may go back at that moment. The lead measured at a contested tick
and the counters are left out; they only feed metrics.

**FeedHealth** holds one operator per method of `FeedHealth`, on a record with
the lock's state and the last status published per venue (`wire`). **Reconciler**
is the tick that applies a desired set (`apply_desired` with `reap_finished`,
`apply_feeds`, `drain_departed` and `forget_departing_channel`) beside the
receivers it spawns:

| Action | Code |
|---|---|
| `Start` | a conclusive `tick` up to the aborts and the ranking: any subscriptions, and any filter at each of its two reads |
| `publish_tape_owners` | the flag of one running receiver is swapped |
| `Finish` | the spawns, with the flag they will hold, and `drain_departed` |
| `Bind` | sockets bound, `ReceiverRegistration::new` |
| `Exit`, `Cancel` | bind error, or an abort reaching the task: the registration drops |
| `Silent` | the idle watchdog |
| `Refdata`, `Mktdata` | a datagram: the catalog, the watchdog's reset, the book |

A tick is these three in order (`Tick` is any of them). The flags are swapped one by
one, in no order between them because the code walks a hash map, and the receivers run
in between: a row that gained the tape may be on before the one that lost it is off.
A key's tasks are incarnations, because an aborted task lives on beside its
replacement; a bound task stands for a waiting and a polled one, so an aborted
task may still write and report until it is cancelled. Entries of `draining` are
a set: the order in which `drain_departed` visits them does not matter, since a
purge on a channel is handed on until the last entry of it. The shared maps are,
per channel, whether they hold anything. Left out: starting and stopping the sinks
and the shred forwarder, several categories of one venue (every map is keyed by
category), the gauges.

**Time.** In the authority and book gate modules the clock is relative: `Now` stands
still and `Tick` ages every stamp by one, down to 0. Only differences of stamps
to now are compared by the code, and every timeout is at most `Now`, so stamps
that have reached 0 are indistinguishable for it and no clock bound is needed.
`PriceBookFeed`, `OrderRace`, `TapeGate` and `QuoteGate` have an absolute clock; for
`QuoteGate` and the races it is bounded (`MaxTime`, `MaxNow`, `TapeEnd`), and
`MCPriceBook` and `MCLanes` compare states by the ages of their stamps (`VIEW`);
`MCLanes` also by what a batch leaves each order at and has told of it. In
`ClientFeed`, `MboFeed` and `Definitions` only the passing of a limit is a step.

## Runs

| Run | Shows |
|---|---|
| `pricebook` | what the book serves is the publisher's, never one a reset discarded (`ServedIsTruth`); closed-form replay is the loop; a rebuild's claim to serve ages out (`ClaimAges`); a re-anchor needs two distinct rotations |
| `authority` | a held market goes back neither before its hold nor after its deadline; only silence deposes a leader; no market goes deaf; a switch is always announced; a book in doubt is served only when all are |
| `gate` | the stream and the replay map are one book (`OneBook`), the whole book of one path at the end of an event (`WholeBook`); with seamless handovers a named slot is reached and slots never move back while the market is tracked |
| `gate_heals` | a market withheld from new clients becomes complete again (`Heals`) |
| `quote_ids` | across the counter's wrap no quote goes back while the key holds an ID (`NoRegress`); paths that carry the counter never switch it off; no fleet leaves the key dark (`NeverDark`) |
| `reconcile` | a departed channel goes dark, whatever was in flight (`DepartedIsDark`); only narrowing purges, and only what no admitted row supplies; one row prints outside the swap of the flags, and no spawned owner starts beside an incumbent (`OneTape`); a stopped receiver never pins its venue up; a dead row loses the tape (`TapeHeals`) |
| `lanes` | six machines that share no variable, a behaviour being of one of them. Orders: `NoResurrection`, `NoRewind`, `RemovalReachesWire`, `GuardAddsUp`. Clock: `ClockCatchesUp`. Tape: `PairsAreCopies`, `DefersOnce`, `PrintedOnce`. Shreds: `ForwardedOnce`. Order sink: `L4Follows`. History: `CandlesAreTape` |
| `client` | the WebSocket sink implements `ClientView` (`KeepsPromise`), and every lag and withheld market is repaired in the end (`BootstrapComes`) |
| `orderbook` | a synced market-by-order book is the publisher's (`SyncedIsTruth`), and what is shown under the Source ID in use is that book (`ShownIsBook`) |
| `definitions` | prices are scaled by the newest manifest through its wrap (`NewestManifest`), and the definition in force prevails everywhere in the end (`DefinitionsHeal`) |

Two runs expect a violation, each of something the repository says of itself:

- `gate_abandoned_claims_complete`: the withheld count carries over a change of
  serving path, so a re-baseline can be given up inside an event on a path whose
  accumulator is complete; the comment (arbiter.rs:164-168) says it then degrades
  to a bare clear.
- `orderbook_named_unshown`: a definition that names the Source ID can find a book
  already synced, and sends nothing; the comment (processor.rs:1706-1708) says no
  book can exist yet.

**Bounds.** Each run's bounds are the constants of its `.cfg`; the choice is the
smallest in which every status, cap and timer is met.

- `pricebook`: two prices, two deltas, three rotations, two sessions, a reset, a
  level cap of one and a buffer of two, with each port in order. The unordered
  network, larger caps and other depth bounds are covered by the theorems, which
  hold for every value of the constants.
- `authority`: three paths with a label cap of two make an ineligible one; two
  markets behind a table of one make evictions.
- `gate`, `gate_heals`: two paths and up to two changes give a lag of one, an event
  of two datagrams and a buffer that overflows (cap 1; cap 0 in `gate_heals`, where
  any open event overflows). `gate` runs three scopes: paths told apart with losses,
  rotations and transfers, or with losses and drops (two faults each), and mirrored
  paths with a transfer. `MAX_WITHHELD_BATCHES` is out of reach in `gate`; past it are
  `gate_heals` and the run of its own.
- `quote_ids`: four updates from 15 on a ring of 16 cross the wrap and its zero, a
  jump cap of 1 makes jumps, a tick cap of 1 fills the tick, four ticks of the clock
  are two regime timeouts.
- `reconcile`: a top-of-book and a market-by-price row meet on one channel; two
  incarnations of the first give an aborted task beside its replacement, and a drain
  bound of one tick gives tasks that outlive it.
- `lanes`: two paths, two orders of one market (one filled in two steps), three
  events and one fault of any kind; a tombstone budget of one, so the ceiling sheds, and
  a cap of one floor, so that a second order at rest evicts the first one's; three
  prints and an election or a lost print; a window of two slots over three epochs of
  two; two orders, three batches of up to two changes, or two and a fault, and queues of
  one and two; three prints of three products against a budget of two buckets.
- `client`: two levels, three batches, three joins or subscription changes, and both
  queues of one frame, so that the serializer and the client lag.
- `orderbook`: three orders on two levels with a book cap of two, two deltas, two
  rotations, a buffer of one and one fault of any kind.
- `definitions`: manifests from 7 on a ring of 8, two mirrors, one change and one
  fault.

Larger instances were run once each and passed: `MboFeed` with two faults on two
orders (4.3 M distinct states); `Definitions` with one publisher, two changes and
three faults (0.9 M); `OrderSink` with three batches and a fault (0.7 M); `TapeGate`
with an election and a lost print (0.5 M); `History` with two products, a window of two
seconds and four prints (0.7 M). Symmetry over interchangeable paths is used where
no liveness is checked; the symmetry of `lanes` also swaps two products of one
channel and the order sink's two orders.

**Fairness.** `gate_heals`: weak fairness of ending a close, a rebuild and a
report: each is the rest of a call already under way, or the venue's periodic
snapshot cycle. It is stated on the path's part of the step (`EndsClose`,
`EndsRebuild`, `Files`), which the arbiter never refuses. Strong fairness of
`LeaderCloses`: the scope's leader keeps ending events of this market while its
book is up. The code cannot heal a market nobody publishes (it asks for the whole
book only at a close), so this is the venue's activity, not a promise of the
bridge. Leadership is assumed to settle: a leader deposed between asking what it
owes and sending its close repairs nothing, so a scope that changes hands forever
may never heal. The run keeps the clock still, so that leaders change only by the
bounded transfers and failures. Nothing is assumed of the other paths.
`reconcile`: weak fairness of the parts of the tick; the poll loop never returns, and a CLI that
never answers again keeps the current owners on purpose. `client`: the arbiter's
broadcast, the serializer and the client's task run (a client that stays connected
reads, or its socket fails and it is gone), paces and deadlines elapse, and an
incomplete market is sent whole again, which is what `Heals` shows. `definitions`:
mirrors follow the venue, repeat manifest and definition, send prices, and the
re-announce interval elapses.

**Excused.** What a property excepts is what the code does not guarantee, and
without the exception the property fails. The exceptions are kept as history
variables, so each covers only the states after the event it names.

- `DepartedIsDark`: a receiver that outlives the drain bound may write after its
  purge; the code says so. The other case contradicts a comment: `filter()` promises
  every caller of a tick one consistent filter, but a tick reads it once for the
  desired set and once for the purge diff. When the admin surface swaps it in
  between, a receiver of a departed channel is kept, the diff moves on, and the next
  tick aborts it as a mere loss of subscription: its catalog entries and books stay
  for good. Also outside what is claimed: the drop of an aborted task removes the
  registration of the replacement that overlaps it, so a venue can read down while
  its receiver delivers.
- `KeepsPromise` counts a client as `Torn` after three losses the server does not
  make up for: a lag of the serializer, which no client hears of; a withheld market
  released at its deadline inside an event; and a batch stamped before the bootstrap
  but published after it, which the watermark drops.
- `SyncedIsTruth` excepts a rotation one of whose orders was repeated, which makes
  the count complete without a lost one; a rotation captured before a reset that
  was heard first; and the level totals, not the orders, of a book that goes on with
  the deltas after a reset it has not heard: an order may then rest larger here than at
  the venue, and a full fill takes off its level only what it says. `ShownIsBook` excepts the time from a bare clear, or from a
  definition that named a synced book, to the next re-baseline.
- `NoResurrection` asks for a removal at its own venue time, and nothing after the
  ceiling shed the entry, after the frontier went back over it, or after it was
  forgotten while the dedup window held its event (`Outlived`), which TLC met as a
  counterexample to the property with a window longer than the retention (below).
- `NoRewind` speaks of an order whose floor the guard holds. The run has a cap of one
  floor and two orders, and without the exception TLC finds the rewind below.
- `OneTape` lets a second row be on inside `publish_tape_owners` until its own flag is
  swapped, and at no other time.
- `PairsAreCopies` allows a wrong pair after a lost print or one a path never saw, since
  prints of equal content cannot be told apart then; and among three tracked paths
  (below). The run has two.
- `L4Follows`: `new` and `update` are held to what the client had before the batch, not
  before each change of it; for the rest see the sink below.
- `ForwardedOnce` asks nothing for shreds of an epoch older than the refreshed ones.

## Disagreements noticed without a run

Met while modelling; each is described in a comment of the code otherwise than the
code behaves, or is a case the code leaves open. They have no run of their own.

- *Re-anchor* (pricebook.rs:241-247): two truthful rotations can strike a correct
  book that shrinks twice; the comment says requiring two removes the class.
- *Authority* (authority.rs:239-241, 276): the queue entry `forget_market` leaves
  behind is not a no-op pop once the market has come back; it evicts the live entry.
- *Tape* (arbiter.rs:3450-3455, 3514): an elected path whose trade feed is nearly
  dead can claim the tape back after a straggler print.
- *Trade matcher* (path_race.rs:44-50 "that pairing is the correct one"): true of two
  paths. A third path's copy of a print already paired waits, and the first path's next
  identical print pairs with it (199), so the lead measured is between two trades.
- *Reconciler* (reconcile.rs:738-741): an incumbent is off before its replacement is on
  if the replacement is spawned; between two receivers that stay, the loop may switch the
  new one on first. The comment at 999-1000 allows for the one duplicated print.
- *Order floors* (arbiter.rs:1367-1370 "a drift-detection budget, not a correctness
  one"): once the cap evicts a floor, a late copy of the add puts the order back to its
  full size. `NoRewind` excepts evicted floors.
- *Dedup window* (main.rs:345-346 "this does not gate resurrection"): nothing keeps
  `--arb-book-dedup-window-ms` at or below the retention (`validate`,
  arbiter.rs:274-297, does not see it). With a longer one the guard forgets a removal
  whose event the window still holds, and a late datagram that packs an order's add,
  its removal and a recent event is judged by the last stamp: the add is delivered,
  the removal refused as a duplicate, and the order stays on the wire. The defaults
  are 1 s and 30 s, and the datagram has to span more than the retention.
- *WebSocket* (ws.rs:92-94, 395-398; PROTOCOL.md:528-531): the watermark assumes
  stamps in order of publication, and a lag of the serializer is repaired for nobody.
- *Market-by-order book* (book.rs): a snapshot installed over deltas applied between
  its begin and its end takes the book back and waits for the gap to show; a
  duplicated `SnapshotOrder` stands in for a lost one (284-316); a snapshot from
  before a reset is accepted after it; a full fill of less than the resting quantity
  leaves the difference in the level total.
- *Market-by-order processor*: after a bare clear deltas land on an empty consumer
  book until the next re-baseline; evicting a book does not report it unsynced;
  `synced_reported` is per instrument, so after a rename the new market is not told;
  the Reset Count is not read, so a lost end of session leaves the old sequences.
- *Definitions*: a quote that overtakes its redefinition is scaled by the old
  exponents (processor.rs:612-624); a publisher forgotten and then renamed leaves its
  old catalog entry (447-455); the arbiter's instrument key has no category
  (arbiter.rs:1714; model.rs:615-622); the catalog entry and the broadcast of two
  receivers are not written together.
- *Shreds* (leader.rs:88-91): late shreds of the previous epoch are dropped after the
  retain, for want of a leader.
- *Hyperliquid* (hyperliquid.rs:1275-1281 "those converge"): a client that subscribes
  while frames rendered for an earlier claim are queued with unrendered ones behind
  them keeps an order that is gone; a gap met while the market is withheld leaves the
  old orders (1449-1487); `new` is sent for an order the bootstrap contained. The seed
  from the accumulator is there so that a bare clear reaches `l4Book` subscribers
  (883-885), but a market whose entry the arbiter dropped as well is seeded as
  price-aggregated, and the clear is rendered for nobody (886-898, 914). Within one
  batch every change is told against the sizes before it (537-555), so an order added and
  filled is told as `new` twice, and one removed and added as `remove` and `update`;
  "the three are not interchangeable" (312-317).
- *History*: a print stamped up to the tolerated skew ahead moves the window, so its
  oldest seconds may go early; after a purge the print in flight survives.

## Proofs

`PriceBookProofs` proves, for every set of prices, quantities, deltas, depth
bounds and every cap and bound:

- `TypeCorrect`: `Spec => []TypeOK`;
- `Served`: `Spec => []ServedIsTruth`, from
- `Invariance`: `Spec => []IndInv`.

The assumptions are those named in the modules (finite sets of prices, natural
bounds, deltas drawn from `BookDelta`). `ServedIsTruth` is not inductive: it says
nothing of a book that is not served, of the group being assembled or of the
anchor a reset requires. `IndInv` adds that every rotation published is the
publisher's book at its sequence (`SnapInv`); that the open group holds a subset
of its rotation's levels, one per price, with no more counted than held
(`OpenInv`), so a group whose count is complete *is* the rotation; and that until
a rotation of the newest reset's stretch has been accepted the reset's anchor is
required (`AnchorInv`). The argument composes runs of deltas (`ApplyRunCompose`):
a rotation at sequence k followed by the replayed deltas k+1..j is the publisher's
book at j. Per method there is one lemma on types and one on the invariant.

`QuoteGateProofs` proves, for every ring, rate, delay, timeout, jump cap, tick
cap and fleet of encoders that satisfy the module's assumptions:

- `Ordered`: `Spec => NoRegress`;
- `StaysOn`: `Spec => []CounterStaysOn`;
- `Lit`: `Spec => []NeverDark`;
- `TypeCorrect`: `Spec => []TypeOK`, all from
- `Invariance`: `Spec => []IndInv`.

`IndInv` (in `QuoteGate`) adds three parts. `Paced`: n updates take more than n /
Rate ticks less one. `Held`: what a key holds is the ID of an update dated within
the delay of its admission, and a held jump is the ID of an update more than the
jump cap ahead. `Recent`: what went out is at least as recent as what either gate
holds. The argument: `Paced` and `HalfRing` put any two updates a live key can
compare less than half the ring apart (`WithinHalf`); there, the wrapped
difference of two IDs is the distance of their updates (`SerialOrder`, from
division with remainder), so `update_id_newer` is the order, equal IDs are equal
updates, and an ID near a held jump is ahead of what the key holds. `judge` is
then taken by its seven outcomes (`JudgeCases`).

`ReconcilerProofs` proves, for every set of rows, kinds, statuses, channels, codes
and ports, every drain bound and any number of overlapping tasks:

- `TypeCorrect`: `Spec => []TypeOK`;
- `VenueNeverPinnedUp`: `Spec => []NeverPinnedUp`;
- `TapeHasOneRow`: `Spec => []OneTape`;
- `DepartedGoesDark`: `Spec => []DepartedIsDark`;
- `PurgesNarrow`: `Spec => OnlyNarrowingPurges`.

The assumptions are `HealthConstants` and `ReconcilerConstants`; that ports are
unique within a kind (`KeysAreUnique`) is what gives a universe an owner, and is
not needed for it to have at most one. `IndInv` adds that the wire is the aggregate of its receivers
(`WireAgrees`), that an entry which is up is a bound task's that delivers
(`UpIsBound`), that only a running task in the active map has the tape flag
(`TapeIsActive`), that the flag belongs to an owner of the last ranking or is still to
be swapped (`TapePublished`), and that the owners of a channel are of one kind
(`OwnersAgree`), because liveness, kind and port rank rows strictly (`OneOwner`). Two
rows that are on are therefore of one kind, or one of them is about to be switched off,
in whatever order the flags are swapped. `DepartedIsDark` needs an invariant of its
own, `DarkInv`: a receiver runs for an admitted channel (`ActiveHeld`); a task that
still runs is active or waited for (`TasksHeld`); and the channel of an entry left
to drain, like what the catalog and the books hold, has a purge on its way or an
admitted row that supplies it (`DrainHeld`, `Covered`). The argument follows one
purge through a tick: it is set at the abort or handed to what drains
(`DepartureIsDue`), and it is run, waits on or is handed again (`PurgeMoves`).

`PriceBookProofs` also proves the two properties of the served claim's age:

- `ClaimIsBounded`: `Spec => []ClaimAges`, from `ClaimInv`: a rebuild over a live
  book carries a start of service no later than the last instant the book could
  publish. Each method either keeps that chain or ends the claim (`Chained`);
- `ReanchoredByTwo`: `Spec => TwoRotations`, from `StrikeInv`: a strike names a
  rotation that has already called the book short.

`AuthorityProofs` proves, for every number of paths and markets and every cap,
hold, deadline and timeout, the six invariants of the run `authority`:
`SwitchAnnounced` (`SwitchIsAnnounced`), `HealthyServed`
(`ServesHealthy`), `NoMarketDeaf` (`NeverDeaf`), `LeaderLostBySilence`
(`SilenceOnly`), `RevertIsHeld` (`HeldRevert`) and `ExileIsBounded`
(`BoundedExile`), all from `AuthoritySafe`: `Spec => []Inv`. None is inductive: each
relates a history to a hold that is made, refreshed and dropped in other calls.
`Inv` adds what the record knows of the paths (`Labelled`, `HeardLast`), that a
remembered admission is the path followed (`FollowsAdmitted`), that while a path
serves in the leader's place the hold is stored, names both and is no older than
the leader's last bad report (`ProbationHeld`), and that the hold in the way of a
refused leader started no later than the first refusal (`RefusedTimed`). One lemma
per method says what it keeps of the entry; `admit` is then taken by its outcomes.

`BookGateProofs` proves, for any number of paths, every scope, cap and bound, with
the authority's whole record and the processors around the gate:

- `OfferedWhole`: `Spec => []WholeBook`;
- `SlotsOnlyGrow`: `Spec => SlotMonotone`;
- `FollowerAndBootstrapAgree`: `Spec /\ []Patient => []OneBook`;
- `SlotIsReached`: `Spec /\ []Patient => []SlotReached`, from
- `GateSafe`: `Spec => []Inv`.

`Patient` says that no re-baseline gave up waiting for the end of an event. The
proviso is the finding `AbandonedIsIncomplete`: a wait given up can send a book
while changes are pending, after which follower and replay map differ by those.
The run has `MAX_WITHHELD_BATCHES` larger than any wait, and so the same proviso;
`WholeBook` and `SlotMonotone` hold without it. `Inv` says that what the
arbiter keeps of a path, if complete, is all that path has sent (`Covers`: its
book, open event and close under way together are the path's changes so far) and
is its whole book at the end of an event that had reached the slot (`WholeAt`);
and that the book on offer covers the path last admitted unless a re-baseline is
owed (`Offered`). That last part is why a batch can be sent as it came, and it is
what a dropped batch, a withheld batch or a handover would break. The argument
splits a batch's way in two: the authority's half leaves `last_admitted` at the
sender exactly when the batch goes out (`Decided`); the gate's half has four
outcomes (`DroppedLands`, `WithheldLands`, `AppliedLands`, `RebaselinedLands`).
Steps that send nothing need only that the path's own position, status and close
move together (`Silent`).

`LaneProofs` proves five components of the lanes. The first three:

- `ShredsForwardedOnce`: `ShredSpec => []ForwardedOnce`, from `ShredInv`: inside
  the window the winners' keys are those of the shreds that went on, and the
  refresher drops no epoch it still owes;
- `ClockAlwaysCatchesUp`: `ClockSpec => []ClockCatchesUp`, from `ClockInv`: a clock
  that trails holds a sample as new as what it trails, and its timer has run since
  no later than the start; neither passes the host's clock;
- `TapeDefersOnce` and `TapePrintedOnce`: `TapeSpec => []DefersOnce` and
  `TapeSpec => []PrintedOnce`, from `TapeInv`: a transfer spends the election it
  yields to, all that went out is behind the path that owns the tape, and an id
  that left the window was pushed out by as many later prints as the window is
  long, which is counted with a pigeonhole on the ids in it.

Of the order race `LaneProofs` proves, for any finite number of markets and any
number of paths and orders, `RemovalOnWire` (`Spec => []RemovalReachesWire`) and `GuardConsistent`
(`Spec => []GuardAddsUp`) from `RaceSafe`: `Spec => []RaceInv`. `RaceInv` says that
each market's race state is sound (`Sound`: counts and queues are those of the
slots, floors within the cap), that an order it holds as removed is at 0 on the
wire (`Agree`), and that the budget is the sum over the markets (`Together`). The
argument goes along the code's loops, each a fold: `forget_expired`,
`shed_over_budget`, `rebaselined`, the changes of a batch (`Admitted`) and their
application to the wire (`Folded`). What a loop does is an induction over its steps,
stated with sets (`Steps`, from `LeastExists`) because a theorem with an operator as
its parameter cannot be used; the sum over the markets is taken in the order the
fold picks them (`PickSteps`). The step that matters is `BatchJudged`: a removal
that was admitted is among the changes kept and, none restoring it, leaves 0 on the
wire; if no kept change is a removal the batch made no removed order, which is why
`SafeToDrop` may drop it. Everything else (shedding, forgetting, a re-baseline) only
takes orders out of the removed ones; a re-baseline seeds its floors from the wire
itself. Assumed: finitely many markets, a sequence of orders for each, and orders
of a positive size.

`RemovedStaysRemoved` is `Spec => []NoResurrection`. `RaceInv` says what the guard holds,
not what it has rightly forgotten; `GraveInv` adds that. The venue's log is in order
of time and the sizes of an order shrink along it (`Orderly`); and for every order
buried, its removal is an event of the log and either the guard holds it, stamped no
earlier than that event, or the frontier is past the event and the window does not
hold it (`Grave`). Held, every non-zero size is refused. Forgotten, a batch young
enough to be judged ends at or after the frontier, so it ends behind the removal in
the log; if it names the order at all it therefore contains the removal, which the
window does not refuse and which comes last of the order's events (`BatchGrave`). What
keeps it so is followed through each loop: what a batch does to the stamps and the
window (`BatchHeard`), what `forget_expired` may drop (`Faded`) and the budget
(`Fewer`), what a re-baseline restores (`BaselineLaid`), and the history (`ToldNotes`).
An entry is never fresher than its order's burial: what the guard holds as removed
was told (`Laid`). Assumed besides: `None` is no number.

Of the Hyperliquid sink it proves `SubscriberFollows`: `SinkSpec => []L4Follows`, for
every set of orders, both queue lengths and every bound. `L4Follows` speaks of a
client with nothing left to read; `SinkInv` says what a client *will* hold, at any
moment and after any part of its queue. With the batches published and not yet
rendered called pending, `World` and `Reader` say:

- what is pending, what the stage last published, each queue and the client's book
  agree with the map on every order that no later batch names (`PendNow`, `StageNow`,
  `QueueNow`, `BookNow`); with nothing pending and nothing queued, `BookNow` is the
  first half of the property;
- `new` and `update` fit what the client holds when it reads the batch: behind a whole book
  in its queue (`QueueFit`) and behind its own (`BookFit`);
- for that to last, the sizes the stage renders against are those the client will have
  when it has read its queue, on every order no pending batch up to the bootstrap names
  (`QueueStage`, `BookStage`).

A batch names several orders, and one of them several times; where it leaves an order is
its last change of it (`LastChange`), and what a frame says is followed order by order
(`Says`). Each action has a lemma for what it does to the pending batches and one for the client;
those that queue an entry (`Pushed`) or read one reduce to `Append` and `Tail` of a
queue, where "the last entry that names the order" moves by one. A lag of either is
covered: the stage's makes `Resync` the last entry, behind which nothing is claimed
until the client starts over. TLC refuted the first `SinkInv`, and its counterexample is
the clear rendered for nobody described above. Assumed: `Bare`, `Resync` and `Absent`
are none of the records they stand beside.

`DefinitionsProofs` proves `NewestManifestScales`: `Spec => []NewestManifest`, for
every ring, number of publishers and order of late manifests. `Inv` adds that
within a Reset Count a publisher numbers its manifests by the redefinitions they
carry (`Numbered`) and that the state's newest sequence is that of the newest
manifest taken in (`AllCurrent`). Any two manifests in question are less than half
the ring apart, where the wrapped comparison is the order (`SerialOrder`).

`MboProofs` proves, for every set of orders and Source IDs, every price, alphabet
of order messages, cap and bound:

- `SyncedBookIsTruth`: `Spec => []SyncedIsTruth`;
- `ShownBook`: `Spec => []ShownIsBook`, both from
- `MboSafe`: `Spec => []MboInv`.

`MboInv` says that every delta makes sense to the publisher in whichever epoch it is
counted and every rotation is the publisher's book as it was (`PubInv`); that the
group being assembled holds part of its rotation, with no more orders counted than
held (`Assembles`); that a synced book is the publisher's in some epoch not older
than the last reset heard (`Faithful`); and that the memos of the processor agree
with what was told under the Source ID in use (`Shown`). A level is a sum over the
orders at its price, taken in the order the fold picks them (`LevelSum`), so that one
order's change moves one level by as much (`LevelMoves`). A delta then takes the
publisher's book to the publisher's next (`Applied`, `RecoverMatches`), the buffered
ones replayed over a rotation do the same (`ReplayedMatches`), and a group whose count
is complete is its rotation (`PartWhole`, `InstallMatches`). For publication, what was
told of the messages of a datagram and the changes still to be told are together the
book (`Reached`), and its end tells them (`PublishedShows`). The levels are claimed
only up to a reset not heard; the proof attempt is what showed that exception.
Assumed: finitely many orders, and that `None` is no Source ID, flag or book.

In all of them `None` and `Nobody`, which stand for `Option::None`, are assumed to
be none of the records an option may hold.

Only model-checked: liveness under fairness, which the prover cannot express, and
with it the refinement of `ClientView`; the fold properties `ReplayIsLoop`,
`PairsAreCopies` and `CandlesAreTape`, each of which needs an induction
of its own over its fold; the order race's `NoRewind`, which needs the floors and
their owners in the invariant as well; and the client. The type invariants of the proved modules are part of their
inductive invariants and therefore in no run.

## Not modelled

- *Depth and midpoint arms*: the depth arm is one staleness floor, the operator of
  which is in `QuoteGate`; the midpoint arm forwards unchanged.
- *Bounded sequence tracker* (receiver.rs): the re-seat after a run of far-ahead
  sequences, whose limits the code's own comment states.
- *Registry, sources, diagnostics, products, query API, admin, CLI, metrics*: tables,
  rendering and read-only answers; nothing changes state that another step depends on.
- *Codecs*: byte layouts without state.
- *Public inputs*: reconnecting clients whose messages enter the arbiter as one more
  path.
- *Shred proxy, discovery*: restarts the forwarder with a fresh window.
- *Market-by-price processor* beyond what the gate needs: deferral until a Source ID is
  known, era changes, the buffer budget.

About half of each large source file is its tests. `PROJECT.json` gives the reason
for every component.

## Plan

1. Proofs: `NoRewind` of `OrderRace`, with `GraveInv` extended by what each floor says
   of the venue's events.
2. Proofs: the safety half of the refinement of `ClientView`.
3. The bounded sequence tracker beside the market-by-price processor's era changes.
