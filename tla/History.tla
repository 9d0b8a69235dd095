------------------------------ MODULE History ------------------------------
(***************************************************************************)
(* The trade history behind the query API (src/src/history.rs), with the   *)
(* task that writes it (feed_history, src/src/ingest/reconcile.rs) and the *)
(* purge of a channel that left the filter.  One-second buckets per        *)
(* product, inside a window and two budgets, are kept by running counts;   *)
(* the candles of any granularity are rolled up from them when asked for.  *)
(*                                                                         *)
(* A price is compared and summed, never formatted; the metrics are left   *)
(* out.  last_touch is modelled by the order it puts the products in.      *)
(***************************************************************************)
EXTENDS Integers, Sequences, SequencesExt, FiniteSetsExt

CONSTANTS
  Product, Channel,             \* the products, and the sets of them that share a channel
  Unheld,
  NANOS,                        \* units of time in a second
  WINDOW_SECS, TRADE_RING, MAX_PRODUCTS, MAX_BUCKETS_ACROSS_PRODUCTS,
  MAX_PLAUSIBLE_FUTURE_SKEW_NS,
  Price, Granularity,
  HistoryStart, HistoryEnd,     \* bounds: the instants,
  MaxFed, MaxPurges             \* prints and purges

ASSUME HistoryConstants ==
  /\ {NANOS, WINDOW_SECS, TRADE_RING, MAX_PRODUCTS, MAX_BUCKETS_ACROSS_PRODUCTS}
       \subseteq Nat \ {0}
  /\ WINDOW_SECS < MAX_BUCKETS_ACROSS_PRODUCTS   \* one product always fits
  /\ UNION Channel = Product

VARIABLES
  wall,         \* the host's clock
  store,        \* products; touched, those held by last_touch; buckets_total
  catalog,      \* the products that have a definition
  writer,       \* the print feed_history has checked and not yet written, or Unheld
  purging,      \* the channel whose catalog is purged and its history not yet, or {}
  fed, purges,  \* history: how many so far
  tapeOf        \* history: what was written to a product since the store first held it

historyVars == <<wall, store, catalog, writer, purging, fed, purges, tapeOf>>

HistoryInit ==
  /\ wall = HistoryStart /\ catalog = Product /\ writer = Unheld /\ purging = {}
  /\ store = [products |-> [k \in Product |-> Unheld], touched |-> <<>>, buckets_total |-> 0]
  /\ fed = 0 /\ purges = 0 /\ tapeOf = [k \in Product |-> <<>>]

-----------------------------------------------------------------------------
(* Buckets.                                                                *)

opened_by(p) ==
  [open |-> p.price, high |-> p.price, low |-> p.price, close |-> p.price, volume |-> p.size]

Higher(a, b) == IF a > b THEN a ELSE b
Lower(a, b) == IF a < b THEN a ELSE b

\* Bucket::widen with a print, and rollup with the next bucket of a group.
Merged(b, c) ==
  [b EXCEPT !.high = Higher(@, c.high), !.low = Lower(@, c.low), !.close = c.close,
            !.volume = @ + c.volume]

Bucketed(buckets, s, p) ==
  [t \in DOMAIN buckets \cup {s} |->
     IF t # s THEN buckets[t]
     ELSE IF s \in DOMAIN buckets THEN Merged(buckets[s], opened_by(p)) ELSE opened_by(p)]

From(buckets, floor) == [t \in {s \in DOMAIN buckets : s >= floor} |-> buckets[t]]

Saturating(a, b) == Higher(0, a - b)
Second(ts) == ts \div NANOS

-----------------------------------------------------------------------------
(* Store.                                                                  *)

\* Mutant: the buckets that go with the product stay counted.
Without_uncounted(st, k) ==
  [st EXCEPT !.products[k] = Unheld, !.touched = SelectSeq(@, LAMBDA j : j # k)]

\* A product is removed with its buckets.
Without(st, k) ==
  [products |-> [st.products EXCEPT ![k] = Unheld],
   touched |-> SelectSeq(st.touched, LAMBDA j : j # k),
   buckets_total |-> st.buckets_total - Cardinality(DOMAIN st.products[k].buckets)]

\* touch: the least recently traded makes room, and k becomes the most recent.
touch(st, k) ==
  LET r == IF st.products[k] = Unheld /\ Len(st.touched) >= MAX_PRODUCTS
             THEN Without(st, Head(st.touched)) ELSE st
  IN  [r EXCEPT !.touched = Append(SelectSeq(@, LAMBDA j : j # k), k),
                !.products[k] = IF @ # Unheld THEN @
                                ELSE [buckets |-> <<>>, newest_seen |-> -1, ring |-> <<>>]]

\* Whole products go, least recently traded first, until the total fits.
enforce_bucket_budget(st) ==
  LET after[n \in 0..Len(st.touched)] ==
        IF n = 0 THEN st ELSE Without(after[n - 1], st.touched[n])
  IN  after[Min({n \in 0..Len(st.touched) :
                   \/ n = Len(st.touched)
                   \/ after[n].buckets_total <= MAX_BUCKETS_ACROSS_PRODUCTS})]

Late(st, k, p) ==
  st.products[k] # Unheld /\ Second(p.ts) + WINDOW_SECS < st.products[k].newest_seen

ingest(st, k, p) ==
  IF Late(st, k, p) THEN st
  ELSE LET t == touch(st, k)
           q == t.products[k]
           s == Second(p.ts)
           newest == Higher(q.newest_seen, s)
           grown == Bucketed(q.buckets, s, p)
           kept == From(grown, Saturating(newest, WINDOW_SECS))
       IN  enforce_bucket_budget(
             [t EXCEPT
                !.products[k] =
                   [buckets |-> kept, newest_seen |-> newest,
                    ring |-> LET r == Append(q.ring, p)
                             IN  SubSeq(r, Saturating(Len(r), TRADE_RING) + 1, Len(r))],
                !.buckets_total = @ + Cardinality(DOMAIN grown \ DOMAIN q.buckets)
                                    - Cardinality(DOMAIN grown \ DOMAIN kept)])

forget_channel(st, ch) ==
  FoldLeft(Without, st, SetToSeq({k \in ch : st.products[k] # Unheld}))

rollup(k, g, now) ==
  IF store.products[k] = Unheld THEN <<>>
  ELSE LET buckets == store.products[k].buckets
           starts == SetToSortSeq({s \in DOMAIN buckets :
                                     Saturating(now, WINDOW_SECS) <= s /\ s < now}, <)
           Group(groups, s) ==
             LET c == [start |-> (s \div g) * g, candle |-> buckets[s]] IN
             IF groups # <<>> /\ Last(groups).start = c.start
             THEN [groups EXCEPT ![Len(groups)].candle = Merged(@, c.candle)]
             ELSE Append(groups, c)
       IN  Reverse(FoldLeft(Group, <<>>, starts))

candles(k, g, limit, now) ==
  LET groups == rollup(k, g, now) IN SubSeq(groups, 1, Lower(limit, Len(groups)))

retention(k, g, limit, now) ==
  LET groups == rollup(k, g, now) IN
  [oldest |-> IF groups = <<>> THEN now ELSE Last(groups).start,
   newest |-> IF groups = <<>> THEN now ELSE Head(groups).start,
   truncated |-> Len(groups) > limit]

-----------------------------------------------------------------------------
(* The writer and the purge.                                               *)

resolve_ts_ns(source_ts, recv_ts) ==
  IF \/ source_ts = 0
     \/ source_ts > recv_ts + MAX_PLAUSIBLE_FUTURE_SKEW_NS
     \/ source_ts + WINDOW_SECS * NANOS < recv_ts
  THEN recv_ts ELSE source_ts

WallTick ==
  /\ wall < HistoryEnd /\ wall' = wall + 1
  /\ UNCHANGED <<store, catalog, writer, purging, fed, purges, tapeOf>>

\* A print of a product that has a definition; of others none is written.
FeedCheck(k, source_ts, price) ==
  /\ writer = Unheld /\ k \in catalog /\ fed < MaxFed
  /\ writer' = [key |-> k, print |-> [ts |-> resolve_ts_ns(source_ts, wall), price |-> price,
                                      size |-> 1]]
  /\ fed' = fed + 1
  /\ UNCHANGED <<wall, store, catalog, purging, purges, tapeOf>>

\* The history keeps, of what was written, what the store has held since.
Retold(st, tapes) ==
  [k \in Product |-> IF st.products[k] = Unheld THEN <<>> ELSE tapes[k]]

FeedIngest ==
  /\ writer # Unheld
  /\ \E st \in {ingest(store, writer.key, writer.print)} :
       /\ store' = st
       /\ tapeOf' = Retold(st, [tapeOf EXCEPT ![writer.key] = Append(@, writer.print)])
  /\ writer' = Unheld
  /\ UNCHANGED <<wall, catalog, purging, fed, purges>>

\* A channel leaves the filter: its catalog entries go, later its history.
PurgeCatalog(ch) ==
  /\ purging = {} /\ purges < MaxPurges
  /\ purges' = purges + 1 /\ purging' = ch /\ catalog' = catalog \ ch
  /\ UNCHANGED <<wall, store, writer, fed, tapeOf>>

PurgeHistory ==
  /\ purging # {} /\ purging' = {}
  /\ store' = forget_channel(store, purging) /\ tapeOf' = Retold(store', tapeOf)
  /\ UNCHANGED <<wall, catalog, writer, fed, purges>>

\* The channel is admitted again and defines its instruments.
Redefine(ch) ==
  /\ purging = {} /\ ch \cap catalog = {}
  /\ catalog' = catalog \cup ch
  /\ UNCHANGED <<wall, store, writer, purging, fed, purges, tapeOf>>

HistoryNext ==
  \/ WallTick \/ FeedIngest \/ PurgeHistory
  \/ \E k \in Product, ts \in 0 .. HistoryEnd + MAX_PLAUSIBLE_FUTURE_SKEW_NS + 1, p \in Price :
       FeedCheck(k, ts, p)
  \/ \E ch \in Channel : PurgeCatalog(ch) \/ Redefine(ch)

HistorySpec == HistoryInit /\ [][HistoryNext]_historyVars

-----------------------------------------------------------------------------
(* The reference: candles from the prints.                                 *)

\* The prints of a product that the store answers for at `now`.
Prints(k, now) ==
  LET seconds == {Second(p.ts) : p \in Range(tapeOf[k])}
  IN  {i \in DOMAIN tapeOf[k] :
         LET s == Second(tapeOf[k][i].ts) IN
         /\ now - WINDOW_SECS <= s /\ s < now
         /\ Max(seconds) - WINDOW_SECS <= s}

\* One candle of the prints in the interval from `start`: ordered by second, and within a
\* second by arrival.
CandleOf(k, start, inside) ==
  LET price(i) == tapeOf[k][i].price
      Before(i, j) == LET a == Second(tapeOf[k][i].ts)
                          b == Second(tapeOf[k][j].ts) IN a < b \/ (a = b /\ i <= j)
      first == CHOOSE i \in inside : \A j \in inside : Before(i, j)
      last == CHOOSE i \in inside : \A j \in inside : Before(j, i)
  IN  [start |-> start,
       candle |-> [open |-> price(first), close |-> price(last),
                   high |-> Max({price(i) : i \in inside}), low |-> Min({price(i) : i \in inside}),
                   volume |-> Cardinality(inside)]]

TapeCandles(k, g, now) ==
  LET shown == Prints(k, now)
      StartOf(i) == (Second(tapeOf[k][i].ts) \div g) * g
  IN  {CandleOf(k, s, {i \in shown : StartOf(i) = s}) : s \in {StartOf(i) : i \in shown}}

\* history.rs, resolve_ts_ns: at every granularity the candles are those of the prints
\* written, newest first, and retention tells what a page left out; the running total is that
\* of the buckets and within its budget, however products were evicted, purged or aged; no
\* stamp puts a product's mark so far ahead that current prints are refused; and of a purged
\* channel at most the print in flight is left.
CandlesAreTape ==
  LET held == {k \in Product : store.products[k] # Unheld}
      now == Second(wall)
  IN
  /\ \A k \in Product, g \in Granularity :
       LET all == rollup(k, g, now)
           page == candles(k, g, 1, now)
           r == retention(k, g, 1, now)
       IN  /\ Range(all) = TapeCandles(k, g, now)
           /\ \A i, j \in DOMAIN all : i < j => all[i].start > all[j].start
           /\ r.truncated <=> Range(all) # Range(page)
           /\ \A c \in Range(all) : r.oldest <= c.start /\ c.start <= r.newest
  /\ store.buckets_total = MapThenSumSet(LAMBDA k : Cardinality(DOMAIN store.products[k].buckets), held)
  /\ store.buckets_total <= MAX_BUCKETS_ACROSS_PRODUCTS /\ Cardinality(held) <= MAX_PRODUCTS
  /\ Range(store.touched) = held /\ Len(store.touched) = Cardinality(held)
  /\ \A k \in held :
       /\ store.products[k].newest_seen <= Second(wall + MAX_PLAUSIBLE_FUTURE_SKEW_NS)
       /\ k \notin catalog /\ purging = {} => Len(tapeOf[k]) = 1
=============================================================================
