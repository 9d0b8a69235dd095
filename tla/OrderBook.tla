----------------------------- MODULE OrderBook -----------------------------
(***************************************************************************)
(* BookState (src/ingest/book.rs): the order book of one instrument, as    *)
(* one publisher's market-by-order feed lets it be recovered.  A method    *)
(* is an operator from a book to a book; one that reports order changes    *)
(* gives [book, took, out]: whether the delta was taken and what it did.   *)
(*                                                                         *)
(* An order's side and price are its id's for good, so a population is     *)
(* the quantity of each id, 0 for none, and the levels are totals per      *)
(* PriceOf.  A delta is named by its per-instrument sequence k, its place  *)
(* in `wire'.  Left out: `removed', which refuses a repeated Add of a      *)
(* removed id, as no venue sends one, and the event time.                  *)
(***************************************************************************)
EXTENDS Integers, Sequences, FiniteSets, FiniteSetsExt, Functions, SequencesExt

CONSTANTS
  OrderId,
  PriceOf,              \* the price level of each order id
  MAX_ORDERS_PER_BOOK,
  MAX_PENDING_DELTAS,
  MaxDeltas,            \* bound: deltas of one session
  None

ASSUME OrderBookConstants ==
  /\ DOMAIN PriceOf = OrderId
  /\ IsFiniteSet(OrderId)
  /\ {MAX_ORDERS_PER_BOOK, MAX_PENDING_DELTAS, MaxDeltas} \subseteq Nat

Price == Range(PriceOf)
Empty == [o \in OrderId |-> 0]
Flat == [p \in Price |-> 0]
NoPending == [k \in 1..MaxDeltas |-> 0]

\* DeltaOp: an execution says how much was filled and whether that was all of it.
DeltaOp == [kind : {"add", "cancel", "execute"}, order : OrderId, qty : Nat, full : BOOLEAN]

new == [orders |-> Empty, levels |-> Flat, synced |-> FALSE, seq |-> 0, mkt |-> 0,
        building |-> None, pending |-> NoPending]

Resting(orders) == {o \in OrderId : orders[o] > 0}
Totals(orders) ==
  [p \in Price |-> MapThenSumSet(LAMBDA o : orders[o], {o \in OrderId : PriceOf[o] = p})]

level_add(levels, o, q) == [levels EXCEPT ![PriceOf[o]] = @ + q]
level_remove(levels, o, q) == [levels EXCEPT ![PriceOf[o]] = IF @ > q THEN @ - q ELSE 0]

Dropped(b) == [b EXCEPT !.orders = Empty, !.levels = Flat, !.synced = FALSE]

on_end_of_session(b) == new

\* The book goes and so do the buffered deltas the reset supersedes; the sequences stay.
on_instrument_reset(b, new_anchor, wire) ==
  [Dropped(b) EXCEPT
     !.building = None,
     !.pending = [k \in 1..MaxDeltas |->
        IF k <= Len(wire) /\ wire[k].mkt > new_anchor THEN b.pending[k] ELSE 0]]

-----------------------------------------------------------------------------
(* One delta.                                                              *)

Took(b, change) == [book |-> b, took |-> TRUE, out |-> change]
Left(b) == [book |-> b, took |-> FALSE, out |-> <<>>]
Change(o, q) == <<[order |-> o, qty |-> q]>>

Fill(b, o, filled, rest) ==
  [b EXCEPT !.orders[o] = rest, !.levels = level_remove(b.levels, o, filled)]

Add(b, d) ==
  IF Cardinality(Resting(b.orders)) >= MAX_ORDERS_PER_BOOK /\ b.orders[d.order] = 0
    THEN Took(Dropped(b), <<>>)
    ELSE Took([b EXCEPT !.orders[d.order] = d.qty,
                        !.levels = level_add(b.levels, d.order, d.qty)],
              Change(d.order, d.qty))

Cancel(b, d) ==
  IF b.orders[d.order] = 0 THEN Took(b, <<>>)
  ELSE Took(Fill(b, d.order, b.orders[d.order], 0), Change(d.order, 0))

Execute(b, d) ==
  LET filled == Min({d.qty, b.orders[d.order]})
      rest == IF d.full THEN 0 ELSE b.orders[d.order] - filled
  IN  IF b.orders[d.order] = 0 THEN Took(b, <<>>)
      ELSE Took(Fill(b, d.order, filled, rest), Change(d.order, rest))

apply(b, d) ==
  CASE d.kind = "add" -> Add(b, d)
    [] d.kind = "cancel" -> Cancel(b, d)
    [] d.kind = "execute" -> Execute(b, d)

\* Mutant: a gap is passed over.
over_the_gap(b, k, wire) ==
  IF k <= b.seq THEN Left(b)
  ELSE apply([b EXCEPT !.seq = k, !.mkt = wire[k].mkt], wire[k].op)

\* In sequence, or not at all: a gap leaves only this delta to replay.
apply_or_recover(b, k, wire) ==
  CASE k <= b.seq -> Left(b)
    [] k > b.seq + 1 ->
         Left([b EXCEPT !.synced = FALSE, !.pending = [NoPending EXCEPT ![k] = 1]])
    [] k = b.seq + 1 -> apply([b EXCEPT !.seq = k, !.mkt = wire[k].mkt], wire[k].op)

on_delta_reporting(b, k, wire) ==
  IF b.synced THEN apply_or_recover(b, k, wire)
  ELSE Left(IF SumFunction(b.pending) < MAX_PENDING_DELTAS
              THEN [b EXCEPT !.pending[k] = b.pending[k] + 1] ELSE b)

-----------------------------------------------------------------------------
(* A snapshot: [id, anchor, total, last] and its orders.                   *)

on_snapshot_begin(b, s) ==
  IF (b.synced /\ s.anchor <= b.mkt) \/ s.total > MAX_ORDERS_PER_BOOK
    THEN [b EXCEPT !.building = None]
    ELSE [b EXCEPT !.building = [id |-> s.id, anchor |-> s.anchor, total |-> s.total,
                                 received |-> 0, last |-> s.last,
                                 orders |-> Empty, levels |-> Flat]]

\* Messages are counted, not orders, and each adds to its level.
on_snapshot_order(b, id, o, q) ==
  IF b.building = None \/ b.building.id # id
       \/ Cardinality(Resting(b.building.orders)) >= MAX_ORDERS_PER_BOOK
    THEN b
    ELSE [b EXCEPT !.building = [b.building EXCEPT !.orders[o] = q,
                                                   !.received = b.building.received + 1,
                                                   !.levels = level_add(b.building.levels, o, q)]]

Complete(b, anchor, id) ==
  /\ b.building.id = id /\ b.building.anchor = anchor
  /\ b.building.received = b.building.total

\* The buffered deltas past the anchor, in order, up to the first gap.
Replay(c, k, kept, wire) ==
  IF c.synced /\ k \in kept THEN apply_or_recover(c, k, wire).book ELSE c
Replayed(b, kept, wire) ==
  LET c[k \in 0..Len(wire)] == IF k = 0 THEN b ELSE Replay(c[k - 1], k, kept, wire)
  IN  c[Len(wire)]

install(b, wire) ==
  LET s == b.building
      kept == {k \in DOMAIN wire : b.pending[k] > 0 /\ wire[k].mkt > s.anchor}
  IN  Replayed([orders |-> s.orders, levels |-> s.levels, synced |-> TRUE, seq |-> s.last,
                mkt |-> s.anchor, building |-> None, pending |-> NoPending],
               kept, wire)

\* A mismatched or truncated snapshot costs the book it was meant to replace.
on_snapshot_end(b, anchor, id, wire) ==
  IF b.building = None THEN Left(b)
  ELSE IF Complete(b, anchor, id) THEN Took(install(b, wire), <<>>)
  ELSE Left([b EXCEPT !.building = None, !.synced = FALSE])
=============================================================================
