----------------------------- MODULE PriceBook -----------------------------
(***************************************************************************)
(* The market-by-price recovery book of src/src/ingest/pricebook.rs, as    *)
(* operators on one book record: each operator is one method of PriceBook  *)
(* and returns the book the method leaves behind.  PriceBookFeed drives    *)
(* them with a publisher and an unreliable network.                        *)
(*                                                                         *)
(* A delta is named by its per-instrument sequence k; `wire[k]' holds what *)
(* it carried: [mkt |-> the channel-wide mktdata sequence, delta |-> ...]. *)
(* `levels' is both sides of the book in one set.  `order_count',          *)
(* `level_flags', the `Action' byte (observability only) and               *)
(* `last_event_ts' are left out: no test in the recovery logic reads them. *)
(***************************************************************************)
EXTENDS Integers, Sequences, FiniteSets, FiniteSetsExt

CONSTANTS
  None,                           \* Rust's Option::None
  Price,                          \* raw prices (an i64)
  Qty,                            \* raw quantities (a u64)
  MaxDeltas,                      \* bound: deltas of one session
  MAX_BUFFERED_DELTAS,
  MAX_LEVELS_PER_BOOK,
  MAX_REBUILD_SERVE_NS,
  REANCHOR_MIN_SHORTFALL_LEVELS,
  REANCHOR_SHORTFALL_PERCENT,
  REANCHOR_MIN_INTERVAL_NS

ASSUME PriceBookConstants ==
  /\ Price \subseteq Int /\ Qty \subseteq Nat
  /\ MaxDeltas \in Nat
  /\ MAX_BUFFERED_DELTAS \in Nat \ {0}
  /\ MAX_LEVELS_PER_BOOK \in Nat
  /\ MAX_REBUILD_SERVE_NS \in Nat
  /\ REANCHOR_MIN_SHORTFALL_LEVELS \in Nat
  /\ REANCHOR_SHORTFALL_PERCENT \in Nat
  /\ REANCHOR_MIN_INTERVAL_NS \in Nat
  /\ None \notin Int

Side  == {"bid", "ask"}
Level == [side : Side, price : Price, qty : Qty]

ASSUME FinitelyManyLevels == IsFiniteSet(Level)

\* A LevelUpdate has one side; a BookClear has the sides it names ({} for a
\* byte the apply does not recognize) and a scope.
BookDelta == [kind : {"level", "clear"}, sides : SUBSET Side,
              price : Price, qty : Qty, scope : {"entire_side", "from_price"}]

Seqs == 1..MaxDeltas

Status == {"AwaitingSnapshot", "BuildingSnapshot", "Ready", "Gap"}

\* A snapshot group between SnapshotBegin and SnapshotEnd.  `bound' is
\* depth_bound; 0 is the publisher's claim that the book is complete.
Building == [snapshot_id : Nat, anchor_seq : Nat, total_levels : Nat,
             received_levels : Nat, last_instrument_seq : Nat, bound : Nat,
             over_live_book : BOOLEAN, serving_since_ns : Nat,
             levels : SUBSET Level]

ASSUME NoneIsNoGroup == None \notin Building

NoPending == [k \in Seqs |-> 0]

new ==
  [levels   |-> {},   status   |-> "AwaitingSnapshot", last |-> 0,
   bound    |-> None, required |-> None, open |-> None, pending |-> NoPending,
   reanchor |-> None, strike   |-> None]

-----------------------------------------------------------------------------
(***************************************************************************)
(* What one delta does to a set of levels.  A level update states the      *)
(* complete resulting level, so quantity 0 removes it; a from-price clear  *)
(* goes outward from the inside; a from-price clear naming both sides is   *)
(* malformed and clears nothing.                                           *)
(***************************************************************************)
clear_side_levels(d, l) ==
  \/ d.scope = "entire_side"
  \/ IF l.side = "ask" THEN l.price >= d.price ELSE l.price <= d.price

Touches(d, l) ==
  /\ l.side \in d.sides
  /\ \/ d.kind = "level" /\ l.price = d.price
     \/ /\ d.kind = "clear"
        /\ ~(d.sides = Side /\ d.scope # "entire_side")
        /\ clear_side_levels(d, l)

Sets(d) ==
  {l \in [side : d.sides, price : {d.price}, qty : {d.qty}] :
       d.kind = "level" /\ d.qty # 0}

ApplyLevels(L, d) == {l \in L : ~Touches(d, l)} \cup Sets(d)

\* The apply refuses a level that would grow the book past its cap.
Overflows(L, d) ==
  /\ Sets(d) # {}
  /\ \A l \in L : ~Touches(d, l)
  /\ Cardinality(L) >= MAX_LEVELS_PER_BOOK

(***************************************************************************)
(* Deltas i+1 .. j applied in sequence: a level survives when nothing      *)
(* later touches it.  This is the loop of `replay' in closed form.         *)
(***************************************************************************)
ApplyRun(L, wire, i, j) ==
  {l \in L : \A k \in (i + 1)..j : ~Touches(wire[k].delta, l)}
    \cup UNION {{l \in Sets(wire[k].delta) :
                    \A m \in (k + 1)..j : ~Touches(wire[m].delta, l)} :
                k \in (i + 1)..j}

-----------------------------------------------------------------------------
\* The length of the `pending' vector: pending[k] is how many copies of delta k
\* it holds.  Nothing reads the vector's order: `replay' sorts it.
buffered_len(b) == MapThenSumSet(LAMBDA k : b.pending[k], Seqs)

levels_len(b) == Cardinality(b.levels)

\* 0 is the "no clock" sentinel, so it never ages a rebuild.
rebuild_expired(since, now) ==
  since # 0 /\ now # 0 /\ now - since > MAX_REBUILD_SERVE_NS

\* What the processor reports as health: weaker than Ready, since a rotation
\* assembling over a live book leaves that book complete.
serves_a_book(b, now) ==
  \/ b.status = "Ready"
  \/ /\ b.status = "BuildingSnapshot"
     /\ b.open # None
     /\ b.open.over_live_book
     /\ ~rebuild_expired(b.open.serving_since_ns, now)

-----------------------------------------------------------------------------
\* Hold delta k, or lose the buffer (and the served state) when it is full.
buffer(b, k) ==
  IF buffered_len(b) < MAX_BUFFERED_DELTAS
    THEN [b EXCEPT !.pending = [b.pending EXCEPT ![k] = @ + 1]]
    ELSE [b EXCEPT !.pending = NoPending, !.status = "Gap"]

drop_buffer(b) == [b EXCEPT !.pending = NoPending, !.status = "Gap"]

\* The level cap: the book and the buffer go, and no sequence advances.
overflow(b) ==
  [b EXCEPT !.levels = {}, !.pending = NoPending, !.status = "AwaitingSnapshot"]

apply(b, k, wire) ==
  IF Overflows(b.levels, wire[k].delta)
    THEN overflow(b)
    ELSE [b EXCEPT !.levels = ApplyLevels(b.levels, wire[k].delta), !.last = k]

on_delta(b, k, wire) ==
  CASE b.status # "Ready"  -> buffer(b, k)
    [] b.status = "Ready" /\ k <= b.last -> b
    [] b.status = "Ready" /\ k > b.last + 1 ->
         [b EXCEPT !.status = "Gap", !.pending = [NoPending EXCEPT ![k] = 1]]
    [] b.status = "Ready" /\ k = b.last + 1 -> apply(b, k, wire)

(***************************************************************************)
(* Replay after an install anchored at `anchor': buffered deltas past the  *)
(* anchor run in sequence order up to the first that is missing or that    *)
(* the level cap refuses.  A refusal drops everything; a hole leaves the   *)
(* book in Gap with the deltas past it still buffered.                     *)
(***************************************************************************)
Kept(b, k, anchor, wire) ==
  k \in DOMAIN wire /\ b.pending[k] > 0 /\ wire[k].mkt > anchor

StopsAt(b, k, anchor, wire) ==
  \/ ~Kept(b, k, anchor, wire)
  \/ Overflows(ApplyRun(b.levels, wire, b.last, k - 1), wire[k].delta)

FirstStop(b, anchor, wire) ==
  CHOOSE k \in (b.last + 1)..(Len(wire) + 1) :
    /\ StopsAt(b, k, anchor, wire)
    /\ \A j \in (b.last + 1)..(k - 1) : ~StopsAt(b, j, anchor, wire)

\* Mutant: the replay forgets what is past a hole.
replay_drops_rest(b, anchor, wire) ==
  LET stop == FirstStop(b, anchor, wire)
  IN  [b EXCEPT !.levels = ApplyRun(b.levels, wire, b.last, stop - 1), !.last = stop - 1,
                !.pending = NoPending]

replay(b, anchor, wire) ==
  LET stop == FirstStop(b, anchor, wire)
      ran  == [b EXCEPT !.levels = ApplyRun(b.levels, wire, b.last, stop - 1),
                        !.last = stop - 1]
  IN  IF Kept(b, stop, anchor, wire)
        THEN overflow(ran)
        ELSE [ran EXCEPT
               !.pending = [k \in Seqs |->
                  IF k > stop /\ Kept(b, k, anchor, wire) THEN b.pending[k] ELSE 0],
               !.status = IF \E k \in Seqs : k > stop /\ Kept(b, k, anchor, wire)
                            THEN "Gap" ELSE "Ready"]

-----------------------------------------------------------------------------
(***************************************************************************)
(* SnapshotBegin.  A snapshot record s is what the begin carries:          *)
(* [id, anchor, total, last, bound].                                       *)
(***************************************************************************)
reanchor_warranted(shortfall, total) ==
  /\ shortfall > REANCHOR_MIN_SHORTFALL_LEVELS
  /\ shortfall > (total * REANCHOR_SHORTFALL_PERCENT) \div 100

reanchor_allowed(b, now) ==
  b.reanchor # None => now - b.reanchor > REANCHOR_MIN_INTERVAL_NS

force_resync(b, now) ==
  [b EXCEPT !.levels = {}, !.bound = None, !.status = "AwaitingSnapshot",
            !.reanchor = now, !.strike = None]

\* Refused before the book is consulted: a reset's anchor requirement, the cap.
Refused(b, s) ==
  \/ b.required # None /\ s.anchor < b.required
  \/ s.total > MAX_LEVELS_PER_BOOK

\* Behind what a Ready book has applied: declined, and for a complete rotation
\* measured against the book (two distinct short ones re-anchor it).
Declines(b, s) == b.status = "Ready" /\ s.last <= b.last

Shortfall(b, s) ==
  IF s.total > levels_len(b) THEN s.total - levels_len(b) ELSE 0

\* Mutant: a duplicated begin confirms its own strike.
decline_counts_duplicates(b, s, now) ==
  IF s.bound # 0 THEN b
  ELSE IF ~reanchor_warranted(Shortfall(b, s), s.total) THEN [b EXCEPT !.strike = None]
  ELSE IF b.strike # None /\ reanchor_allowed(b, now) THEN force_resync(b, now)
  ELSE [b EXCEPT !.strike = IF b.strike = None THEN s.id ELSE b.strike]

decline(b, s, now) ==
  CASE s.bound # 0 -> b
    [] s.bound = 0 /\ ~reanchor_warranted(Shortfall(b, s), s.total) ->
         [b EXCEPT !.strike = None]
    [] s.bound = 0 /\ reanchor_warranted(Shortfall(b, s), s.total) ->
         IF b.strike # None /\ b.strike # s.id /\ reanchor_allowed(b, now)
           THEN force_resync(b, now)
           ELSE [b EXCEPT !.strike = IF b.strike = None THEN s.id ELSE b.strike]

\* A duplicated begin: every identifying field matches the open group.
SameGroup(b, s) ==
  /\ b.open # None
  /\ b.open.snapshot_id = s.id /\ b.open.anchor_seq = s.anchor
  /\ b.open.total_levels = s.total /\ b.open.last_instrument_seq = s.last
  /\ b.open.bound = s.bound

\* Mutant: every rotation over a live book restarts the clock.
accept_renews_clock(b, s, now) ==
  [b EXCEPT
    !.status = "BuildingSnapshot",
    !.open = [snapshot_id |-> s.id, anchor_seq |-> s.anchor,
              total_levels |-> s.total, received_levels |-> 0,
              last_instrument_seq |-> s.last, bound |-> s.bound,
              over_live_book |-> serves_a_book(b, now),
              serving_since_ns |-> now, levels |-> {}]]

\* The clock of a chain of rotations over a live book is inherited, never renewed.
accept(b, s, now) ==
  LET over == serves_a_book(b, now)
  IN  [b EXCEPT
        !.status = "BuildingSnapshot",
        !.open = [snapshot_id |-> s.id, anchor_seq |-> s.anchor,
                  total_levels |-> s.total, received_levels |-> 0,
                  last_instrument_seq |-> s.last, bound |-> s.bound,
                  over_live_book |-> over,
                  serving_since_ns |-> IF over /\ b.open # None
                                         THEN b.open.serving_since_ns ELSE now,
                  levels |-> {}]]

on_snapshot_begin(b, s, now) ==
  IF Refused(b, s) THEN b
  ELSE IF Declines(b, s) THEN decline(b, s, now)
  ELSE IF SameGroup(b, s) THEN b
  ELSE accept(b, s, now)

\* One level of group `id' into the shadow; distinct prices are counted, not
\* messages, so a duplicate cannot make up for a loss.
on_snapshot_level(b, id, l) ==
  IF b.open = None \/ b.open.snapshot_id # id
       \/ Cardinality(b.open.levels) >= MAX_LEVELS_PER_BOOK
    THEN b
    ELSE LET others == {x \in b.open.levels : <<x.side, x.price>> # <<l.side, l.price>>}
         IN  [b EXCEPT !.open =
               [b.open EXCEPT
                 !.levels = others \cup {l},
                 !.received_levels = IF others = b.open.levels THEN @ + 1 ELSE @]]

install(b, wire) ==
  replay([b EXCEPT !.levels = b.open.levels, !.last = b.open.last_instrument_seq,
                   !.bound = b.open.bound, !.required = None, !.strike = None,
                   !.status = "Ready", !.open = None],
         b.open.anchor_seq, wire)

\* A group that does not match or is short takes the live levels with it.
on_snapshot_end(b, anchor, id, wire) ==
  IF b.open = None THEN b
  ELSE IF \/ b.open.snapshot_id # id \/ b.open.anchor_seq # anchor
          \/ b.open.received_levels # b.open.total_levels
    THEN [b EXCEPT !.levels = {}, !.bound = None, !.open = None,
                   !.status = "AwaitingSnapshot"]
    ELSE install(b, wire)

\* Mutant: the reset leaves no requirement on the next anchor.
on_instrument_reset_any_anchor(b, new_anchor, wire) ==
  [b EXCEPT !.levels = {}, !.last = 0, !.bound = None, !.open = None,
            !.pending = NoPending, !.status = "AwaitingSnapshot"]

\* A group anchored at or past the reset is its own recovery group: kept, but a
\* cold rebuild from here on.
on_instrument_reset(b, new_anchor, wire) ==
  LET keep == b.open # None /\ b.open.anchor_seq >= new_anchor
  IN  [b EXCEPT
        !.levels = {}, !.last = 0, !.bound = None, !.required = new_anchor,
        !.open = IF keep THEN [b.open EXCEPT !.over_live_book = FALSE] ELSE None,
        !.pending = [k \in Seqs |->
            IF k \in DOMAIN wire /\ wire[k].mkt > new_anchor THEN b.pending[k] ELSE 0],
        !.status = IF keep THEN "BuildingSnapshot" ELSE "AwaitingSnapshot"]

on_end_of_session(b) ==
  [b EXCEPT !.levels = {}, !.open = None, !.pending = NoPending, !.last = 0,
            !.status = "AwaitingSnapshot", !.bound = None, !.required = None]
=============================================================================
