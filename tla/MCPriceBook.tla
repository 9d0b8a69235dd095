---------------------------- MODULE MCPriceBook ----------------------------
(* Instances of PriceBookFeed for TLC. *)
EXTENDS PriceBookFeed, SequencesExt

Up(side, p, q) == [kind |-> "level", sides |-> {side}, price |-> p, qty |-> q,
                   scope |-> "entire_side"]
Clear(sides, scope, p) == [kind |-> "clear", sides |-> sides, price |-> p, qty |-> 0,
                           scope |-> scope]

MCDeltas2 == {Up("bid", 1, 1), Clear({"bid"}, "from_price", 1)}
MCResetBooks == {{[side |-> "bid", price |-> 2, qty |-> 1]}}

\* View: an instant is read only to compare its age with a limit, and readyAt only while
\* a rotation assembles over a live book.
Age(t, d) == IF t = None THEN None ELSE IF now - t > d THEN d + 1 ELSE now - t
Aged ==
  <<[book EXCEPT
       !.reanchor = Age(@, REANCHOR_MIN_INTERVAL_NS),
       !.open = IF @ = None THEN None
                ELSE [@ EXCEPT !.serving_since_ns = Age(@, MAX_REBUILD_SERVE_NS)]],
    IF serves_a_book(book, now) THEN Age(readyAt, MAX_REBUILD_SERVE_NS) ELSE 0,
    pub, heard, seen, shorts>>

-----------------------------------------------------------------------------
(* The loop of PriceBook::replay as the code runs it, one buffered delta at *)
(* a time in mktdata order, duplicates included.                            *)
Ops(b, anchor) ==
  FlattenSeq([k \in 1..Len(sent) |->
    IF sent[k].mkt > anchor THEN [i \in 1..b.pending[k] |-> k] ELSE <<>>])

LoopStep(acc, k) ==
  CASE acc.mode = "overflowed" -> acc
    [] acc.mode = "gapped" -> [acc EXCEPT !.b = buffer(acc.b, k)]
    [] acc.mode = "running" ->
         IF k <= acc.b.last THEN acc
         ELSE IF k # acc.b.last + 1
           THEN [b |-> buffer([acc.b EXCEPT !.status = "Gap"], k), mode |-> "gapped"]
         ELSE [b |-> apply(acc.b, k, sent),
               mode |-> IF Overflows(acc.b.levels, sent[k].delta)
                          THEN "overflowed" ELSE "running"]

Loop(b, anchor) ==
  FoldLeft(LoopStep, [b |-> [b EXCEPT !.pending = NoPending], mode |-> "running"],
           Ops(b, anchor)).b

(***************************************************************************)
(* The closed form of `replay' is the loop: from any buffer the network    *)
(* can leave behind, on any rotation published, it leaves the same book,   *)
(* status and remaining buffer as running the buffered deltas one by one.  *)
(***************************************************************************)
ReplayIsLoop ==
  \A s \in DOMAIN snaps :
    LET b == [book EXCEPT !.levels = snaps[s].levels, !.last = snaps[s].last,
                          !.status = "Ready", !.open = None]
    IN  replay(b, snaps[s].anchor, sent) = Loop(b, snaps[s].anchor)

=============================================================================
