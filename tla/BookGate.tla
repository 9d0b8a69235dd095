------------------------------ MODULE BookGate ------------------------------
(***************************************************************************)
(* The book arm of Arbiter::emit_scoped (src/src/ingest/arbiter.rs) for    *)
(* one price-aggregated market: the StickyAuthority picks the path, and    *)
(* the gate decides what of it reaches the consumer so that the stream     *)
(* stays one book.  Around it run the paths' processors (MbpProcessor of   *)
(* src/src/ingest/processor.rs), which close events, ask what they owe,    *)
(* lose and rebuild their books and report health, each under its own      *)
(* taking of the arbiter lock.                                             *)
(*                                                                         *)
(* The venue's changes to the market are numbered; a path's book at        *)
(* position k holds changes 1..k.  Mirrored paths carry the same changes   *)
(* when shared, else each path's are its own, so that a book mixed from    *)
(* two paths is told from either.  A committed slot is named by the        *)
(* position it closes: slots in which this market does not change are one. *)
(***************************************************************************)
EXTENDS Authority

CONSTANTS
  market,                 \* the market of the model
  Scopes,                 \* the scopes a behaviour may be of (see Scope)
  MAX_PENDING_CHANGES,
  MAX_WITHHELD_BATCHES,
  Start, Changes,         \* bound: the positions changes begin and stop at
  Resent,                 \* whether the last change may be repeated forever
  Now                     \* what the receive clock reads (see Authority)

INSTANCE BookAccumulator

\* shared: the scope declares shared_batch_id; slotted: its batches name their slot, which
\* only a seamless handover reads, so without it nothing is lost unless shared; faults and
\* max: which faults happen in a behaviour, and the bound on their number.
Scope ==
  [shared : BOOLEAN, slotted : BOOLEAN,
   faults : SUBSET {"loss", "rotation", "transfer", "drop"}, max : Nat]

ASSUME GateAssumption ==
  /\ market \in Market /\ Resent \in BOOLEAN /\ Scopes \subseteq Scope
  /\ {MAX_PENDING_CHANGES, Changes, Now} \subseteq Nat /\ MAX_WITHHELD_BATCHES \in Nat \ {0}
  /\ Start \in 0..Changes /\ (Resent => Changes > 0)
  /\ {REVERT_HOLD_NS, REVERT_DEADLINE_NS, leader_timeout_ns} \subseteq 0..Now
  /\ IsFiniteSet(Path) /\ Cardinality(Path) <= MAX_LABELLED_PATHS  \* others are turned away first

\* What the optional parts of the state hold when they hold something.
Stamp == Nat \cup {None}
ChangeId == Nat \cup (Path \X Nat)
Accumulator ==
  [book : SUBSET ChangeId, pending : SUBSET ChangeId, pending_batch_id : Stamp,
   batch_id : Stamp, exact : BOOLEAN, baselined : BOOLEAN]
BookMarket ==
  [paths : [Path -> Accumulator \cup {None}], rebaseline : BOOLEAN, withheld : Nat,
   wire_slot : Stamp]
CloseState == [owed : BOOLEAN, changes : SUBSET ChangeId, synthesized : BOOLEAN]

ASSUME GateNone == None \notin Accumulator /\ None \notin BookMarket /\ None \notin CloseState

VARIABLES
  au,        \* Arbiter::books
  bm,        \* the BookMarket, None when the market is not tracked
  replay,    \* its entry in the shared replay map, None when there is none
  consumer,  \* what a consumer that follows the stream holds
  path,      \* per path: its processor's state for the market
  closed,    \* history: positions at which a path ended an event
  faults,    \* how many faults there were
  scope      \* the scope of this behaviour

vars == <<au, bm, replay, consumer, path, closed, faults, scope>>

Change(p, k) == IF scope.shared THEN k ELSE <<p, k>>
Prefix(p, k) == {Change(p, i) : i \in 1..k}

\* The processor: book status, position of the book, whether an event is open,
\* committed slot and whether the boundaries lapsed, the health last filed if any was,
\* and the close under way between its question to the arbiter and its batch.
NewPath ==
  [status |-> "gap", pos |-> Start, open |-> FALSE, slot |-> None, lapsed |-> TRUE,
   filed |-> None, close |-> None]

Fault(kind) ==
  kind \in scope.faults /\ faults < scope.max /\ faults' = faults + 1 /\ UNCHANGED scope

NewBookMarket ==
  [paths |-> [p \in Path |-> None], rebaseline |-> FALSE, withheld |-> 0, wire_slot |-> None]

Init ==
  /\ au = NewAuthority
  /\ bm = None
  /\ replay = None
  /\ consumer = [book |-> {}, pending |-> {}, slot |-> None, at |-> None]
  /\ path = [p \in Path |-> NewPath]
  /\ closed = [p \in Path |-> {}]
  /\ faults = 0
  /\ scope \in Scopes

-----------------------------------------------------------------------------
\* The consumer buffers an event and applies it on its last (PROTOCOL.md); slot is
\* the newest batch_id it was told, at the one its committed state was told.
received(c, b) ==
  LET buf == IF b.clear THEN b.changes ELSE c.pending \cup b.changes
      s   == IF b.batch_id = None THEN c.slot ELSE b.batch_id
  IN  IF ~b.last THEN [c EXCEPT !.pending = buf, !.slot = s]
      ELSE [book |-> IF b.clear THEN buf ELSE c.book \cup buf, pending |-> {},
            slot |-> s, at |-> b.batch_id]

replay_incomplete == replay # None /\ ~replay.baselined

clear_only(b) == [b EXCEPT !.clear = TRUE, !.changes = {}, !.last = TRUE]

\* Mutant: a slot below the published one goes out.
slot_unchecked(k, s) == s

\* Mutant: a slot below the published one is raised to it instead of left out.
slot_clamped(k, s) ==
  IF s # None /\ k.wire_slot # None /\ s < k.wire_slot THEN k.wire_slot ELSE s

\* The slot a batch may go out with: none below what the market has published.
monotonic_slot(k, s) ==
  IF s # None /\ k.wire_slot # None /\ s < k.wire_slot THEN None ELSE s

\* One batch to the wire: the new BookMarket and consumer.
send(k, c, b) ==
  LET s == monotonic_slot(k, b.batch_id)
  IN  [bm |-> IF s = None THEN k ELSE [k EXCEPT !.wire_slot = s],
       consumer |-> received(c, [b EXCEPT !.batch_id = s])]

accumulate_book(k, p, b) ==
  LET acc == IF k.paths[p] = None THEN NewAccumulator ELSE k.paths[p]
  IN  [k EXCEPT !.paths[p] = fold(acc, b)]

\* Mutant: any complete book of the incoming path will do.
seamless_if_complete(k, p) ==
  scope.shared /\ replay # None /\ k.paths[p] # None /\ k.paths[p].baselined

\* Whether the market may pass to p as a plain delta: what reached the wire and p's
\* own book are complete, between events, at the same slot and the same.
seamless_handover(k, p) ==
  LET served == replay
      incoming == k.paths[p]
      Whole(acc) == acc.baselined /\ acc.pending = {}
      slot == exact_batch_id(served)
  IN  /\ scope.shared
      /\ served # None /\ incoming # None
      /\ Whole(served) /\ Whole(incoming)
      /\ slot # None /\ slot = exact_batch_id(incoming)
      /\ k.wire_slot = None \/ k.wire_slot <= slot
      /\ served.book = incoming.book

\* A dropped batch of the path the consumer follows leaves a hole in the consumer's
\* book: force_rebaseline.
dropped(k, prev, p, b) ==
  IF prev = p /\ (b.clear \/ b.changes # {}) THEN [k EXCEPT !.rebaseline = TRUE] ELSE k

\* Mutant: a re-baseline does not wait for the end of the event.
waits_never(k, b) == FALSE

\* An owed re-baseline waits for the new path to end an event, up to the cap.
waits(k, b) == ~b.last /\ k.withheld < MAX_WITHHELD_BATCHES

\* The re-baseline of an admitted batch: p's whole book when it is complete, else a
\* bare clear and the batch.
rebaseline_book(k, p, b) ==
  LET acc  == k.paths[p]
      done == [k EXCEPT !.rebaseline = FALSE, !.withheld = 0]
      bare == send(done, consumer, clear_only(b))
      r    == IF acc.baselined THEN send(done, consumer, to_book(acc))
              ELSE send(bare.bm, bare.consumer, b)
  IN  [bm |-> r.bm, replay |-> acc, consumer |-> r.consumer]

apply_book_replay(k, b) ==
  LET r == send(k, consumer, b)
  IN  [bm |-> r.bm, consumer |-> r.consumer,
       replay |-> fold(IF replay = None THEN NewAccumulator ELSE replay, b)]

\* The authority's half of the arm: its new state, the path that was served, and what
\* becomes of the batch of p.
decision(p, clear, synthesized) ==
  LET r == path_ordinal(au, p)
      n == IF clear THEN note_rebaseline_point(r, market, p) ELSE r
      d == IF ~synthesized /\ n.leader = p /\ holding_revert(n, market) /\ replay_incomplete
             THEN drop_hold(n, market) ELSE n
      v == IF synthesized THEN [au |-> d, out |-> admit_synthesized(d, market, p)]
           ELSE admit(d, market, p, Now)
  IN  [au |-> v.au, prev |-> last_admitted(d, market), out |-> v.out]

\* The gate's half for a batch of p, after prev: what reaches the wire.
emit_scoped(p, b, prev, out) ==
  LET sent == out # "dropped"
      k0   == IF bm = None THEN NewBookMarket ELSE bm
      seamless == sent /\ prev \notin {None, p} /\ seamless_handover(k0, p)
      k    == accumulate_book(k0, p, b)
      owes == k.rebaseline \/ (prev # p /\ ~seamless)
  IN  IF ~sent THEN [bm |-> dropped(k, prev, p, b), replay |-> replay, consumer |-> consumer]
      ELSE IF ~owes THEN apply_book_replay(k, b)
      ELSE IF waits(k, b)
        THEN [bm |-> [k EXCEPT !.rebaseline = TRUE, !.withheld = @ + 1],
              replay |-> replay, consumer |-> consumer]
      ELSE rebaseline_book(k, p, b)

Emit(p, b, synthesized) ==
  \E v \in {decision(p, b.clear, synthesized)} :
    \E o \in {emit_scoped(p, b, v.prev, v.out)} :
      au' = v.au /\ bm' = o.bm /\ replay' = o.replay /\ consumer' = o.consumer

-----------------------------------------------------------------------------
\* Mutant: an incomplete replay entry is owed nothing.
owed_never(p) == FALSE

\* Whether p's next close must be a full re-baseline.
book_rebaselines_owed(p) == replay_incomplete /\ last_admitted(au, market) = p

committed_slot(x) == IF x.lapsed THEN None ELSE x.slot

\* A boundary that names a slot this path has not committed.
NamesNewSlot(x) == x.slot # None => x.pos > x.slot

Advanced(x) == [x EXCEPT !.pos = IF @ < Changes THEN @ + 1 ELSE @]
CanChange(p) == path[p].pos < Changes \/ Resent

Healthy(p) == path[p].status # "gap"

\* A path handles one datagram at a time, and each ends by filing the book's health.
Idle(p) == path[p].close = None
Done(p) == Idle(p) /\ path[p].filed = Healthy(p)
Ready(p) == Done(p) /\ path[p].status = "ready"

FullBook(p, x) ==
  [clear |-> TRUE, changes |-> Prefix(p, x.pos), last |-> TRUE, batch_id |-> committed_slot(x)]

\* A datagram of an event that goes on: its batch does not end the event.
Part(p) ==
  LET x == Advanced(path[p])
  IN  /\ Ready(p) /\ CanChange(p) /\ ~path[p].lapsed
      /\ Emit(p, [clear |-> FALSE, changes |-> {Change(p, x.pos)}, last |-> FALSE,
                  batch_id |-> committed_slot(x)], FALSE)
      /\ path' = [path EXCEPT ![p] = [x EXCEPT !.open = TRUE]]
      /\ UNCHANGED <<closed, faults, scope>>

\* A close begins: on a boundary naming a new slot, on a datagram once the boundaries
\* lapsed, or on the tick for a silent channel; the processor asks what it owes.
Close(p, kind, changed) ==
  LET x == IF changed THEN Advanced(path[p]) ELSE path[p]
  IN  /\ Ready(p)
      /\ changed => kind # "tick" /\ CanChange(p)
      /\ changed \/ path[p].open
      /\ kind = "boundary" => NamesNewSlot(x)
      /\ kind = "tick" => ~x.lapsed
      /\ path' = [path EXCEPT ![p] =
            [x EXCEPT !.lapsed = kind # "boundary",
                      !.slot = IF kind = "boundary" /\ scope.slotted THEN x.pos ELSE @,
                      !.close = [owed |-> book_rebaselines_owed(p),
                                 changes |-> IF changed THEN {Change(p, x.pos)} ELSE {},
                                 synthesized |-> kind = "tick"]]]
      /\ UNCHANGED <<au, bm, replay, consumer, closed, faults, scope>>

\* A boundary, or its lapse, that closes nothing of this market: nothing is open, or the
\* book is not up and the close is refused and stays owed.
Aside(p, kind) ==
  LET x == path[p]
  IN  /\ Done(p) /\ (x.status = "ready" => ~x.open)
      /\ IF kind = "boundary" THEN NamesNewSlot(x) ELSE ~x.lapsed
      /\ path' = [path EXCEPT ![p] =
            [x EXCEPT !.lapsed = kind # "boundary",
                      !.slot = IF kind = "boundary" /\ scope.slotted THEN x.pos ELSE @]]
      /\ UNCHANGED <<au, bm, replay, consumer, closed, faults, scope>>

\* What ending a close, a rebuild and a report change of the path; Closed, Install and
\* Report add what the arbiter makes of them, which is never refused.
EndsClose(p) ==
  /\ path[p].close # None
  /\ path' = [path EXCEPT ![p] = [@ EXCEPT !.close = None, !.open = FALSE]]

EndsRebuild(p) ==
  /\ path[p].status # "ready"
  /\ Done(p) \/ path[p].filed = None
  /\ path' = [path EXCEPT ![p] = [@ EXCEPT !.status = "ready", !.open = FALSE]]

Files(p) ==
  /\ Idle(p) /\ path[p].filed # Healthy(p)
  /\ path' = [path EXCEPT ![p].filed = Healthy(p)]

\* The close goes out, a whole book where the arbiter asked for one.
Closed(p) ==
  LET x == path[p]
      b == IF x.close.owed THEN FullBook(p, x)
           ELSE [clear |-> FALSE, changes |-> x.close.changes, last |-> TRUE,
                 batch_id |-> committed_slot(x)]
  IN  /\ EndsClose(p)
      /\ Emit(p, b, x.close.synthesized)
      /\ closed' = [closed EXCEPT ![p] = @ \cup {x.pos}]
      /\ UNCHANGED <<faults, scope>>

\* A lost delta: the book is in doubt and nothing is sent until it is rebuilt.
Lose(p) ==
  /\ Done(p) /\ path[p].status # "gap" /\ CanChange(p)
  /\ path' = [path EXCEPT ![p] = [Advanced(path[p]) EXCEPT !.status = "gap"]]
  /\ Fault("loss")
  /\ UNCHANGED <<au, bm, replay, consumer, closed>>

\* A snapshot rotation accepted over a live book: it stays whole but sends nothing,
\* and buffers the changes that come meanwhile.
Rotate(p, changed) ==
  /\ Ready(p) /\ (changed => CanChange(p))
  /\ path' = [path EXCEPT ![p] =
        [(IF changed THEN Advanced(path[p]) ELSE path[p]) EXCEPT !.status = "rebuild"]]
  /\ Fault("rotation")
  /\ UNCHANGED <<au, bm, replay, consumer, closed>>

\* The book is rebuilt and sent whole, before the path's health is reported.
Install(p) ==
  /\ EndsRebuild(p)
  /\ Emit(p, FullBook(p, path[p]), FALSE)
  /\ closed' = [closed EXCEPT ![p] = @ \cup {path[p].pos}]
  /\ UNCHANGED <<faults, scope>>

Report(p) ==
  /\ Files(p)
  /\ au' = set_health(au, market, p, Healthy(p))
  /\ UNCHANGED <<bm, replay, consumer, closed, faults, scope>>

\* A message of p on another market of the scope.
Elsewhere(p) ==
  /\ au.leader # None /\ au.seen[p] # None
  /\ au' = heard(au, p, Now)
  /\ UNCHANGED <<bm, replay, consumer, path, closed, faults, scope>>

\* A margin transfer at the close of a sampling window.
Transfer(p) ==
  /\ au.leader # None /\ au.seen[p] # None /\ p # au.leader
  /\ au' = transfer_scope_to(au, p, Now)
  /\ Fault("transfer")
  /\ UNCHANGED <<bm, replay, consumer, path, closed>>

\* drop_market_state: the market is evicted, reset or its channel departs, and the
\* consumer is not told.
DropMarket ==
  /\ bm # None
  /\ bm' = None /\ replay' = None
  /\ au' = forget_market(au, market)
  /\ Fault("drop")
  /\ UNCHANGED <<consumer, path, closed>>

Tick ==
  /\ au' = Aged(au)
  /\ UNCHANGED <<bm, replay, consumer, path, closed, faults, scope>>

Closes(p) == \E kind \in {"boundary", "lapse"}, changed \in BOOLEAN : Close(p, kind, changed)
TickClose(p) == Close(p, "tick", FALSE)

Next ==
  \/ \E p \in Path :
       \/ Part(p) \/ Closes(p) \/ TickClose(p) \/ Closed(p)
       \/ Lose(p) \/ Install(p) \/ Report(p) \/ Elsewhere(p) \/ Transfer(p)
       \/ \E changed \in BOOLEAN : Rotate(p, changed)
       \/ \E kind \in {"boundary", "lapse"} : Aside(p, kind)
  \/ DropMarket
  \/ Tick

Spec == Init /\ [][Next]_vars

\* Who may not stop: every path ends the closes it has begun and answers for its
\* health, a lost book is rebuilt by the snapshot cycle, and the scope's leader keeps
\* ending events of the market while its book is up.
LeaderCloses ==
  \E p \in Path : p = au.leader /\ Closes(p)

Fairness ==
  /\ \A p \in Path : WF_path(EndsClose(p)) /\ WF_path(EndsRebuild(p)) /\ WF_path(Files(p))
  /\ SF_path(LeaderCloses)

\* Leadership settles: a close whose path loses the lead before its batch repairs nothing.
FairSpec == Spec /\ Fairness /\ <>[][au'.leader = au.leader]_au

-----------------------------------------------------------------------------
\* emit_scoped: a consumer that followed the stream and one bootstrapped from the
\* replay map hold the same book, events under way included, whenever the replay map
\* offers one: dropped, withheld, republished and seamless batches leave no hole.
OneBook ==
  replay # None /\ replay.baselined
    => consumer.book = replay.book /\ consumer.pending = replay.pending

\* emit_scoped, rebaseline_book, seamless_handover: the book on offer is the whole
\* book of one path at the end of one of its events, never mixed from two paths and
\* never torn inside an event.
WholeBook ==
  replay # None /\ replay.baselined
    => \E p \in Path : \E k \in closed[p] : replay.book = Prefix(p, k)

\* monotonic_slot, to_book, abandon: the state a consumer commits under a slot is at
\* least that slot's.
SlotReached ==
  replay # None /\ replay.baselined /\ consumer.at # None
    => \E p \in Path : Prefix(p, consumer.at) \subseteq consumer.book

\* monotonic_slot: while the market is tracked, the slots it is published under never
\* move back, whichever path serves it.
SlotMonotone ==
  [][bm # None /\ bm.wire_slot # None => consumer'.slot >= consumer.slot]_vars

\* book_rebaselines_owed, drop_hold: a market withheld from new clients does not stay
\* so: its replay entry becomes complete again.
Heals == replay_incomplete ~> ~replay_incomplete

\* The comment on MAX_WITHHELD_BATCHES: a re-baseline that gives up waiting degrades to
\* a bare clear, never to a book claiming completeness while changes are pending.
AbandonedIsIncomplete ==
  [][bm # None /\ bm.rebaseline /\ bm' # None /\ ~bm'.rebaseline
       => ~(replay'.baselined /\ replay'.pending # {})]_vars
=============================================================================
