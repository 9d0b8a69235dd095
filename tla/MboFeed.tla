------------------------------ MODULE MboFeed ------------------------------
(***************************************************************************)
(* One instrument of a market-by-order feed: its publisher, a multicast    *)
(* network, and MboProcessor, which recovers the publisher's book and      *)
(* tells the arbiter of it under the Source ID the wire last named.        *)
(*                                                                         *)
(* The network loses, duplicates and delays: a mktdata datagram arrives    *)
(* any number of times and in any order; so do the messages of the         *)
(* snapshot port, but never one of a rotation after one of a later         *)
(* rotation, and likewise the resets.  Every message of the snapshot port  *)
(* is a datagram of its own.                                               *)
(***************************************************************************)
EXTENDS OrderBook

CONSTANTS
  SourceId,
  Deltas,       \* what the publisher may send: a subset of DeltaOp
  FirstBook,    \* the publisher's book as the session begins
  ResetBook,    \* and as it stands after an instrument reset
  MaxChan,      \* bound: mktdata datagrams of one session
  MaxBatch,     \* bound: deltas of one datagram
  MaxSnaps,     \* bound: rotations of one session
  MaxRepeats,   \* bound: SnapshotOrders of one rotation past its total
  MaxFaults,    \* bound: renames, resets, lost definitions, evictions, session ends
  Faults        \* the kinds of them

ASSUME MboConstants ==
  /\ None \notin SourceId \cup BOOLEAN
  /\ None \notin [OrderId -> Nat] /\ None \notin [Price -> Nat]
  /\ {FirstBook, ResetBook} \subseteq [OrderId -> Nat]
  /\ {MaxChan, MaxBatch, MaxSnaps, MaxRepeats, MaxFaults} \subseteq Nat
  /\ Deltas \subseteq DeltaOp
  /\ Faults \subseteq {"rename", "reset", "undefine", "evict", "session"}

VARIABLES
  sent,    \* sent[k]: the delta with per-instrument sequence k
  chan,    \* the last mktdata sequence used
  epochs,  \* the stretches between resets: [base, start, anchor]
  snaps,   \* the rotations published
  src,     \* the Source ID the publisher sends
  heard,   \* epoch begun by the newest reset processed
  seen,    \* newest rotation of which a message has arrived
  faults,  \* faults so far
  book,    \* books: the instrument's BookState
  mbo,     \* the processor's memos of it
  told,    \* what the arbiter and its consumers have, per Source ID
  log      \* history, for the properties

pub == <<sent, chan, epochs, snaps, src>>
vars == <<pub, heard, seen, faults, book, mbo, told, log>>

\* What delta d makes of a population.
After(t, d) ==
  [t EXCEPT ![d.order] =
     CASE d.kind = "add" -> d.qty
       [] d.kind = "cancel" -> 0
       [] d.kind = "execute" -> IF d.full \/ t[d.order] <= d.qty THEN 0 ELSE t[d.order] - d.qty]

\* The publisher's own book after delta k, on the base epoch e began with.
Grown(base, start, wire, k) ==
  LET t[j \in start..k] == IF j = start THEN base ELSE After(t[j - 1], wire[j].op) IN t[k]
Truth(e, k) == Grown(epochs[e].base, epochs[e].start, sent, k)

\* revealed, synced_reported, reveal_rebaselined_ns (is it within the interval?),
\* last_top, and whether the definition is known.
NoMemos == [revealed |-> None, reported |-> None, recent |-> FALSE, top |-> None,
            defined |-> FALSE]

\* Of one market: book_sync of this path, the orders and the depth its consumers hold.
Nothing == [synced |-> None, orders |-> None, depth |-> None]

Init ==
  /\ sent = <<>> /\ chan = 0 /\ snaps = <<>> /\ src \in SourceId
  /\ epochs = <<[base |-> FirstBook, start |-> 0, anchor |-> 0]>>
  /\ heard = 1 /\ seen = 0 /\ faults = 0
  /\ book = new /\ mbo = [NoMemos EXCEPT !.defined = TRUE] /\ told = [s \in SourceId |-> Nothing]
  /\ log = [open |-> FALSE, live |-> FALSE, bare |-> {}, unshown |-> {}, evicted |-> FALSE]

-----------------------------------------------------------------------------
(* The publisher.                                                          *)

Fault(kind) == kind \in Faults /\ faults < MaxFaults /\ faults' = faults + 1

\* An order id is added once, and only a resting order is cancelled or filled.
Fits(d, t) ==
  CASE d.kind = "add" -> /\ \A e \in DOMAIN epochs : epochs[e].base[d.order] = 0
                         /\ \A k \in DOMAIN sent : sent[k].op.order # d.order
    [] d.kind = "cancel" -> t[d.order] > 0
    [] d.kind = "execute" -> d.qty \in 1..t[d.order] /\ (d.full <=> d.qty = t[d.order])

\* A mktdata datagram: its first delta, or one more in the last one.
PubDelta(more) ==
  /\ Len(sent) < MaxDeltas
  /\ IF more THEN /\ chan > 0 /\ Cardinality({k \in DOMAIN sent : sent[k].mkt = chan}) \in 1..(MaxBatch - 1)
                  /\ sent[Len(sent)].src = src
                  /\ \A s \in DOMAIN snaps : snaps[s].anchor < chan
             ELSE chan < MaxChan
  /\ chan' = IF more THEN chan ELSE chan + 1
  /\ \E op \in Deltas :
       /\ Fits(op, Truth(Len(epochs), Len(sent)))
       /\ sent' = Append(sent, [mkt |-> chan', op |-> op, src |-> src])
  /\ UNCHANGED <<epochs, snaps, src, heard, seen, faults, book, mbo, told, log>>

PubSnapshot ==
  LET t == Truth(Len(epochs), Len(sent))
  IN  /\ Len(snaps) < MaxSnaps
      /\ snaps' = Append(snaps, [id |-> Len(snaps) + 1, anchor |-> chan, orders |-> t,
                                 total |-> Cardinality(Resting(t)), last |-> Len(sent),
                                 epoch |-> Len(epochs)])
      /\ UNCHANGED <<sent, chan, epochs, src, heard, seen, faults, book, mbo, told, log>>

PubReset ==
  /\ Fault("reset") /\ chan < MaxChan
  /\ chan' = chan + 1
  /\ epochs' = Append(epochs, [base |-> ResetBook, start |-> Len(sent), anchor |-> chan + 1])
  /\ UNCHANGED <<sent, snaps, src, heard, seen, book, mbo, told, log>>

Rename ==
  /\ Fault("rename")
  /\ src' \in SourceId \ {src}
  /\ UNCHANGED <<sent, chan, epochs, snaps, heard, seen, book, mbo, told, log>>

-----------------------------------------------------------------------------
(* The processor.  A step's outcome is a record of what it leaves behind,  *)
(* with what its datagram owes: was the book touched or changed, how it is *)
(* to be published, and the changes.                                       *)

Here == [book |-> book, mbo |-> mbo, told |-> told, log |-> log,
         touched |-> FALSE, changed |-> FALSE, mode |-> "delta", out |-> <<>>]

\* set_synced: only a transition is reported, and only under a revealed Source ID.
set_synced(h, synced) ==
  IF h.mbo.revealed = None \/ h.mbo.reported = synced THEN h
  ELSE [h EXCEPT !.mbo.reported = synced, !.told[h.mbo.revealed].synced = synced]

\* Announce s.  The old market is dropped from the arbiter (release_source_market, this
\* being its only path), and with it what last_top compares with.
reveal_if_needed(h, s) ==
  CASE ~h.mbo.defined \/ h.mbo.revealed = s -> h
    [] h.mbo.defined /\ h.mbo.revealed = None -> [h EXCEPT !.mbo.revealed = s]
    [] h.mbo.defined /\ h.mbo.revealed \notin {None, s} ->
         [h EXCEPT !.mbo.revealed = s, !.mbo.top = None, !.told[h.mbo.revealed] = Nothing]

\* Mutant: the rate limit lets the datagram's changes through.
on_reveal_limited(h, s) ==
  LET r == reveal_if_needed(h, s)
  IN  IF r.mbo.revealed = h.mbo.revealed THEN h
      ELSE IF r.mbo.recent THEN [r EXCEPT !.changed = TRUE]
      ELSE [r EXCEPT !.changed = TRUE, !.mode = "rebaseline", !.mbo.recent = TRUE]

\* A delta-carrying message names s: a market the consumer has not seen is owed the
\* whole book, or a bare clear within the interval of the last one.
on_reveal(h, s) ==
  LET r == reveal_if_needed(h, s)
  IN  IF r.mbo.revealed = h.mbo.revealed THEN h
      ELSE [r EXCEPT !.changed = TRUE, !.mbo.recent = TRUE,
                     !.mode = IF r.mbo.recent /\ @ # "rebaseline" THEN "clear" ELSE "rebaseline"]

\* apply_delta.  Without a definition there is no book.
apply_delta(h, k) ==
  LET r == on_delta_reporting(h.book, k, sent)
  IN  IF ~h.mbo.defined THEN [h EXCEPT !.touched = TRUE]
      ELSE [h EXCEPT !.touched = TRUE, !.book = r.book, !.out = @ \o r.out,
                     !.changed = @ \/ r.took]

emit_depth(h) ==
  IF h.mbo.top = h.book.levels THEN h
  ELSE [h EXCEPT !.mbo.top = h.book.levels, !.told[h.mbo.revealed].depth = h.book.levels]

\* What the consumer makes of the batch: a clear begins a book, changes alone go on what
\* is there.
Folded(orders, changes) ==
  LET t[i \in 0..Len(changes)] ==
        IF i = 0 THEN orders ELSE [t[i - 1] EXCEPT ![changes[i].order] = changes[i].qty]
  IN  t[Len(changes)]

emit_book(h) ==
  LET s == h.mbo.revealed
      held == h.told[s].orders
  IN  CASE h.mode = "rebaseline" -> [h EXCEPT !.told[s].orders = h.book.orders,
                                              !.log.bare = h.log.bare \ {s},
                                              !.log.unshown = h.log.unshown \ {s}]
        [] h.mode = "clear" -> [h EXCEPT !.told[s].orders = Empty, !.log.bare = h.log.bare \cup {s}]
        [] h.mode = "delta" ->
             IF held = None THEN h ELSE [h EXCEPT !.told[s].orders = Folded(held, h.out)]

\* The end of a datagram: the sync state, then the depth and the book, of a book that is
\* synced, defined and revealed.
Published(h) ==
  LET r == IF h.touched THEN set_synced(h, h.book.synced) ELSE h
  IN  IF h.changed /\ h.mbo.revealed # None /\ h.book.synced /\ h.mbo.defined
        THEN emit_book(emit_depth(r)) ELSE r

\* The history of a market that is dropped goes with it.
Current(h, s) == s = h.mbo.revealed \/ h.told[s] # Nothing

Leaves(h) ==
  \E r \in {Published(h)} :
    /\ book' = r.book /\ mbo' = r.mbo /\ told' = r.told
    /\ log' = [r.log EXCEPT !.bare = {s \in @ : Current(r, s)},
                            !.unshown = {s \in @ : Current(r, s)}]

\* Order messages of mktdata datagram n.
OrderMessage(h, k, n) ==
  IF sent[k].mkt = n THEN on_reveal(apply_delta(h, k), sent[k].src) ELSE h
Mktdata(n) ==
  LET h[k \in 0..Len(sent)] == IF k = 0 THEN Here ELSE OrderMessage(h[k - 1], k, n)
  IN  /\ \E k \in DOMAIN sent : sent[k].mkt = n
      /\ Leaves(h[Len(sent)])
      /\ UNCHANGED <<pub, heard, seen, faults>>

\* A Trade touches no book, but it names the Source ID.
Trade ==
  /\ mbo.defined
  /\ Leaves(on_reveal(Here, src))
  /\ UNCHANGED <<pub, heard, seen, faults>>

\* InstrumentDefinition; a v3 one carries the Source ID and reveals at once.
Definition(eager) ==
  /\ LET h == [Here EXCEPT !.mbo.defined = TRUE]
         r == reveal_if_needed(h, src)
     IN  Leaves(IF ~eager \/ r = h THEN h
                ELSE [r EXCEPT !.log.unshown = IF book.synced THEN @ \cup {src} ELSE @])
  /\ UNCHANGED <<pub, heard, seen, faults>>

\* A manifest era or a channel reset empties RefDataState.
Undefine ==
  /\ Fault("undefine") /\ mbo.defined
  /\ mbo' = [mbo EXCEPT !.defined = FALSE]
  /\ UNCHANGED <<pub, heard, seen, book, told, log>>

SnapshotBegin(s) ==
  /\ s >= seen /\ seen' = s
  /\ Leaves([Here EXCEPT
       !.touched = TRUE,
       !.book = IF mbo.defined THEN on_snapshot_begin(@, snaps[s]) ELSE @,
       !.log.open = IF mbo.defined THEN FALSE ELSE @])
  /\ UNCHANGED <<pub, heard, faults>>

SnapshotOrder(s, o) ==
  /\ s >= seen /\ seen' = s
  /\ book.building # None => book.building.received < book.building.total + MaxRepeats
  /\ book' = on_snapshot_order(book, snaps[s].id, o, snaps[s].orders[o])
  /\ log' = [log EXCEPT !.open = @ \/ (book' # book /\ book.building.orders[o] > 0)]
  /\ UNCHANGED <<pub, heard, faults, mbo, told>>

SnapshotEnd(s) ==
  LET r == on_snapshot_end(book, snaps[s].anchor, snaps[s].id, sent)
  IN  /\ s >= seen /\ seen' = s
      /\ Leaves(IF ~mbo.defined THEN [Here EXCEPT !.touched = TRUE]
                ELSE [Here EXCEPT !.touched = TRUE, !.book = r.book,
                        !.changed = r.took, !.mode = IF r.took THEN "rebaseline" ELSE "delta",
                        !.log.live = IF r.took THEN log.open \/ snaps[s].epoch < heard ELSE @])
      /\ UNCHANGED <<pub, heard, faults>>

\* InstrumentReset: reported while the Source ID is still known, then forgotten with the
\* memos of what was shown.
InstrumentReset(e) ==
  /\ e >= heard /\ heard' = e
  /\ \E r \in {set_synced(Here, FALSE)} :
       /\ told' = [s \in SourceId |->
                     IF s = mbo.revealed THEN [r.told[s] EXCEPT !.depth = None] ELSE r.told[s]]
       /\ mbo' = [r.mbo EXCEPT !.revealed = None, !.recent = FALSE, !.top = None]
  /\ book' = on_instrument_reset(book, epochs[e].anchor, sent)
  /\ UNCHANGED <<pub, seen, faults, log>>

\* A new session: nothing sent before it arrives after it.
EndOfSession ==
  /\ Fault("session")
  /\ sent' = <<>> /\ chan' = 0 /\ snaps' = <<>>
  /\ epochs' = <<[base |-> FirstBook, start |-> 0, anchor |-> 0]>>
  /\ heard' = 1 /\ seen' = 0
  /\ \E r \in {set_synced(Here, FALSE)} :
       /\ told' = [s \in SourceId |->
                     IF s = mbo.revealed THEN [r.told[s] EXCEPT !.depth = None] ELSE r.told[s]]
       /\ mbo' = [r.mbo EXCEPT !.top = None]
  /\ book' = on_end_of_session(book)
  /\ UNCHANGED <<src, log>>

\* book_for made room for another instrument: the book and its depth go, the arbiter is not told.
Evict ==
  /\ Fault("evict")
  /\ book' = new
  /\ mbo' = [NoMemos EXCEPT !.defined = mbo.defined]
  /\ told' = [s \in SourceId |-> IF s = mbo.revealed /\ mbo.defined
                                   THEN [told[s] EXCEPT !.depth = None] ELSE told[s]]
  /\ log' = [log EXCEPT !.evicted = TRUE]
  /\ UNCHANGED <<pub, heard, seen>>

\* REVEAL_REBASELINE_INTERVAL_NS passes.
IntervalPasses ==
  /\ mbo.recent
  /\ mbo' = [mbo EXCEPT !.recent = FALSE]
  /\ UNCHANGED <<pub, heard, seen, faults, book, told, log>>

Next ==
  \/ \E more \in BOOLEAN : PubDelta(more)
  \/ PubSnapshot \/ PubReset \/ Rename
  \/ \E n \in 1..chan : Mktdata(n)
  \/ Trade \/ Undefine \/ EndOfSession \/ Evict \/ IntervalPasses
  \/ \E eager \in BOOLEAN : Definition(eager)
  \/ \E s \in DOMAIN snaps :
       \/ SnapshotBegin(s) \/ SnapshotEnd(s)
       \/ \E o \in Resting(snaps[s].orders) : SnapshotOrder(s, o)
  \/ \E e \in DOMAIN epochs : e > 1 /\ InstrumentReset(e)

Spec == Init /\ [][Next]_vars

-----------------------------------------------------------------------------
(* Properties.                                                             *)

\* The deltas up to k go past a reset that came after epoch e.
Crossed(e, k) == \E f \in DOMAIN epochs : f > e /\ epochs[f].start < k

\* BookState: a synced book is the publisher's after the last delta it applied, order by
\* order and level by level, whatever was lost, repeated or reordered on either port, with
\* three exceptions the code leaves: a rotation one of whose SnapshotOrders was repeated, one
\* captured before a reset that was heard first, and the levels of a book that goes on with
\* the deltas after a reset it has not heard (a full fill takes off its level only what it
\* says was filled).
SyncedIsTruth ==
  book.synced /\ ~log.live =>
    \E e \in heard..Len(epochs) :
      /\ epochs[e].start <= book.seq /\ book.orders = Truth(e, book.seq)
      /\ Crossed(e, book.seq) \/ book.levels = Totals(book.orders)

\* on_datagram, on_reveal, emit_book, emit_depth, report_synced: under the Source ID in use,
\* the orders and the depth the consumers hold are those of the synced book, through gaps,
\* resets, renames and lost definitions, except from a bare clear, or from a definition that
\* named a book already synced, to the next re-baseline; and the arbiter takes the path for
\* a healthy peer only while its book is synced, unless the book was evicted.
ShownIsBook ==
  LET s == mbo.revealed IN
  s # None =>
    /\ book.synced /\ s \notin log.bare \cup log.unshown => told[s].orders = book.orders
    /\ book.synced /\ s \notin log.unshown => told[s].depth = book.levels
    /\ told[s].synced = TRUE => book.synced \/ log.evicted

\* "No book exists yet for a freshly-defined instrument" (on_datagram): a definition that
\* names the Source ID owes its consumers nothing, so but for a bare clear the orders they
\* hold are those of the synced book.
NamedIsShown ==
  LET s == mbo.revealed IN
  s # None /\ book.synced /\ told[s].orders # None /\ s \notin log.bare
    => told[s].orders = book.orders
=============================================================================
