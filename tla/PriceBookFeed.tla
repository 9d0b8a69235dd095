--------------------------- MODULE PriceBookFeed ---------------------------
(***************************************************************************)
(* One instrument of a market-by-price feed: a publisher that sends        *)
(* deltas, snapshot rotations and instrument resets on two ports, a        *)
(* multicast network, and the PriceBook that recovers the publisher's book *)
(* from what arrives.                                                      *)
(*                                                                         *)
(* The network loses, duplicates, delays and reorders: an arrival is any   *)
(* message ever sent in this session, any number of times, so a message    *)
(* that is never chosen is a lost one.  With Fifo, snapshots arrive in the *)
(* order they were captured and so do resets, still with losses and        *)
(* duplicates and in any order between the two ports and the deltas.       *)
(***************************************************************************)
EXTENDS PriceBook

CONSTANTS
  Deltas,       \* what the publisher may send: a subset of BookDelta
  ResetBooks,   \* the books an instrument reset may start from
  DepthBounds,  \* the depth bounds a rotation may claim
  Fifo,         \* do snapshots, and resets, arrive in order?
  MaxChan,      \* bound: channel-wide mktdata sequence
  MaxSnaps,     \* bound: rotations of one session
  MaxResets,    \* bound: instrument resets of one session
  MaxSessions,  \* bound: sessions
  MaxTime       \* bound: the receive clock

ASSUME FeedConstants ==
  /\ Deltas \subseteq BookDelta
  /\ ResetBooks \subseteq SUBSET Level
  /\ DepthBounds \subseteq Nat
  /\ Fifo \in BOOLEAN
  /\ {MaxChan, MaxSnaps, MaxResets, MaxSessions, MaxTime} \subseteq Nat

VARIABLES
  book,     \* the PriceBook
  now,      \* receive clock, as the recv_ts_ns the processor passes down
  sent,     \* sent[k]: the delta with per-instrument sequence k
  chan,     \* the last channel-wide mktdata sequence used
  epochs,   \* the stretches between resets: [base, start, anchor]
  snaps,    \* the rotations published
  session,  \* number of this session
  heard,    \* epoch begun by the newest reset the book has processed
  seen,     \* newest rotation of which a message has arrived
  readyAt,  \* history: when the book was last Ready
  shorts    \* history: rotations that called the book short, none agreeing since

vars == <<book, now, sent, chan, epochs, snaps, session, heard, seen, readyAt, shorts>>
pub  == <<sent, chan, epochs, snaps, session>>

\* The publisher's own book after delta k, on the base epoch e began with.
Truth(e, k) == ApplyRun(epochs[e].base, sent, epochs[e].start, k)

FirstEpoch == [base |-> {}, start |-> 0, anchor |-> 0]

Init ==
  /\ book = new
  /\ now = 1
  /\ sent = <<>> /\ chan = 0 /\ epochs = <<FirstEpoch>> /\ snaps = <<>>
  /\ session = 1 /\ heard = 1 /\ seen = 0
  /\ readyAt = 0 /\ shorts = {}

-----------------------------------------------------------------------------
(* The publisher.                                                          *)

PubDelta(d) ==
  /\ Len(sent) < MaxDeltas /\ chan < MaxChan
  /\ chan' = chan + 1
  /\ sent' = Append(sent, [mkt |-> chan + 1, delta |-> d])
  /\ UNCHANGED <<book, now, epochs, snaps, session, heard, seen, readyAt, shorts>>

\* A heartbeat, or another instrument's delta, on the same channel.
PubOther ==
  /\ chan < MaxChan
  /\ chan' = chan + 1
  /\ UNCHANGED <<book, now, sent, epochs, snaps, session, heard, seen, readyAt, shorts>>

PubSnapshot(bound) ==
  LET levels == Truth(Len(epochs), Len(sent))
  IN  /\ Len(snaps) < MaxSnaps
      /\ snaps' = Append(snaps, [id |-> Len(snaps) + 1, anchor |-> chan,
                                 total |-> Cardinality(levels), last |-> Len(sent),
                                 bound |-> bound, levels |-> levels,
                                 epoch |-> Len(epochs)])
      /\ UNCHANGED <<book, now, sent, chan, epochs, session, heard, seen, readyAt, shorts>>

PubReset(base) ==
  /\ Len(epochs) <= MaxResets /\ chan < MaxChan
  /\ chan' = chan + 1
  /\ epochs' = Append(epochs, [base |-> base, start |-> Len(sent), anchor |-> chan + 1])
  /\ UNCHANGED <<book, now, sent, snaps, session, heard, seen, readyAt, shorts>>

-----------------------------------------------------------------------------
(* Arrivals at the book.                                                   *)

\* When the book was last Ready, this step's old and new states included.
Mark ==
  readyAt' = IF "Ready" \in {book.status, book'.status} THEN now ELSE readyAt

OnDelta(k) ==
  /\ book' = on_delta(book, k, sent)
  /\ Mark
  /\ UNCHANGED <<now, heard, seen, shorts, pub>>

InOrder(s) == Fifo => s >= seen

Noticed(s) == seen' = IF s > seen THEN s ELSE seen

CallsShort(s) ==
  /\ ~Refused(book, snaps[s]) /\ Declines(book, snaps[s]) /\ snaps[s].bound = 0
  /\ reanchor_warranted(Shortfall(book, snaps[s]), snaps[s].total)

AgreesWith(s) ==
  /\ ~Refused(book, snaps[s]) /\ Declines(book, snaps[s]) /\ snaps[s].bound = 0
  /\ ~reanchor_warranted(Shortfall(book, snaps[s]), snaps[s].total)

OnBegin(s) ==
  /\ InOrder(s)
  /\ book' = on_snapshot_begin(book, snaps[s], now)
  /\ shorts' = IF CallsShort(s) THEN shorts \cup {s}
               ELSE IF AgreesWith(s) THEN {} ELSE shorts
  /\ Noticed(s) /\ Mark
  /\ UNCHANGED <<now, heard, pub>>

OnLevel(s, l) ==
  /\ InOrder(s)
  /\ book' = on_snapshot_level(book, snaps[s].id, l)
  /\ Noticed(s) /\ Mark
  /\ UNCHANGED <<now, heard, shorts, pub>>

OnEnd(s) ==
  /\ InOrder(s)
  /\ book' = on_snapshot_end(book, snaps[s].anchor, snaps[s].id, sent)
  /\ shorts' = IF book'.strike = None THEN {} ELSE shorts
  /\ Noticed(s) /\ Mark
  /\ UNCHANGED <<now, heard, pub>>

OnReset(e) ==
  /\ Fifo => e >= heard
  /\ book' = on_instrument_reset(book, epochs[e].anchor, sent)
  /\ heard' = e
  /\ Mark
  /\ UNCHANGED <<now, seen, shorts, pub>>

\* The processor's cross-instrument buffer budget picked this book.
DropBuffer ==
  /\ buffered_len(book) > 0
  /\ book' = drop_buffer(book)
  /\ Mark
  /\ UNCHANGED <<now, heard, seen, shorts, pub>>

\* EndOfSession, or the changed Reset Count that stands in for a lost one.  The
\* header of every later datagram carries the new count, so nothing of the old
\* session reaches the book afterwards.
EndOfSession ==
  /\ session < MaxSessions
  /\ session' = session + 1
  /\ sent' = <<>> /\ chan' = 0 /\ epochs' = <<FirstEpoch>> /\ snaps' = <<>>
  /\ heard' = 1 /\ seen' = 0
  /\ book' = on_end_of_session(book)
  /\ Mark
  /\ UNCHANGED <<now, shorts>>

Tick ==
  /\ now < MaxTime
  /\ now' = now + 1
  /\ readyAt' = IF book.status = "Ready" THEN now + 1 ELSE readyAt
  /\ UNCHANGED <<book, heard, seen, shorts, pub>>

Next ==
  \/ \E d \in Deltas : PubDelta(d)
  \/ PubOther
  \/ \E n \in DepthBounds : PubSnapshot(n)
  \/ \E B \in ResetBooks : PubReset(B)
  \/ \E k \in DOMAIN sent : OnDelta(k)
  \/ \E s \in DOMAIN snaps : OnBegin(s)
  \/ \E s \in DOMAIN snaps : \E l \in snaps[s].levels : OnLevel(s, l)
  \/ \E s \in DOMAIN snaps : OnEnd(s)
  \/ \E e \in 2..Len(epochs) : OnReset(e)
  \/ DropBuffer
  \/ EndOfSession
  \/ Tick

Spec == Init /\ [][Next]_vars

-----------------------------------------------------------------------------
PriceBookType ==
  [levels : SUBSET Level, status : Status, last : 0..MaxDeltas,
   bound : Nat \cup {None}, required : Nat \cup {None},
   open : Building \cup {None}, pending : [Seqs -> Nat],
   reanchor : Nat \cup {None}, strike : Nat \cup {None}]

TypeOK ==
  /\ book \in PriceBookType
  /\ now \in Nat /\ readyAt \in Nat
  /\ chan \in Nat /\ session \in Nat
  /\ sent \in Seq([mkt : Nat, delta : Deltas]) /\ Len(sent) <= MaxDeltas
  /\ epochs \in Seq([base : SUBSET Level, start : Nat, anchor : Nat])
  /\ snaps \in Seq([id : Nat, anchor : Nat, total : Nat, last : 0..MaxDeltas,
                    bound : Nat, levels : SUBSET Level, epoch : Nat])
  /\ heard \in DOMAIN epochs /\ seen \in 0..Len(snaps)
  /\ shorts \subseteq Nat

(***************************************************************************)
(* Whatever the network did, a book the processor reports as served is the *)
(* publisher's book after some delta of this session, complete up to       *)
(* book.last: no level of a lost, duplicated or reordered delta, of a      *)
(* truncated snapshot or of two rotations mixed.  It holds through a       *)
(* rebuild over the live book, and when messages are in order it descends  *)
(* from the newest reset heard or a later one, so a snapshot captured      *)
(* before the reset never reinstates the book the reset discarded.         *)
(***************************************************************************)
ServedIsTruth ==
  serves_a_book(book, now) =>
    \E e \in (IF Fifo THEN heard ELSE 1)..Len(epochs) :
      epochs[e].start <= book.last /\ book.levels = Truth(e, book.last)

(***************************************************************************)
(* A path that is assembling over a live book claims to serve it for at    *)
(* most MAX_REBUILD_SERVE_NS after it last could publish, however many     *)
(* rotations lose their end meanwhile.                                     *)
(***************************************************************************)
ClaimAges ==
  serves_a_book(book, now) /\ book.status # "Ready" =>
    now - readyAt <= MAX_REBUILD_SERVE_NS

(***************************************************************************)
(* A Ready book is re-anchored only on the word of two distinct complete   *)
(* rotations that both called it short with no agreeing one, and no        *)
(* install, in between: a duplicated SnapshotBegin never confirms itself.  *)
(***************************************************************************)
TwoRotations ==
  [][book'.reanchor # book.reanchor => Cardinality(shorts') >= 2]_vars

-----------------------------------------------------------------------------
(***************************************************************************)
(* The inductive invariant behind ServedIsTruth: what the publisher keeps  *)
(* true of its epochs and rotations (PubInv), and what the book keeps true *)
(* of the levels it serves, of the group it assembles and of the anchor it *)
(* requires.                                                               *)
(***************************************************************************)
SnapInv(s) ==
  /\ snaps[s].id = s
  /\ snaps[s].epoch \in DOMAIN epochs
  /\ epochs[snaps[s].epoch].start <= snaps[s].last /\ snaps[s].last <= Len(sent)
  /\ snaps[s].levels = Truth(snaps[s].epoch, snaps[s].last)
  /\ snaps[s].total = Cardinality(snaps[s].levels)
  /\ snaps[s].anchor <= chan
  /\ \A e \in DOMAIN epochs : e > snaps[s].epoch => snaps[s].anchor < epochs[e].anchor
  /\ \A t \in DOMAIN snaps : s <= t => snaps[s].epoch <= snaps[t].epoch

PubInv ==
  /\ \A e \in DOMAIN epochs : epochs[e].start <= Len(sent) /\ epochs[e].anchor <= chan
  /\ \A s \in DOMAIN snaps : SnapInv(s)

Claims(b) ==
  \/ b.status = "Ready"
  \/ b.status = "BuildingSnapshot" /\ b.open # None /\ b.open.over_live_book

\* The book's levels are the publisher's, on an epoch no older than h.
Matches(b, h) ==
  \E e \in (IF Fifo THEN h ELSE 1)..Len(epochs) :
    /\ epochs[e].start <= b.last /\ b.last <= Len(sent)
    /\ b.levels = Truth(e, b.last)

OneLevelPerPrice(L) ==
  \A x, y \in L : x.side = y.side /\ x.price = y.price => x = y

OpenInv(b, h, n) ==
  b.open # None =>
    LET s == b.open.snapshot_id
    IN  /\ s \in DOMAIN snaps
        /\ b.open.anchor_seq = snaps[s].anchor /\ b.open.total_levels = snaps[s].total
        /\ b.open.last_instrument_seq = snaps[s].last
        /\ b.open.levels \subseteq snaps[s].levels /\ OneLevelPerPrice(b.open.levels)
        /\ b.open.received_levels <= Cardinality(b.open.levels)
        /\ Fifo => s <= n /\ snaps[s].epoch >= h

AnchorInv(b, h, n) ==
  Fifo => IF b.required = None
            THEN h = 1 \/ (n \in DOMAIN snaps /\ snaps[n].epoch >= h)
            ELSE b.required = epochs[h].anchor

BookInv(b, h, n) ==
  (Claims(b) => Matches(b, h)) /\ OpenInv(b, h, n) /\ AnchorInv(b, h, n)

IndInv == TypeOK /\ PubInv /\ BookInv(book, heard, seen)
=============================================================================
