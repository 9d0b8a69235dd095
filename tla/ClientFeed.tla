----------------------------- MODULE ClientFeed -----------------------------
(***************************************************************************)
(* The WebSocket sink (src/src/sinks/ws.rs) for one client and one market  *)
(* with an incremental book.  The arbiter folds each batch into the replay *)
(* map and then broadcasts it (BookGate, OrderRace); one task serializes   *)
(* the broadcast for all clients; the client's own task replays the map    *)
(* and forwards the frames of its bounded queue.  A batch sets each of its *)
(* levels to its own number, so a book says which batch each level is from.*)
(* Other markets, other message kinds and the writing of frames are left   *)
(* out: a frame reaches the client in the order it was written.            *)
(***************************************************************************)
EXTENDS Integers, FiniteSets, Sequences, SequencesExt

CONSTANTS
  Level, None, Gone, Dark, Torn,
  MAX_PENDING_CHANGES,        \* model.rs
  backbone_capacity, broadcast_capacity,
  max_subs,
  Touch, Whole,               \* the sets of levels that a batch and a re-baseline name
  MaxBatches, MaxControl      \* bounds: batches; joins, leaves and subscription changes

ASSUME ClientAssumption ==
  /\ {MAX_PENDING_CHANGES, max_subs, MaxBatches, MaxControl} \subseteq Nat
  /\ Touch \subseteq SUBSET Level /\ Whole \subseteq SUBSET Level
  /\ {backbone_capacity, broadcast_capacity} \subseteq Nat \ {0}

\* Filters by what they select: this market, other markets' books, another message type.
Filter == {"market", "books", "quotes"}

VARIABLES
  n, stamp,     \* batches so far; the newest stamp
  truth,        \* history: the book they add up to, or None
  acc,          \* the market's entry of the replay map, or None
  sending,      \* a batch that is folded in and not yet broadcast, or None
  backbone,     \* the broadcast, as the serializer has it to read
  cl, subs, queue, lagged,      \* the client: see NewClient; filters; its queue; a lag in it
  controls                      \* history: joins, leaves and subscription changes so far

market == <<n, stamp, truth, acc, sending>>
vars == <<market, backbone, cl, subs, queue, lagged, controls>>

Empty == [l \in Level |-> 0]

\* The state of serve_client.  at: "off", "join" (rx subscribed, nothing replayed), "select"
\* or, at the top of its loop with a repair to write, "repair"; mark: the watermark, or
\* None; awaiting: "no", "yes" or, past bootstrap_release_deadline, "overdue"; due and
\* paced: a lag repair is owed, and the last one is less than lag_repair_min_interval ago;
\* book: what the client has applied.  History: base, the batch up to which its last whole
\* book has everything; torn, the newest batch it lost for good.
NewClient == [at |-> "off", mark |-> None, awaiting |-> "no", due |-> FALSE, paced |-> FALSE,
              book |-> Empty, base |-> 0, torn |-> 0]

Init ==
  /\ n = 0 /\ stamp = 2 /\ truth = None /\ acc = None /\ sending = None /\ backbone = <<>>
  /\ cl = NewClient /\ subs = {} /\ queue = <<>> /\ lagged = FALSE
  /\ controls = 0

-----------------------------------------------------------------------------
(* The replay map, and the serializer.                                     *)

Put(book, b) ==
  [l \in Level |-> IF l \in b.levels THEN b.n ELSE IF b.clear THEN 0 ELSE book[l]]

PutAll(book, bs) == FoldLeft(Put, book, bs)

NewAcc == [book |-> Empty, pending |-> <<>>, wire_ts |-> 0, pending_wire_ts |-> 0,
           baselined |-> FALSE]

Pending(bs) == FoldLeft(LAMBDA k, b : k + Cardinality(b.levels), 0, bs)

\* BookAccumulator::apply: an event is folded on its last, with the newest of its stamps.
apply(a, b) ==
  LET buf == Append(a.pending, b)
      ts  == IF b.ts > a.pending_wire_ts THEN b.ts ELSE a.pending_wire_ts
  IN  IF b.last
      THEN [book |-> PutAll(a.book, buf), pending |-> <<>>, wire_ts |-> ts,
            pending_wire_ts |-> ts,
            baselined |-> a.baselined \/ \E i \in DOMAIN buf : buf[i].clear]
      ELSE IF Pending(buf) > MAX_PENDING_CHANGES
      THEN [a EXCEPT !.pending = <<>>, !.pending_wire_ts = a.wire_ts, !.baselined = FALSE]
      ELSE [a EXCEPT !.pending = buf, !.pending_wire_ts = ts]

\* The arbiter folds a batch into the replay map, and broadcasts it afterwards.
Fold(b) ==
  /\ sending = None /\ sending' = b /\ n' = n + 1
  /\ stamp' = IF b.ts > stamp THEN b.ts ELSE stamp
  /\ truth' = Put(IF truth = None THEN Empty ELSE truth, b)
  /\ acc' = apply(IF acc = None THEN NewAcc ELSE acc, b)
  /\ UNCHANGED <<backbone, cl, subs, queue, lagged, controls>>

\* Two batches of one datagram share a stamp.  A re-baseline the arbiter makes up is
\* stamped when it is made (to_clear), a batch when its receiver took it off the wire:
\* either may be older than what another receiver's batch published meanwhile.
Stamps == IF n = 0 THEN {stamp} ELSE (stamp - 1) .. (stamp + 1)

\* The first batch of a market is a whole book: the gate sends no other.
Batch ==
  /\ n < MaxBatches /\ acc # None
  /\ \E ls \in Touch, last \in BOOLEAN, ts \in Stamps :
       Fold([n |-> n + 1, clear |-> FALSE, levels |-> ls, last |-> last, ts |-> ts,
             late |-> ts < stamp])

Rebaseline ==
  /\ n < MaxBatches \/ (n = MaxBatches /\ acc # None /\ ~acc.baselined)
  /\ \E ls \in Whole, ts \in Stamps :
       Fold([n |-> n + 1, clear |-> TRUE, levels |-> ls, last |-> TRUE, ts |-> ts,
             late |-> ts < stamp])

\* The market is evicted or its channel departs: the map's entry goes.
Evict ==
  /\ acc # None /\ sending = None /\ n < MaxBatches /\ acc' = None /\ truth' = None
  /\ UNCHANGED <<n, stamp, sending, backbone, cl, subs, queue, lagged, controls>>

\* tx.send: what the serializer has not read when the buffer is full is lost to everyone.
Broadcast ==
  /\ sending # None /\ sending' = None
  /\ LET full == Len(backbone) = backbone_capacity IN
     /\ backbone' = Append(IF full THEN Tail(backbone) ELSE backbone, sending)
     /\ cl' = IF full /\ cl.at # "off" THEN [cl EXCEPT !.torn = Head(backbone).n] ELSE cl
  /\ UNCHANGED <<n, stamp, truth, acc, subs, queue, lagged, controls>>

\* The serializer hands the next message to the clients, or to nobody.
Serialize ==
  /\ backbone # <<>> /\ backbone' = Tail(backbone)
  /\ LET full == Len(queue) = broadcast_capacity IN
     IF cl.at = "off" THEN UNCHANGED <<queue, lagged>>
     ELSE /\ queue' = Append(IF full THEN Tail(queue) ELSE queue, Head(backbone))
          /\ lagged' = (lagged \/ full)
  /\ UNCHANGED <<market, cl, subs, controls>>

-----------------------------------------------------------------------------
(* What the client is sent from the replay map.                            *)

InScope(fs) == fs = {} \/ "market" \in fs
whole(a) == a.baselined /\ a.pending = <<>>

\* The client, sent the market's folded state, with the watermark of that state.  The
\* batches of an open event that it was not sent are lost to it.
Bootstrapped(c) ==
  [c EXCEPT !.awaiting = "no", !.book = acc.book,
            !.base = IF acc.pending = <<>> THEN n ELSE Head(acc.pending).n - 1,
            !.torn = IF acc.pending = <<>> THEN @ ELSE Last(acc.pending).n,
            !.mark = IF acc.wire_ts # 0 THEN [ts |-> acc.wire_ts, expired |-> FALSE] ELSE @]

\* replay_scoped for filters fs: a market that is not whole is withheld.
Replayed(c, fs) ==
  IF acc = None \/ ~InScope(fs) THEN c
  ELSE IF whole(acc) THEN Bootstrapped(c)
  ELSE [c EXCEPT !.awaiting = IF @ = "no" THEN "yes" ELSE @]

\* Mutant: the deadline releases nothing.
Ready_whole(c) == acc # None /\ InScope(subs) /\ whole(acc)

\* withheld_bootstrap, release_withheld
OutOfScope == acc # None /\ ~InScope(subs)
Ready(c) == acc # None /\ InScope(subs) /\ acc.baselined
              /\ (acc.pending = <<>> \/ c.awaiting = "overdue")
Released(c) ==
  IF c.awaiting = "no" THEN c
  ELSE IF OutOfScope THEN [c EXCEPT !.awaiting = "no"]
  ELSE IF Ready(c) THEN Bootstrapped(c) ELSE c

-----------------------------------------------------------------------------
(* The connection and the client's loop.                                   *)

\* lag_repair_ready: the top of the loop discharges an owed repair, unless the last one is
\* too recent.
Top(c) == [c EXCEPT !.at = IF c.due /\ ~c.paced THEN "repair" ELSE "select"]

Control == controls < MaxControl /\ controls' = controls + 1

\* The accept loop subscribes rx; serve_client replays after the handshake.
Accept ==
  /\ Control /\ cl.at = "off" /\ cl' = [NewClient EXCEPT !.at = "join"]
  /\ UNCHANGED <<market, backbone, subs, queue, lagged>>

Join ==
  /\ cl.at = "join" /\ cl' = Top(Replayed(cl, subs))
  /\ UNCHANGED <<market, backbone, subs, queue, lagged, controls>>

\* The client closes, goes silent past idle_timeout or exceeds the inbound rate.
Leave ==
  /\ Control /\ cl.at = "select" /\ cl' = NewClient /\ subs' = {} /\ queue' = <<>>
  /\ lagged' = FALSE
  /\ UNCHANGED <<market, backbone>>

\* The owed repair is written, and the pace runs from then.
LagRepair ==
  /\ cl.at = "repair"
  /\ cl' = Replayed([cl EXCEPT !.at = "select", !.due = FALSE, !.paced = TRUE], subs)
  /\ UNCHANGED <<market, backbone, subs, queue, lagged, controls>>

Subscribe(f) ==
  /\ Control /\ cl.at = "select"
  /\ f \notin subs /\ Cardinality(subs) < max_subs /\ subs' = subs \cup {f}
  /\ cl' = Top(Replayed(cl, {f}))
  /\ UNCHANGED <<market, backbone, queue, lagged>>

Unsubscribe(f) ==
  /\ Control /\ cl.at = "select" /\ f \in subs /\ subs' = subs \ {f}
  /\ cl' = Top(Replayed(cl, subs'))
  /\ UNCHANGED <<market, backbone, queue, lagged>>

\* The sweep looks at a withheld market that no frame comes for.
Sweep ==
  /\ cl.at = "select" /\ cl.awaiting # "no"
  /\ cl' = Top(Released(cl))
  /\ UNCHANGED <<market, backbone, subs, queue, lagged, controls>>

\* A tick of the heartbeat passes by the top of the loop.
Heartbeat ==
  /\ cl.at = "select" /\ cl.due /\ ~cl.paced /\ cl' = Top(cl)
  /\ UNCHANGED <<market, backbone, subs, queue, lagged, controls>>

\* Mutant: a frame that ties with the watermark is dropped too.
Drops_ties(mark, b) == mark # None /\ ~mark.expired /\ b.ts <= mark.ts

\* history: the watermark takes a batch with an old stamp for one the bootstrap has.
Strays(c, b) == b.late /\ b.n > c.base

\* The watermark drops a frame of before the bootstrap, until one passes or it expires.
Drops(mark, b) == mark # None /\ ~mark.expired /\ b.ts < mark.ts

Forwarded(c, b) ==
  IF Drops(c.mark, b)
  THEN [c EXCEPT !.torn = IF Strays(c, b) THEN b.n ELSE @]
  ELSE [c EXCEPT !.mark = None, !.book = IF InScope(subs) THEN Put(@, b) ELSE @,
                 !.base = IF b.clear \/ b.n < @ THEN b.n ELSE @]

\* A frame of a withheld market is also the occasion to release it.
RecvFrame ==
  /\ cl.at = "select" /\ ~lagged /\ queue # <<>> /\ queue' = Tail(queue)
  /\ LET c == Top(Released(cl)) IN
     cl' = IF c.awaiting = "no" THEN Forwarded(c, Head(queue)) ELSE c
  /\ UNCHANGED <<market, backbone, subs, lagged, controls>>

\* A lag: the repair is owed if any of the filters can admit a book.
RecvLagged ==
  /\ cl.at = "select" /\ lagged /\ lagged' = FALSE
  /\ cl' = Top([cl EXCEPT !.due = @ \/ subs # {"quotes"}])
  /\ UNCHANGED <<market, backbone, subs, queue, controls>>

\* Time passes, which is seen where it makes a difference: the pace of repairs, the
\* deadline of a withheld market and that of the watermark.
PaceElapses ==
  /\ cl.paced /\ cl.due /\ cl' = [cl EXCEPT !.paced = FALSE]
  /\ UNCHANGED <<market, backbone, subs, queue, lagged, controls>>

DeadlinePasses ==
  /\ cl.awaiting = "yes" /\ acc # None /\ cl' = [cl EXCEPT !.awaiting = "overdue"]
  /\ UNCHANGED <<market, backbone, subs, queue, lagged, controls>>

MarkExpires ==
  /\ queue # <<>> /\ Drops(cl.mark, Head(queue)) /\ cl' = [cl EXCEPT !.mark.expired = TRUE]
  /\ UNCHANGED <<market, backbone, subs, queue, lagged, controls>>

Arbiter == Batch \/ Rebaseline \/ Evict \/ Broadcast
Loop == LagRepair \/ Sweep \/ Heartbeat \/ RecvFrame \/ RecvLagged
Clocks == PaceElapses \/ DeadlinePasses \/ MarkExpires

Next ==
  \/ Arbiter \/ Serialize \/ Loop \/ Clocks \/ Accept \/ Join \/ Leave
  \/ \E f \in Filter : Subscribe(f) \/ Unsubscribe(f)

\* The tasks run, the client task takes some ready branch of its select! while it has one
\* (a client that stays connected reads), the clock advances, and the arbiter sends a
\* market that lost completeness whole again (Heals of BookGate).
Fairness ==
  /\ WF_vars(Broadcast) /\ WF_vars(Serialize) /\ WF_vars(Join \/ Loop)
  /\ WF_vars(PaceElapses \/ DeadlinePasses)
  /\ WF_vars(acc # None /\ ~acc.baselined /\ Rebaseline)

Spec == Init /\ [][Next]_vars /\ Fairness

-----------------------------------------------------------------------------
(* What the client is promised.                                            *)

\* The frames on their way to the client that its watermark lets pass.
OnItsWay == queue \o backbone \o IF sending = None THEN <<>> ELSE <<sending>>
Passing ==
  LET first == SelectInSeq(OnItsWay, LAMBDA b : ~Drops(cl.mark, b)) IN
  IF first = 0 THEN <<>> ELSE SubSeq(OnItsWay, first, Len(OnItsWay))

Connected == cl.at # "off" /\ InScope(subs)
KnownDark ==
  ~Connected \/ truth = None \/ cl.at = "join" \/ cl.awaiting # "no" \/ cl.due \/ lagged

\* The newest batch the client lost or is about to.  A loss stays until a whole book with
\* the batch arrives, and comes back if batches from before it are applied on top of that.
Lost ==
  Max({cl.torn} \cup {b.n : b \in {b \in Range(OnItsWay) \ Range(Passing) : Strays(cl, b)}})
IsTorn ==
  /\ \/ cl.base < Lost
     \/ \E i \in DOMAIN Passing : Passing[i].n < Lost
  /\ \A i \in DOMAIN Passing : ~(Passing[i].clear /\ Passing[i].n > Lost)

View == INSTANCE ClientView WITH
  Book <- [Level -> 0 .. MaxBatches + 1],
  published <- IF truth = None THEN Gone ELSE truth,
  wanted <- Connected,
  view <- IF KnownDark THEN Dark ELSE IF IsTorn THEN Torn ELSE PutAll(cl.book, Passing)

\* The sink keeps the promise of ClientView: a client that the server takes for current
\* holds the published book once what is queued has arrived, however its join, its lags,
\* its scope and the repairs interleave with the events of the market; only the deadline
\* of an open event, a lag of the serializer itself and a batch stamped before the bootstrap
\* and published after it tear it.
KeepsPromise == View!ViewSpec

\* Every lag is repaired and every withheld market released in the end, although repairs
\* are paced and a market may be in the middle of an event whenever one is due.
BootstrapComes == View!BootstrapComes
=============================================================================
