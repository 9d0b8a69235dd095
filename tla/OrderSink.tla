----------------------------- MODULE OrderSink -----------------------------
(***************************************************************************)
(* The l4Book channel of the Hyperliquid sink                              *)
(* (src/src/sinks/hyperliquid.rs): the orders of one market, from the      *)
(* arbiter's broadcast through the stage that renders each batch once for  *)
(* all clients to one client.  The stage renders only what some client     *)
(* claims to want, and says of each change whether the order is new to its *)
(* reader; a client is bootstrapped from the replay map, which is ahead of *)
(* what is still queued for it.                                            *)
(*                                                                         *)
(* A coin is one market here and a batch a whole event; l2Book and trades, *)
(* which are full state, the caps on tracked orders and on clients, and    *)
(* pings are left out.                                                     *)
(***************************************************************************)
EXTENDS Integers, Sequences, SequencesExt

CONSTANTS
  SinkOrder, MaxSize,
  Absent, Bare, Resync,    \* no entry; messages: nothing rendered; the stage lagged
  sink_backbone, PREPARED_CAPACITY,
  MaxSinkBatches,          \* bounds: batches,
  MaxChanges,              \* changes of one,
  MaxSinkControls,         \* connections, subscriptions and claims of others,
  MaxSinkFaults            \* markets dropped from the map or evicted by the stage

\* A batch is a whole book, led by a clear, or the changes of one datagram, several of which
\* may be of one order; a frame is one rendered for the clients, with what each change is
\* told as.
Batch == [clear : {TRUE}, orders : [SinkOrder -> Nat]] \cup
         [clear : {FALSE}, changes : Seq([order : SinkOrder, size : Nat])]
Frame == [n : Nat, batch : Batch, told : Seq({"unsure", "remove", "update", "new"})]

ASSUME SinkConstants ==
  /\ {MaxSize, MaxChanges, sink_backbone, PREPARED_CAPACITY} \subseteq Nat \ {0}
  /\ {MaxSinkBatches, MaxSinkControls, MaxSinkFaults} \subseteq Nat
  /\ Bare # Resync /\ Bare \notin Frame /\ Resync \notin Frame
  /\ Absent \notin Batch
  /\ Absent \notin [orders : [SinkOrder -> Nat], baselined : BOOLEAN, order_level : BOOLEAN]
  /\ Absent \notin [sizes : [SinkOrder -> Nat], order_level : BOOLEAN]

VARIABLES
  market,      \* n, the batches so far; acc, the replay map's entry; sending, folded into
               \* it and not yet broadcast
  stage,       \* queue and lagged, of the broadcast; published, or Absent; others, another
               \* client's claim.  History: sure, the first batch its sizes are right for
  viewer,      \* the client: see NewViewer
  sinkControls, sinkFaults    \* history: how many so far

sinkVars == <<market, stage, viewer, sinkControls, sinkFaults>>

NoOrders == [o \in SinkOrder |-> 0]

\* at: "off", "select", "claimed" or, subscribed, "on"; paced: rebootstrapped less than
\* REBOOTSTRAP_MIN_INTERVAL ago.  History: base, the batch its last whole book is of, or -1;
\* holed, a rendered frame is queued before one that is not, or it was given no book after a
\* gap; misfit, it was told "new" of an order it held before the batch, or "update" of one
\* it did not.
NewViewer == [at |-> "off", queue |-> <<>>, lagged |-> FALSE, paced |-> FALSE,
              book |-> NoOrders, base |-> -1, holed |-> FALSE, misfit |-> FALSE]

SinkInit ==
  /\ market = [n |-> 0, acc |-> Absent, sending |-> Absent]
  /\ stage = [queue |-> <<>>, lagged |-> FALSE, published |-> Absent, others |-> FALSE,
              sure |-> 1]
  /\ viewer = NewViewer /\ sinkControls = 0 /\ sinkFaults = 0

Control == sinkControls < MaxSinkControls /\ sinkControls' = sinkControls + 1
SinkFault == sinkFaults < MaxSinkFaults /\ sinkFaults' = sinkFaults + 1

-----------------------------------------------------------------------------
(* The replay map and the broadcast.                                       *)

Names(b) ==
  IF b.clear THEN {o \in SinkOrder : b.orders[o] # 0}
  ELSE {b.changes[i].order : i \in DOMAIN b.changes}

\* What the changes of a batch leave an order they name at.
FinalSize(changes, o) ==
  LET mine == {i \in DOMAIN changes : changes[i].order = o}
  IN  changes[CHOOSE i \in mine : \A j \in mine : j <= i].size

Put(orders, b) ==
  IF b.clear THEN b.orders
  ELSE [o \in SinkOrder |-> IF o \in Names(b) THEN FinalSize(b.changes, o) ELSE orders[o]]

Publish(b) ==
  /\ market.n < MaxSinkBatches /\ market.sending = Absent
  /\ LET a == IF market.acc = Absent
                THEN [orders |-> NoOrders, baselined |-> FALSE, order_level |-> FALSE]
                ELSE market.acc
     IN  market' = [n |-> market.n + 1, sending |-> b,
                    acc |-> [orders |-> Put(a.orders, b), baselined |-> a.baselined \/ b.clear,
                             order_level |-> a.order_level \/ Names(b) # {}]]
  /\ UNCHANGED <<stage, viewer, sinkControls, sinkFaults>>

\* A broadcast buffer drops its oldest, and its reader is told.
Push(r, x, capacity) ==
  IF Len(r.queue) < capacity THEN [r EXCEPT !.queue = Append(@, x)]
  ELSE [r EXCEPT !.queue = Append(Tail(@), x), !.lagged = TRUE]

Broadcast ==
  /\ market.sending # Absent
  /\ market' = [market EXCEPT !.sending = Absent]
  /\ stage' = Push(stage, [n |-> market.n, batch |-> market.sending], sink_backbone)
  /\ UNCHANGED <<viewer, sinkControls, sinkFaults>>

\* The market is reset or evicted, or its channel departs.
ForgetMarket ==
  /\ market.acc # Absent /\ market.sending = Absent /\ SinkFault
  /\ market' = [market EXCEPT !.acc = Absent]
  /\ UNCHANGED <<stage, viewer, sinkControls>>

publishable(a) == a # Absent /\ a.baselined /\ a.order_level

-----------------------------------------------------------------------------
(* The stage.                                                              *)

Claimed == viewer.at \in {"claimed", "on"} \/ stage.others

\* raw_diff: the variant by what this channel last published for the order.
raw_diff(size, published) ==
  IF size = 0 THEN "remove" ELSE IF published # 0 THEN "update" ELSE "new"

\* MarketOrders::apply.
Applied(p, b) ==
  [sizes |-> Put(p.sizes, b), order_level |-> p.order_level \/ Names(b) # {}]

\* The sizes of a market that the stage met first, or evicted, start from nothing.
Seeded ==
  IF stage.published # Absent THEN stage.published
  ELSE [sizes |-> NoOrders, order_level |-> market.acc # Absent /\ market.acc.order_level]

\* A re-baseline is rendered as a snapshot, from the batch; other batches as a diff, each
\* change against the sizes before the batch: of one order, an add and a fill are told as
\* new and new, a removal and an add as remove and update.
render(p, m) ==
  LET b == m.batch IN
  IF b.clear
  THEN IF Applied(p, b).order_level THEN [n |-> m.n, batch |-> b, told |-> <<>>] ELSE Bare
  ELSE [n |-> m.n, batch |-> b,
        told |-> [i \in DOMAIN b.changes |->
          IF m.n < stage.sure THEN "unsure"
          ELSE raw_diff(b.changes[i].size, p.sizes[b.changes[i].order])]]

\* history: a clear went unrendered to a client that holds orders or has some on their way.
Unheard(x) ==
  viewer.at = "on" /\ x = Bare /\ (viewer.book # NoOrders \/ Range(viewer.queue) \ {Bare, Resync} # {})

ToViewer(x) ==
  viewer' = IF viewer.at = "off" THEN viewer
            ELSE [Push(viewer, x, PREPARED_CAPACITY) EXCEPT !.holed = @ \/ Unheard(x)]

prepare_one ==
  /\ ~stage.lagged /\ stage.queue # <<>>
  /\ LET m == Head(stage.queue) IN
     /\ ToViewer(IF Claimed THEN render(Seeded, m) ELSE Bare)
     /\ stage' = [stage EXCEPT !.queue = Tail(@), !.published = Applied(Seeded, m.batch),
                               !.sure = IF m.batch.clear THEN m.n ELSE @]
  /\ UNCHANGED <<market, sinkControls, sinkFaults>>

\* Mutant: the sizes are dropped.
reseed_nothing(a) == Absent

\* From the map, which every client is about to be bootstrapped from.
reseed_published(a) ==
  IF a # Absent /\ a.order_level
    THEN [sizes |-> a.orders, order_level |-> TRUE] ELSE Absent

\* The stage fell behind: what it lost goes to no client, and each must start over.
StageLagged ==
  /\ stage.lagged
  /\ stage' = [stage EXCEPT !.lagged = FALSE, !.published = reseed_published(market.acc),
                            !.sure = market.n + 1]
  /\ ToViewer(Resync)
  /\ UNCHANGED <<market, sinkControls, sinkFaults>>

\* Another market takes the slot (MAX_TRACKED_MARKETS).
EvictPublished ==
  /\ stage.published # Absent /\ SinkFault
  /\ stage' = [stage EXCEPT !.published = Absent, !.sure = MaxSinkBatches + 1]
  /\ UNCHANGED <<market, viewer, sinkControls>>

\* Another client claims the coin, or lets go of it.
OthersClaim ==
  /\ Control /\ stage' = [stage EXCEPT !.others = ~@]
  /\ UNCHANGED <<market, viewer, sinkFaults>>

-----------------------------------------------------------------------------
(* The client's task.                                                      *)

Holed(q) == \E j \in DOMAIN q : q[j] = Bare /\ \E i \in 1 .. j - 1 : q[i] \notin {Bare, Resync}

\* What the map has for the client; nothing, while the market is withheld, and then a client
\* that lost batches keeps the orders it held.
bootstrap(v) ==
  IF publishable(market.acc)
    THEN [v EXCEPT !.book = market.acc.orders, !.base = market.n, !.holed = Holed(v.queue)]
    ELSE [v EXCEPT !.base = -1, !.holed = @ \/ Holed(v.queue) \/ v.book # NoOrders]

Connect ==
  /\ viewer.at = "off" /\ Control /\ viewer' = [NewViewer EXCEPT !.at = "select"]
  /\ UNCHANGED <<market, stage, sinkFaults>>

Close ==
  /\ viewer.at \in {"select", "on"} /\ Control /\ viewer' = NewViewer
  /\ UNCHANGED <<market, stage, sinkFaults>>

\* Subscribe: the claim comes before the bootstrap is read.
Subscribe ==
  /\ viewer.at = "select" /\ Control
  /\ viewer' = [viewer EXCEPT !.at = "claimed", !.book = NoOrders]
  /\ UNCHANGED <<market, stage, sinkFaults>>

Bootstrap ==
  /\ viewer.at = "claimed" /\ viewer' = bootstrap([viewer EXCEPT !.at = "on"])
  /\ UNCHANGED <<market, stage, sinkControls, sinkFaults>>

Unsubscribe ==
  /\ viewer.at = "on" /\ Control
  /\ viewer' = [viewer EXCEPT !.at = "select", !.base = -1]
  /\ UNCHANGED <<market, stage, sinkFaults>>

\* One in REBOOTSTRAP_MIN_INTERVAL; the next gap ends the connection.
rebootstrap(v) ==
  IF v.paced THEN NewViewer
  ELSE IF v.at = "on" THEN bootstrap([v EXCEPT !.paced = TRUE])
  ELSE [v EXCEPT !.paced = TRUE]

\* A change is told against what the client holds before it reads the frame.
Misfits(v, x) ==
  /\ ~x.batch.clear
  /\ \E i \in DOMAIN x.batch.changes :
       x.told[i] = (IF v.book[x.batch.changes[i].order] # 0 THEN "new" ELSE "update")

\* What a client makes of a frame.
Shown(v, x) ==
  [v EXCEPT !.book = Put(@, x.batch),
     !.base = IF x.batch.clear THEN x.n ELSE @,
     !.holed = IF x.batch.clear THEN Bare \in Range(v.queue) ELSE @,
     !.misfit = @ \/ (v.base >= 0 /\ x.n > v.base /\ ~v.holed /\ Misfits(v, x))]

Recv ==
  /\ viewer.at \in {"select", "on"} /\ ~viewer.lagged /\ viewer.queue # <<>>
  /\ LET x == Head(viewer.queue)
         v == [viewer EXCEPT !.queue = Tail(@)]
     IN  viewer' = IF v.at = "select" \/ x = Bare THEN v
                   ELSE IF x = Resync THEN rebootstrap(v)
                   ELSE Shown(v, x)
  /\ UNCHANGED <<market, stage, sinkControls, sinkFaults>>

ClientLagged ==
  /\ viewer.at \in {"select", "on"} /\ viewer.lagged
  /\ viewer' = rebootstrap([viewer EXCEPT !.lagged = FALSE])
  /\ UNCHANGED <<market, stage, sinkControls, sinkFaults>>

IntervalPasses ==
  /\ viewer.paced /\ viewer' = [viewer EXCEPT !.paced = FALSE]
  /\ UNCHANGED <<market, stage, sinkControls, sinkFaults>>

SinkNext ==
  \/ \E f \in [SinkOrder -> 0..MaxSize] : Publish([clear |-> TRUE, orders |-> f])
  \/ \E k \in 1..MaxChanges : \E c \in [1..k -> [order : SinkOrder, size : 0..MaxSize]] :
       Publish([clear |-> FALSE, changes |-> c])
  \/ Broadcast \/ ForgetMarket
  \/ prepare_one \/ StageLagged \/ EvictPublished \/ OthersClaim
  \/ Connect \/ Close \/ Subscribe \/ Bootstrap \/ Unsubscribe
  \/ Recv \/ ClientLagged \/ IntervalPasses

SinkSpec == SinkInit /\ [][SinkNext]_sinkVars

-----------------------------------------------------------------------------
Drained ==
  /\ market.sending = Absent /\ stage.queue = <<>> /\ ~stage.lagged
  /\ viewer.queue = <<>> /\ ~viewer.lagged

\* serve_client, prepare_one, reseed_published: a subscriber that has read what was queued
\* for it holds the orders of the market, whatever the stage or its own queue lost and
\* however far the map was ahead at its bootstrap; and past that point "new" and "update"
\* say whether it held the order before the batch, whatever else the batch does to it.
\* Excepted are frames rendered for an earlier claim on the coin, queued with batches
\* rendered for none behind them; a gap met while the market is withheld; sizes the stage
\* evicted; and a bare clear that the stage, knowing no orders of the market, renders for
\* nobody while the client holds some or has some on their way.
L4Follows ==
  /\ viewer.at = "on" /\ Drained /\ publishable(market.acc) /\ ~viewer.holed
       => viewer.book = market.acc.orders
  /\ ~viewer.misfit
=============================================================================
