------------------------------ MODULE MCLanes ------------------------------
(***************************************************************************)
(* Instances for TLC of the machines that stand by themselves.  Races in   *)
(* which the first copy of an event wins over its mirrors: the orders of a *)
(* channel (OrderRace), by itself the venue clock of a channel with any    *)
(* stamps (VenueClock), the tape of a symbol (TapeGate), the shreds of a   *)
(* chain (ShredForwarder).  Outlets of what won: the order channel of the  *)
(* Hyperliquid sink (OrderSink) and the trade history (History).  They     *)
(* share no variable; a behaviour is of one of them, its lane, and the     *)
(* others stay as they began.                                              *)
(***************************************************************************)
EXTENDS OrderRace, VenueClock, TapeGate, ShredForwarder, OrderSink, History

CONSTANTS p1, p2, m1, o1, o2, k1, k2, k3, Lanes

Paths == {p1, p2}
OneMarket == {m1}
TwoOrders == (m1 :> <<1, 2>>)
Sizes == 1 :> 2 @@ 2 :> 1
Products == {k1, k2, k3}
Channels == {{k1, k2}, {k3}}
SinkOrders == {o1, o2}

\* Each lane has one pair that may be swapped; all are at once, which is the same for it.
Swap(a, b) == a :> b @@ b :> a
Swapped == Swap(p1, p2) @@ Swap(o1, o2) @@ Swap(k1, k2)
Symmetry ==
  {f \in Permutations(DOMAIN Swapped) : f = Swapped \/ \A x \in DOMAIN Swapped : f[x] = x}

VARIABLE lane
laneVars == <<lane, vars, clockVars, tapeVars, shredVars, sinkVars, historyVars>>
MCInit ==
  /\ lane \in Lanes
  /\ Init /\ ClockInit /\ TapeInit /\ ShredInit /\ SinkInit /\ HistoryInit
  /\ lane # "tape" => sticky /\ noId = {}
  /\ lane # "shreds" => mode = "dedup"
Only(l, others) == lane = l /\ UNCHANGED <<lane, others>>
\* Bounds besides those of the lanes: a lost print or an election; a batch or a fault.
MCNext ==
  \/ Only("orders", <<clockVars, tapeVars, shredVars, sinkVars, historyVars>>) /\ Next
  \/ Only("clock", <<vars, tapeVars, shredVars, sinkVars, historyVars>>) /\ ClockNext
  \/ Only("tape", <<vars, clockVars, shredVars, sinkVars, historyVars>>) /\ TapeNext
       /\ tapeLog'.lost + tapeLog'.term <= MaxTerms
  \/ Only("shreds", <<vars, clockVars, tapeVars, sinkVars, historyVars>>) /\ ShredNext
  \/ Only("sink", <<vars, clockVars, tapeVars, shredVars, historyVars>>) /\ SinkNext
       /\ market'.n + sinkFaults' <= MaxSinkBatches
  \/ Only("history", <<vars, clockVars, tapeVars, shredVars, sinkVars>>) /\ HistoryNext
MCSpec == MCInit /\ [][MCNext]_laneVars

-----------------------------------------------------------------------------
(* The view.  An instant is read only to compare its age with a window, so *)
(* states that agree on the ages behave alike; and so do those that differ *)
(* in the order of events that every path is past, or in how often a batch *)
(* changes an order to the same end.                                       *)

Clip(t, d) == IF t = None \/ t >= now - d THEN t ELSE now - d
Lagging == Min(Range(pos))
SizeIn(l, m, o) ==
  LET mine == SelectSeq(l, LAMBDA e : e.m = m /\ e.o = o)
  IN  IF mine = <<>> THEN None ELSE Last(mine).size
OrdersView ==
  <<now, behind, faults, book, known, held, wire, Len(log),
    [m \in Market |-> [o \in Order(m) |-> SizeIn(SubSeq(log, 1, Lagging), m, o)]],
    IF log = <<>> THEN None ELSE Last(log).ts,
    SubSeq(log, Lagging + 1, Len(log)), pos,
    [clock EXCEPT !.moved_at = Clip(@, reseat_after_ns), !.ahead_since = Clip(@, reseat_after_ns)],
    [m \in Market |-> expire(ev[m], now)],
    [m \in Market |-> IF bm[m].rebaselined_ns = 0 THEN bm[m]
       ELSE [bm[m] EXCEPT !.rebaselined_ns = Clip(@, FORCED_REBASELINE_MIN_INTERVAL_NS)]],
    [p \in Path |-> [m \in Market |->
       IF sync[p][m] = None \/ sync[p][m].last_batch_ns = 0 THEN sync[p][m]
       ELSE [sync[p][m] EXCEPT !.last_batch_ns = Clip(@, PEER_SERVING_NS + 1)]]]>>

Age(t, d) == IF tnow - t > d THEN d + 1 ELSE tnow - t

AgedLead(lead) ==
  IF lead = Nobody THEN lead ELSE [lead EXCEPT !.last_ns = Age(@, NO_ID_TAPE_HANDOVER_NS)]

AgedRace ==
  [race EXCEPT
     !.order = [i \in DOMAIN @ |-> [@[i] EXCEPT !.at = Age(@, window_ns)]],
     !.pending = [g \in Signature |-> [i \in DOMAIN race.pending[g] |->
                    [race.pending[g][i] EXCEPT !.recv_ns = Age(@, window_ns)]]]]

TapeView ==
  <<sticky, noId, tpos, tracked, elected, out, tapeLog, ids,
    [k \in DOMAIN prints |-> [prints[k] EXCEPT !.at = Age(@, TapeLag)]],
    AgedLead(tlead), AgedLead(noIdOwner), AgedRace>>

\* What a batch leaves each order it names at, and what was told of it.
Net(b, told) ==
  IF b.clear THEN b.orders
  ELSE {<<o, FinalSize(b.changes, o),
          {told[i] : i \in {j \in DOMAIN told : b.changes[j].order = o}} \ {"remove"}>> :
          o \in Names(b)}

Unsent(b) ==
  Net(b, IF b.clear THEN <<>> ELSE [i \in DOMAIN b.changes |-> raw_diff(b.changes[i].size, 0)])

SinkView ==
  <<[market EXCEPT !.sending = IF @ = Absent THEN @ ELSE Unsent(@)],
    [stage EXCEPT !.queue = [i \in DOMAIN @ |-> <<@[i].n, Unsent(@[i].batch)>>]],
    [viewer EXCEPT !.queue = [i \in DOMAIN @ |->
       IF @[i] \in {Bare, Resync} THEN @[i] ELSE <<@[i].n, Net(@[i].batch, @[i].told)>>]],
    sinkControls, sinkFaults>>

View ==
  <<lane, CASE lane = "orders" -> OrdersView [] lane = "tape" -> TapeView
            [] lane = "clock" -> clockVars [] lane = "shreds" -> shredVars
            [] lane = "sink" -> SinkView [] lane = "history" -> historyVars>>
=============================================================================
