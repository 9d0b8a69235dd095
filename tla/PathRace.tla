------------------------------ MODULE PathRace ------------------------------
(***************************************************************************)
(* src/src/ingest/path_race.rs: the matcher that pairs the copies of one   *)
(* trade on two paths by content, as pure operators.  A signature stands   *)
(* for the content; an arrival also names, as history, which print of the  *)
(* venue it is a copy of.  The counts of unmatched trades only feed a      *)
(* metric and are left out.                                                *)
(***************************************************************************)
EXTENDS Integers, Sequences, SequencesExt

CONSTANTS
  Signature,
  NoMatch,                         \* on_trade paired nothing
  window_ns, MAX_PENDING, MAX_PER_SIGNATURE

ASSUME PathRaceAssumption ==
  window_ns \in Nat /\ {MAX_PENDING, MAX_PER_SIGNATURE} \subseteq Nat \ {0}

\* pending: per signature the unmatched arrivals in order; order: every arrival in order,
\* where one that left pending early stays as a tombstone; live: how many wait.
NewRace == [pending |-> [s \in Signature |-> <<>>], order |-> <<>>, live |-> 0]

\* The queue of a signature without its i-th arrival.
Unqueued(r, sig, i) ==
  [r EXCEPT !.pending[sig] = RemoveAt(@, i), !.live = @ - 1]

drop_arrival(r, entry) ==
  LET q == r.pending[entry.sig] IN
  IF \E i \in 1..Len(q) : q[i].recv_ns = entry.at
  THEN Unqueued(r, entry.sig, SelectInSeq(q, LAMBDA a : a.recv_ns = entry.at)) ELSE r

\* The head of order goes while it is older than the window.
evict_stale(r, now) ==
  LET young == SelectInSeq(r.order, LAMBDA e : now - e.at <= window_ns)
      n == IF young = 0 THEN Len(r.order) ELSE young - 1
  IN  FoldLeft(drop_arrival, [r EXCEPT !.order = SubSeq(@, n + 1, Len(@))],
               SubSeq(r.order, 1, n))

\* Whether one more arrival would displace another.
Capped(r, sig) == Len(r.order) >= MAX_PENDING \/ Len(r.pending[sig]) >= MAX_PER_SIGNATURE

\* An arrival that found no peer waits, after the caps made room for it.
push(r, sig, arrival) ==
  LET full  == Len(r.order) >= MAX_PENDING
      room  == IF full THEN drop_arrival([r EXCEPT !.order = Tail(@)], Head(r.order)) ELSE r
      short == IF Len(room.pending[sig]) >= MAX_PER_SIGNATURE
               THEN Unqueued(room, sig, 1) ELSE room
  IN  [short EXCEPT !.order = Append(@, [sig |-> sig, at |-> arrival.recv_ns]),
                    !.pending[sig] = Append(@, arrival), !.live = @ + 1]

\* Mutant: a match takes the newest arrival of the peer.
PeerIn_newest(q, path) == SelectLastInSeq(q, LAMBDA a : a.path # path)

\* The oldest unmatched arrival of another path.
PeerIn(q, path) == SelectInSeq(q, LAMBDA a : a.path # path)

\* on_trade: the race after one path's trade, and the pair it made.
on_trade(r0, sig, arrival) ==
  LET r == evict_stale(r0, arrival.recv_ns)
      i == PeerIn(r.pending[sig], arrival.path)
  IN  IF i = 0 THEN [race |-> push(r, sig, arrival), match |-> NoMatch]
      ELSE [race |-> Unqueued(r, sig, i),
            match |-> [first |-> r.pending[sig][i], second |-> arrival]]
=============================================================================
