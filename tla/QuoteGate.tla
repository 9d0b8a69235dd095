----------------------------- MODULE QuoteGate -----------------------------
(***************************************************************************)
(* The quote arm of Arbiter::emit_scoped (src/src/ingest/arbiter.rs) for   *)
(* one key: the UpdateIdFloor, which orders the copies of several paths by *)
(* the low bits of the venue's update counter, and the StalenessFloor on   *)
(* source_ts that takes the key when no ID orders it.                      *)
(*                                                                         *)
(* The venue numbers its updates without wrapping, at most Rate per tick   *)
(* of the clock; a quote of update n carries n modulo 2 * HALF.  Every     *)
(* path carries every update, and its copies are lost, repeated and        *)
(* reordered but never later than Delay.  HALF stands for 2^31.            *)
(***************************************************************************)
EXTENDS Integers, Sequences

CONSTANTS
  None,
  Path,         \* Transport
  HALF,
  max_jump, QUOTE_ID_REGIME_TIMEOUT_NS, QUOTE_ID_DISABLE_NS, MAX_FUTURE_SKEW_NS,
  QUOTE_TICK_CAP,
  Encoders,     \* what the paths may put in the field: [Path -> Encoding]
  Padding,      \* what an encoder older than the field leaves there
  Scale,        \* the instrument definitions in flight
  Stamped,      \* whether quotes carry a source_ts
  Ahead,        \* how far the venue's clock is ahead of the host's
  Rate, Delay,
  First,        \* bounds: the counter before the first update,
  MaxUpdates,   \* the updates of a behaviour,
  MaxTime       \* and the clock

Encoding == {"counter", "none", "padding"}

ASSUME QuoteConstants ==
  /\ HALF \in Nat \ {0} /\ Padding \in 1..(2 * HALF - 1)
  /\ {max_jump, QUOTE_ID_DISABLE_NS, MAX_FUTURE_SKEW_NS, Ahead, Delay, First,
      MaxUpdates, MaxTime} \subseteq Nat
  /\ QUOTE_ID_REGIME_TIMEOUT_NS \in Nat \ {0} /\ QUOTE_TICK_CAP \in Nat \ {0} /\ Rate \in Nat \ {0}
  /\ Encoders \subseteq [Path -> Encoding]
  /\ Stamped \in BOOLEAN
  /\ None \notin Int

\* What the timeout is sized for: the counter moves less than half its ring while the
\* key holds an ID, the copies still under way included.
ASSUME HalfRing ==
  Rate * (QUOTE_ID_REGIME_TIMEOUT_NS + Delay) <= HALF

VARIABLES
  ids,       \* UpdateIdState of the key, None outside the ID regime
  disabled,  \* until when the source does not use the field, or None
  floor,     \* TickState of the key, None before its first quote
  published, \* published[i]: when the venue published update First + i
  encoder,   \* what each path puts in the field
  now,       \* the host's clocks
  verdict,   \* history: what the gate made of the last quote of this tick
  sent       \* history: when it last forwarded one, and the newest source_ts it did

vars == <<ids, disabled, floor, published, encoder, now, verdict, sent>>

Updates == First + 1 .. First + Len(published)
At(n) == published[n - First]

\* The Venue Update ID a path's quote of update n carries, 0 for none.
venue_update_id(p, n) ==
  CASE encoder[p] = "counter" -> n % (2 * HALF)
    [] encoder[p] = "none"    -> 0
    [] encoder[p] = "padding" -> Padding

source_ts_ns(n) == IF Stamped THEN At(n) + Ahead + 1 ELSE 0

Init ==
  /\ ids = None /\ disabled = None /\ floor = None
  /\ published = <<>> /\ encoder \in Encoders /\ now = 0
  /\ verdict = None /\ sent = [at |-> None, ts |-> 0]

-----------------------------------------------------------------------------
(* UpdateIdFloor.                                                          *)

advance(a, b) == (a - b) % (2 * HALF)

\* Mutant: plain comparison.
newer_unwrapped(a, b) == a > b

update_id_newer(a, b) == advance(a, b) \in 1..(HALF - 1)

\* Within the cap in either direction.
near(a, b) == advance(a, b) <= max_jump \/ advance(b, a) <= max_jump

Ordinary(st, id) == update_id_newer(id, st.last) /\ advance(id, st.last) <= max_jump

\* Mutant: a key once in the regime stays in it.
Expired_never(st, t) == FALSE

Expired(st, t) == t - st.last_admit_ns >= QUOTE_ID_REGIME_TIMEOUT_NS

\* Mutant: any difference between two copies of one ID is a conflict.
Conflicts_any(st, content) == content # st.content

\* Two copies of one ID, scaled under one definition, that differ.
Conflicts(st, content) == content.scale = st.content.scale /\ content # st.content

\* A refused ID of another path that confirms the jump held as a candidate.
Corroborates(st, id, p) ==
  st.candidate # None /\ st.candidate.from # p /\ near(id, st.candidate.id)

\* The verdict on one quote and the key's ID state after it.
judge(st, id, content, p, t) ==
  LET admitted == [st |-> [last |-> id, content |-> content, last_admit_ns |-> t,
                           candidate |-> None], out |-> "admit"]
      refused(s, why) == [st |-> s, out |-> why]
  IN  CASE st = None \/ Expired(st, t) ->
             IF id = 0 THEN refused(None, "legacy") ELSE admitted
        [] OTHER ->
             IF id = 0 THEN refused(st, "regime")
             ELSE IF id = st.last
               THEN refused(st, IF Conflicts(st, content) THEN "conflict" ELSE "duplicate")
             ELSE IF Ordinary(st, id) \/ Corroborates(st, id, p) THEN admitted
             ELSE IF update_id_newer(id, st.last)
               THEN refused([st EXCEPT !.candidate = [id |-> id, from |-> p]], "jump")
             ELSE refused(st, "stale")

-----------------------------------------------------------------------------
(* StalenessFloor::admit, for the quote of content n stamped ts from p.    *)

Opened(ts, n, p) == [high_water |-> ts, leader |-> p, order |-> <<n>>]

Kept(order) == IF Len(order) > QUOTE_TICK_CAP THEN Tail(order) ELSE order

Leads(f, ts, n, p) ==
  /\ ts = f.high_water /\ p = f.leader
  /\ \A i \in DOMAIN f.order : f.order[i] # n

FloorAdmits(f, ts, n, p) == f = None \/ ts > f.high_water \/ Leads(f, ts, n, p)

FloorAfter(f, ts, n, p) ==
  IF f # None /\ Leads(f, ts, n, p) THEN [f EXCEPT !.order = Kept(Append(@, n))]
  ELSE IF FloorAdmits(f, ts, n, p) THEN Opened(ts, n, p)
  ELSE f

-----------------------------------------------------------------------------
Forward(n, by) ==
  /\ verdict' = [n |-> n, out |-> by]
  /\ sent' = [at |-> now, ts |-> IF source_ts_ns(n) > sent.ts THEN source_ts_ns(n) ELSE sent.ts]

Refuse(n, why) ==
  /\ verdict' = [n |-> n, out |-> why]
  /\ UNCHANGED sent

Future(n) == source_ts_ns(n) > now + MAX_FUTURE_SKEW_NS

\* The floor, or the bypass of a quote without a source_ts.
Legacy(p, n) ==
  LET ts == source_ts_ns(n)
  IN  \/ /\ ts = 0
         /\ Forward(n, "floor") /\ UNCHANGED floor
      \/ /\ ts # 0 /\ Future(n)
         /\ Refuse(n, "future") /\ UNCHANGED floor
      \/ /\ ts # 0 /\ ~Future(n)
         /\ floor' = FloorAfter(floor, ts, n, p)
         /\ IF FloorAdmits(floor, ts, n, p) THEN Forward(n, "floor") ELSE Refuse(n, "late")

\* judge_update_id: a disabled source takes the floor until its time is over.
Disabled == disabled # None /\ now < disabled

Judged(p, n, scale) ==
  LET j == judge(ids, venue_update_id(p, n), [n |-> n, scale |-> scale], p, now)
  IN  /\ ids' = IF j.out = "conflict" THEN None ELSE j.st
      /\ disabled' = IF j.out = "conflict" THEN now + QUOTE_ID_DISABLE_NS ELSE None
      /\ CASE j.out = "legacy" -> Legacy(p, n)
           [] j.out = "admit"  -> Forward(n, "id") /\ UNCHANGED floor
           [] OTHER            -> Refuse(n, j.out) /\ UNCHANGED floor

\* The quote of update n from p reaches emit_scoped.
Quote(p, n, scale) ==
  /\ now - At(n) <= Delay
  /\ \/ /\ (venue_update_id(p, n) = 0 /\ ids = None) \/ Disabled
        /\ Legacy(p, n)
        /\ UNCHANGED <<ids, disabled>>
     \/ /\ (venue_update_id(p, n) # 0 \/ ids # None) /\ ~Disabled
        /\ IF Future(n)
             THEN /\ disabled' = None
                  /\ Refuse(n, "future") /\ UNCHANGED <<ids, floor>>
             ELSE Judged(p, n, scale)
  /\ UNCHANGED <<published, encoder, now>>

Publish ==
  /\ Len(published) < MaxUpdates
  /\ Len(published) >= Rate => published[Len(published) + 1 - Rate] < now
  /\ published' = Append(published, now)
  /\ UNCHANGED <<ids, disabled, floor, encoder, now, verdict, sent>>

\* The clock stands still at its bound.
Tick ==
  /\ now' = IF now < MaxTime THEN now + 1 ELSE now
  /\ verdict' = None
  /\ UNCHANGED <<ids, disabled, floor, published, encoder, sent>>

Next ==
  \/ \E p \in Path, n \in Updates, scale \in Scale : Quote(p, n, scale)
  \/ Publish
  \/ Tick

Spec == Init /\ [][Next]_vars

-----------------------------------------------------------------------------
Content == [n : Nat, scale : Scale]
Candidate == [id : 1..(2 * HALF - 1), from : Path]
UpdateIdState == [last : 1..(2 * HALF - 1), content : Content, last_admit_ns : Nat,
                  candidate : Candidate \cup {None}]
TickState == [high_water : Nat, leader : Path, order : Seq(Nat)]
Outcome == {"id", "floor", "regime", "duplicate", "conflict", "jump", "stale", "future", "late"}

\* The key is well formed; a source that is switched off holds no ID state, and what
\* the floor remembers of a tick keeps its cap.
TypeOK ==
  /\ ids \in UpdateIdState \cup {None}
  /\ disabled \in Nat \cup {None} /\ (Disabled => ids = None)
  /\ floor \in TickState \cup {None}
  /\ floor # None => Len(floor.order) \in 1..QUOTE_TICK_CAP
  /\ published \in Seq(Nat) /\ encoder \in [Path -> Encoding] /\ now \in Nat
  /\ verdict \in [n : Nat, out : Outcome] \cup {None}
  /\ sent \in [at : Nat \cup {None}, ts : Nat]

Counters == \A p \in Path : encoder[p] # "padding"

\* UpdateIdFloor::judge: while a key holds an ID that has not timed out, no quote older
\* than, or as old as, the one it holds goes out, across the counter's wrap, a held
\* jump and a refused ID that confirms it.
NoRegress ==
  [][Counters /\ ids # None /\ ids' # None /\ ~Expired(ids, now)
       /\ ids'.content # ids.content
     => ids'.content.n > ids.content.n]_vars

\* judge_update_id: paths that carry the venue's counter never switch it off, although
\* the counter wraps and two definitions of the instrument may be in flight.
CounterStaysOn == Counters => disabled = None

\* QUOTE_ID_REGIME_TIMEOUT_NS: no encoder, silent path, lost update or switched-off
\* source leaves the key dark: a refused quote found one forwarded within the timeout,
\* or one at least as new by the venue's clock.
NeverDark ==
  verdict # None /\ verdict.out \notin {"id", "floor", "future"}
    => \/ sent.at # None /\ now - sent.at < QUOTE_ID_REGIME_TIMEOUT_NS
       \/ Stamped /\ sent.ts >= source_ts_ns(verdict.n)

-----------------------------------------------------------------------------
(* What the three properties rest on.                                      *)

\* The venue keeps its rate: the counter's distance bounds the time between updates.
Paced ==
  /\ \A i \in DOMAIN published : published[i] <= now
  /\ \A i, j \in DOMAIN published :
       i <= j => /\ published[i] <= published[j]
                 /\ j - i < Rate * (published[j] - published[i] + 1)

\* The ID a key holds, and the jump it holds as a candidate, are those of updates.
Held ==
  Counters /\ ids # None =>
    LET m == ids.content.n
    IN  /\ m \in Updates /\ ids.last = m % (2 * HALF)
        /\ At(m) <= ids.last_admit_ns /\ ids.last_admit_ns <= At(m) + Delay
        /\ ids.candidate # None =>
             \E c \in Updates : c > m + max_jump /\ ids.candidate.id = c % (2 * HALF)

\* What was forwarded is at least as recent as what either gate holds.
Recent ==
  /\ ids # None => /\ sent.at # None /\ ids.last_admit_ns <= sent.at /\ sent.at <= now
  /\ floor # None => Stamped /\ floor.high_water <= sent.ts
  /\ verdict # None => verdict.n \in Updates

IndInv == TypeOK /\ Paced /\ Held /\ Recent /\ CounterStaysOn /\ NeverDark
=============================================================================
