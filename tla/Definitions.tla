---------------------------- MODULE Definitions ----------------------------
(***************************************************************************)
(* The definition of one instrument, from the reference data of mirrored   *)
(* publishers to the clients: RefDataState (src/src/ingest/subscriber.rs), *)
(* TobProcessor and MidpointProcessor (processor.rs), the shared           *)
(* InstrumentSnapshot, which a client is sent when it connects, and the    *)
(* instrument arm of the arbiter, whose stream an established client has.  *)
(*                                                                         *)
(* A definition names its instrument and its precision, and in the older   *)
(* wire versions not its Source ID: that comes with the first price, on    *)
(* the other port.  Messages are datagrams of their own, lost, repeated    *)
(* and, a bounded number of times, delivered late; publishers repeat the   *)
(* current ones.  An instrument stays on its channel.                      *)
(***************************************************************************)
EXTENDS Integers, Sequences, SequencesExt

CONSTANTS
  Publisher, SourceId,
  None,
  RING,         \* manifest sequences: 2^16
  Kinds,        \* which of the two processors
  FirstManifest, FirstSource,
  MaxChanges,   \* bounds: redefinitions and renames by the venue;
  MaxFaults     \* restarts, channel resets, evictions, late datagrams, manifests with
                \* Valid=0, announcements lost to the established client

\* A late manifest is less than half the ring behind.
ASSUME DefinitionConstants ==
  /\ RING \in Nat /\ RING % 2 = 0 /\ FirstManifest \in Nat
  /\ MaxChanges \in Nat /\ MaxChanges < RING \div 2
  /\ MaxFaults \in Nat
  /\ Kinds \subseteq {"tob", "midpoint"}
  /\ FirstSource \in SourceId /\ None \notin Nat \cup SourceId

\* What a publisher sends of the instrument, and what the arbiter remembers of it.
Msg == [at : Nat, reset : Nat, seq : Nat, precision : Nat, src : SourceId]
Announced == [id : Nat, recent : BOOLEAN]

ASSUME NoneAssumption == None \notin Msg \cup Announced

VARIABLES
  kind,      \* the processor at work
  venue,     \* the true precision and Source ID
  sent,      \* sent[p]: what p sends, by and by: see Msg
  pubs,      \* the processor's state of each publisher: see NewPublisher
  catalog,   \* InstrumentSnapshot: the entry of each Source ID, or None
  announced, \* instrument_defs: see Announced, of each Source ID, or None
  client,    \* what the established client was last told of each Source ID
  newest,    \* history: the newest manifest taken in by p since its state was new
  forgot,    \* history: a revealed Source ID was forgotten
  changes, faults \* history: how many so far

vars ==
  <<kind, venue, sent, pubs, catalog, announced, client, newest, forgot, changes, faults>>

NewRef == [valid |-> FALSE, latest_seq |-> 0, last_reset_count |-> 0, def |-> None]

\* RefDataState, the sequence anchor of the market data, and revealed.
NewPublisher == [ref |-> NewRef, anchor |-> None, revealed |-> None]

\* The process starts while the publishers send.
Init ==
  /\ kind \in Kinds
  /\ venue = [precision |-> 0, src |-> FirstSource]
  /\ sent = [p \in Publisher |->
              <<[at |-> 1, reset |-> 0, seq |-> FirstManifest, precision |-> 0, src |-> FirstSource]>>]
  /\ pubs = [p \in Publisher |-> NewPublisher] /\ newest = [p \in Publisher |-> None]
  /\ catalog = [s \in SourceId |-> None] /\ announced = catalog /\ client = catalog
  /\ forgot = FALSE /\ changes = 0 /\ faults = 0

Fault == faults < MaxFaults /\ faults' = faults + 1

-----------------------------------------------------------------------------
(* RefDataState and the sequence check.                                    *)

\* Mutant: any other sequence is a later one.
is_different(b, a) == b # a

is_later(b, a) == (b - a) % RING \in 1 .. (RING \div 2 - 1)

on_datagram(r, reset_count) ==
  IF reset_count = r.last_reset_count THEN r
  ELSE [NewRef EXCEPT !.last_reset_count = reset_count]

on_manifest(r, valid, seq) ==
  CASE ~valid -> [NewRef EXCEPT !.last_reset_count = r.last_reset_count]
    [] valid /\ (~r.valid \/ is_later(seq, r.latest_seq)) ->
         [r EXCEPT !.valid = TRUE, !.latest_seq = seq, !.def = None]
    [] OTHER -> r

on_instrument_definition(r, seq, precision) ==
  IF r.valid /\ seq = r.latest_seq THEN [r EXCEPT !.def = precision] ELSE r

\* SeqTracker::check, unbounded: only a sequence below the anchor's in its era is stale.
Stale(anchor, m) == anchor # None /\ m.reset = anchor.reset /\ m.at < anchor.at

-----------------------------------------------------------------------------
(* Publishing a definition.  h is what the processor's step has made of    *)
(* publisher p and of the shared state.                                    *)

Here(p) == [p |-> p, pub |-> pubs[p], catalog |-> catalog, announced |-> announced,
            client |-> client]

\* Mutant: unchanged content is suppressed for good.
Forwards_latched(a, precision) == a = None \/ a.id # precision

\* The arbiter: the copies of one burst collapse, a change goes out at once.
Forwards(a, precision) == a = None \/ a.id # precision \/ ~a.recent

\* upsert_instrument, and the broadcast.
Announce(h, s, precision) ==
  LET r == [h EXCEPT !.catalog[s] = precision]
  IN  IF ~Forwards(h.announced[s], precision) THEN r
      ELSE [r EXCEPT !.announced[s] = [id |-> precision, recent |-> TRUE],
                     !.client[s] = precision]

\* A price names Source ID s: it is announced once there is a definition, and the entry
\* of the one it replaces is purged.
reveal_if_needed(h, s) ==
  LET old == h.pub.revealed
  IN  IF old = s \/ h.pub.ref.def = None THEN h
      ELSE Announce([h EXCEPT !.pub.revealed = s,
                              !.catalog = IF old = None THEN @ ELSE [@ EXCEPT ![old] = None]],
                    s, h.pub.ref.def)

-----------------------------------------------------------------------------
(* Datagrams of publisher p.                                               *)

Now(p) == Last(sent[p])

\* Datagram m of p is late if p sends another by now.
Counted(p, m, fault) ==
  IF fault \/ m # Now(p) THEN Fault ELSE UNCHANGED faults

\* What datagram m leaves behind; the established client may miss the broadcast.
Leaves(h, m) ==
  /\ pubs' = [pubs EXCEPT ![h.p] = h.pub]
  /\ catalog' = h.catalog /\ announced' = h.announced
  /\ \/ client' = h.client /\ Counted(h.p, m, FALSE)
     \/ h.client # client /\ UNCHANGED client /\ Counted(h.p, m, TRUE)

\* The TOB processor takes a manifest with Valid=0 for a valid one.
Manifest(p, m, valid) ==
  /\ \E old \in {on_datagram(pubs[p].ref, m.reset)} :
     \E r \in {on_manifest(old, valid \/ kind = "tob", m.seq % RING)} :
       /\ pubs' = [pubs EXCEPT ![p].ref = r]
       /\ newest' = [newest EXCEPT ![p] =
                       IF ~r.valid THEN None
                       ELSE IF ~old.valid \/ m.seq > @.seq THEN m ELSE @]
  /\ Counted(p, m, ~valid)
  /\ UNCHANGED <<kind, venue, sent, catalog, announced, client, forgot, changes>>

\* A definition under the Source ID already revealed.
Reannounce(h, m, v3) ==
  IF h.pub.revealed = None \/ (v3 /\ h.pub.revealed # m.src) THEN h
  ELSE Announce(h, h.pub.revealed, m.precision)

\* InstrumentDefinition; a v3 one carries the Source ID.
Definition(p, m, v3) ==
  /\ v3 => kind = "tob"
  /\ \E r \in {on_datagram(pubs[p].ref, m.reset)} :
     \E h \in {Reannounce([Here(p) EXCEPT
                 !.pub.ref = on_instrument_definition(r, m.seq % RING, m.precision)], m, v3)} :
       /\ Leaves(IF v3 THEN reveal_if_needed(h, m.src) ELSE h, m)
       /\ newest' = [newest EXCEPT ![p] = IF r = pubs[p].ref THEN @ ELSE None]
  /\ UNCHANGED <<kind, venue, sent, forgot, changes>>

\* Quote, Trade or Midpoint, on the market-data port.
Price(p, m) ==
  /\ ~Stale(pubs[p].anchor, m)
  /\ \E h \in {[Here(p) EXCEPT !.pub.anchor = [reset |-> m.reset, at |-> m.at]]} :
       Leaves(reveal_if_needed(h, m.src), m)
  /\ UNCHANGED <<kind, venue, sent, newest, forgot, changes>>

Datagram(p, m) ==
  \/ Price(p, m)
  \/ \E b \in BOOLEAN : Manifest(p, m, b) \/ Definition(p, m, b)

Forget(p) ==
  /\ pubs' = [pubs EXCEPT ![p].ref = NewRef, ![p].revealed = None]
  /\ newest' = [newest EXCEPT ![p] = None]
  /\ forgot' = (forgot \/ pubs[p].revealed # None)
  /\ UNCHANGED <<kind, venue, catalog, announced, client, changes>>

\* ChannelReset: the publisher's state and the Source IDs it revealed go.
ChannelReset(p) ==
  /\ kind = "tob"
  /\ Fault
  /\ Forget(p) /\ UNCHANGED sent

\* PerPublisher::get makes room for another publisher.
EvictPublisher(p) == Fault /\ Forget(p) /\ UNCHANGED sent

\* PublisherSeq::check does, and the next price anchors anew.
EvictAnchor(p) ==
  /\ pubs[p].anchor # None /\ Fault /\ pubs' = [pubs EXCEPT ![p].anchor = None]
  /\ UNCHANGED <<kind, venue, sent, catalog, announced, client, newest, forgot, changes>>

-----------------------------------------------------------------------------
(* The venue, the publishers and the clock.                                *)

Change ==
  /\ changes < MaxChanges /\ changes' = changes + 1
  /\ \/ venue' = [venue EXCEPT !.precision = @ + 1]
     \/ \E s \in SourceId \ {venue.src} : venue' = [venue EXCEPT !.src = s]
  /\ UNCHANGED <<kind, sent, pubs, catalog, announced, client, newest, forgot, faults>>

Sends(p, m) == sent' = [sent EXCEPT ![p] = Append(@, [m EXCEPT !.at = @ + 1])]

\* Publisher p follows the venue; a new precision is a new manifest.
Follow(p) ==
  /\ Now(p).precision # venue.precision \/ Now(p).src # venue.src
  /\ Sends(p, [Now(p) EXCEPT !.precision = venue.precision, !.src = venue.src,
                             !.seq = @ + venue.precision - Now(p).precision])
  /\ UNCHANGED <<kind, venue, pubs, catalog, announced, client, newest, forgot, changes, faults>>

\* Publisher p restarts: a new Reset Count, and manifests from the first.
Restart(p) ==
  /\ Fault
  /\ Sends(p, [Now(p) EXCEPT !.reset = @ + 1, !.seq = 0])
  /\ UNCHANGED <<kind, venue, pubs, catalog, announced, client, newest, forgot, changes>>

\* INSTRUMENT_REANNOUNCE_NS passes.
Elapse(s) ==
  /\ announced[s] # None /\ announced' = [announced EXCEPT ![s].recent = FALSE]
  /\ UNCHANGED <<kind, venue, sent, pubs, catalog, client, newest, forgot, changes, faults>>

Next ==
  \/ Change
  \/ \E s \in SourceId : Elapse(s)
  \/ \E p \in Publisher :
       \/ Follow(p) \/ Restart(p) \/ ChannelReset(p) \/ EvictPublisher(p) \/ EvictAnchor(p)
       \/ \E i \in DOMAIN sent[p] : Datagram(p, sent[p][i])

\* Mirrors follow the venue, repeat their burst every few seconds and send prices, and the
\* clock runs.
Fairness ==
  /\ \A p \in Publisher :
       /\ WF_vars(Follow(p))
       /\ WF_vars(Price(p, Now(p)))
       /\ WF_vars(Manifest(p, Now(p), TRUE))
       /\ WF_vars(\E v3 \in BOOLEAN : Definition(p, Now(p), v3))
  /\ \A s \in SourceId : WF_vars(Elapse(s))

Spec == Init /\ [][Next]_vars /\ Fairness

-----------------------------------------------------------------------------
(* Properties.                                                             *)

\* RefDataState: through the wrap of the 16-bit sequence, restarts and late datagrams, the
\* definition that scales a publisher's prices is that of the newest manifest taken in since
\* its state last started over: a new Reset Count, a manifest that is not valid, a channel
\* reset or an eviction.
NewestManifest ==
  \A p \in Publisher :
    /\ pubs[p].ref.valid <=> newest[p] # None
    /\ pubs[p].ref.valid =>
         /\ pubs[p].ref.latest_seq = newest[p].seq % RING
         /\ pubs[p].ref.def \in {None, newest[p].precision}

\* The definition in force is where it is needed: at every publisher's prices, in the replay
\* of a client that connects and with the one that is connected.  Entries of other Source
\* IDs are purged, unless a publisher's state was forgotten in between.
InForce ==
  /\ \A p \in Publisher : pubs[p].ref.def = venue.precision /\ pubs[p].revealed = venue.src
  /\ catalog[venue.src] = venue.precision /\ client[venue.src] = venue.precision
  /\ forgot \/ \A s \in SourceId \ {venue.src} : catalog[s] = None

\* on_datagram, reveal_if_needed and the instrument arm: the definition in force prevails
\* everywhere in the end, whatever was announced late, purged by a mirror's rename, evicted,
\* suppressed as a copy or lost to the client on the way.
DefinitionsHeal == <>[]InForce
=============================================================================
