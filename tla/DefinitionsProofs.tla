------------------------- MODULE DefinitionsProofs -------------------------
(***************************************************************************)
(* Proofs about Definitions, for every fleet of publishers, ring of        *)
(* manifest sequences, first manifest and bound on changes and faults.     *)
(***************************************************************************)
EXTENDS Definitions, TLAPS

Half == RING \div 2

\* The ring of manifest sequences is not empty, and has two halves.
LEMMA RingHalves == RING \in Nat \ {0} /\ Half \in Nat \ {0} /\ RING = Half + Half
BY DefinitionConstants DEF Half

\* Division with remainder.
LEMMA Remainder ==
  ASSUME NEW N \in Nat \ {0}, NEW a \in Int
  PROVE  /\ a % N \in 0..(N - 1)
         /\ a \div N \in Int /\ a = N * (a \div N) + (a % N)
OBVIOUS

\* A remainder is the only one.
LEMMA RemainderUnique ==
  ASSUME NEW N \in Nat \ {0}, NEW q \in Int, NEW r \in 0..(N - 1), NEW x \in Int, x = N * q + r
  PROVE  x % N = r
OBVIOUS

\* A wrapped difference of wrapped sequences is the wrapped difference of the sequences.
LEMMA WrappedDifference ==
  ASSUME NEW b \in Int, NEW a \in Int
  PROVE  ((b % RING) - (a % RING)) % RING = (b - a) % RING
<1> DEFINE qa == a \div RING
           qb == b \div RING
           d  == (b % RING) - (a % RING)
           q  == (b - a) \div RING
           k  == q - qb + qa
           r  == (b - a) % RING
<1>1. /\ a % RING \in 0..(RING - 1) /\ b % RING \in 0..(RING - 1) /\ qa \in Int /\ qb \in Int
      /\ a = RING * qa + (a % RING) /\ b = RING * qb + (b % RING)
  BY RingHalves, Remainder
<1>2. d \in Int /\ b - a \in Int
  BY <1>1, RingHalves
<1>3. q \in Int /\ r \in 0..(RING - 1) /\ b - a = RING * q + r
  BY <1>2, RingHalves, Remainder
<1>4. k \in Int /\ d = RING * k + r
  <2> HIDE DEF q, qa, qb, r
  <2>1. RING * k = RING * q - RING * qb + RING * qa
    BY <1>1, <1>3, RingHalves
  <2> QED BY <1>1, <1>3, <2>1, RingHalves
<1>5. d % RING = r
  <2> HIDE DEF d, k, r
  <2> QED BY ONLY <1>2, <1>3, <1>4, RingHalves, RemainderUnique
<1> QED BY <1>5

\* is_later orders the sequences of manifests less than half the ring apart, and different
\* ones are told apart.
LEMMA SerialOrder ==
  ASSUME NEW b \in Int, NEW a \in Int, b - a < Half, a - b < Half
  PROVE  /\ is_later(b % RING, a % RING) <=> b > a
         /\ b % RING = a % RING => b = a
<1> DEFINE d == (b - a) % RING
<1>1. is_later(b % RING, a % RING) <=> d \in 1 .. (Half - 1)
  BY WrappedDifference DEF is_later, Half
<1>2. b % RING = a % RING => d = 0
  <2>1. ASSUME b % RING = a % RING PROVE d = 0
    <3>1. (b % RING) - (a % RING) = 0
      BY <2>1, RingHalves, Remainder
    <3>2. d = 0 % RING
      BY <3>1, WrappedDifference
    <3>3. 0 \in 0..(RING - 1) /\ 0 = RING * 0 + 0
      BY RingHalves
    <3> QED BY <3>2, <3>3, RingHalves, RemainderUnique
  <2> QED BY <2>1
<1>3. CASE b >= a
  <2>1. b - a \in 0..(RING - 1) /\ b - a = RING * 0 + (b - a) /\ b - a \in Int
    BY <1>3, RingHalves
  <2>2. d = b - a
    BY <2>1, RingHalves, RemainderUnique
  <2> HIDE DEF d
  <2> QED BY <1>1, <1>2, <1>3, <2>2, RingHalves
<1>4. CASE b < a
  <2>1. /\ RING - (a - b) \in 0..(RING - 1) /\ b - a \in Int
        /\ b - a = RING * (-1) + (RING - (a - b))
    BY <1>4, RingHalves
  <2>2. d = RING - (a - b)
    BY <2>1, RingHalves, RemainderUnique
  <2> HIDE DEF d
  <2> QED BY <1>1, <1>2, <1>4, <2>2, RingHalves
<1> QED BY <1>3, <1>4

-----------------------------------------------------------------------------
(* The inductive invariant.                                                *)

Ref == [valid : BOOLEAN, latest_seq : Nat, last_reset_count : Nat, def : Nat \cup {None}]
Anchor == [reset : Nat, at : Nat]
Pub == [ref : Ref, anchor : Anchor \cup {None}, revealed : SourceId \cup {None}]
Catalog == [SourceId -> Nat \cup {None}]

TypeOK ==
  /\ venue \in [precision : Nat, src : SourceId]
  /\ sent \in [Publisher -> Seq(Msg)]
  /\ pubs \in [Publisher -> Pub]
  /\ catalog \in Catalog /\ client \in Catalog
  /\ announced \in [SourceId -> Announced \cup {None}]
  /\ newest \in [Publisher -> Msg \cup {None}]
  /\ changes \in 0..MaxChanges

\* A precision is a count of redefinitions, which a publisher knows of or not yet.
Precisions ==
  /\ venue.precision <= changes
  /\ \A p \in Publisher : \A i \in DOMAIN sent[p] : sent[p][i].precision <= venue.precision

\* Within one Reset Count a publisher numbers its manifests by the precision they define, and
\* Reset Counts never go back.
InOrder(s) ==
  /\ s # <<>>
  /\ \A i \in DOMAIN s : s[i].reset <= s[Len(s)].reset
  /\ \A i, j \in DOMAIN s :
       s[i].reset = s[j].reset => s[i].seq - s[j].seq = s[i].precision - s[j].precision
Numbered == \A p \in Publisher : InOrder(sent[p])

\* The newest manifest of the state r of a publisher was sent under its Reset Count.
Current(r, n, s) ==
  /\ r.valid <=> n # None
  /\ r.valid =>
       /\ \E i \in DOMAIN s : n = s[i]
       /\ n.reset = r.last_reset_count
       /\ r.latest_seq = n.seq % RING
       /\ r.def \in {None, n.precision}
AllCurrent == \A p \in Publisher : Current(pubs[p].ref, newest[p], sent[p])

Inv == TypeOK /\ Precisions /\ Numbered /\ AllCurrent

\* Any two manifests a publisher sent under one Reset Count are less than half the ring apart,
\* and define the same precision if they are one.
LEMMA ManifestsNear ==
  ASSUME Inv, NEW p \in Publisher, NEW i \in DOMAIN sent[p], NEW j \in DOMAIN sent[p],
         sent[p][i].reset = sent[p][j].reset
  PROVE  /\ sent[p][i] \in Msg /\ sent[p][j] \in Msg
         /\ is_later(sent[p][i].seq % RING, sent[p][j].seq % RING) <=> sent[p][i].seq > sent[p][j].seq
         /\ sent[p][i].seq % RING = sent[p][j].seq % RING
              => sent[p][i].precision = sent[p][j].precision
<1> DEFINE m == sent[p][i]
           n == sent[p][j]
<1>1. m \in Msg /\ n \in Msg
  BY DEF Inv, TypeOK
<1>2. m.seq \in Nat /\ n.seq \in Nat /\ m.precision \in Nat /\ n.precision \in Nat
  BY <1>1 DEF Msg
<1>3. m.seq - n.seq = m.precision - n.precision
  BY DEF Inv, Numbered, InOrder
<1>4. m.precision <= MaxChanges /\ n.precision <= MaxChanges /\ MaxChanges < Half /\ MaxChanges \in Nat
  BY <1>2, DefinitionConstants DEF Inv, Precisions, TypeOK, Half
<1> HIDE DEF m, n
<1>5. m.seq - n.seq < Half /\ n.seq - m.seq < Half
  BY <1>2, <1>3, <1>4, RingHalves
<1>6. /\ is_later(m.seq % RING, n.seq % RING) <=> m.seq > n.seq
      /\ m.seq % RING = n.seq % RING => m.seq = n.seq
  BY <1>2, <1>5, SerialOrder
<1>7. m.seq = n.seq => m.precision = n.precision
  BY <1>2, <1>3
<1> QED BY <1>1, <1>6, <1>7 DEF m, n

-----------------------------------------------------------------------------
(* What the operations make of the reference data.                         *)

\* on_datagram: a new Reset Count starts over, the same one changes nothing.
LEMMA DatagramSeen ==
  ASSUME NEW r \in Ref, NEW reset \in Nat, NEW y, y = on_datagram(r, reset)
  PROVE  /\ y \in Ref /\ y.last_reset_count = reset
         /\ y.valid => y = r
         /\ y = r <=> reset = r.last_reset_count
<1>1. CASE reset = r.last_reset_count
  BY <1>1 DEF on_datagram
<1>2. CASE reset # r.last_reset_count
  <2>1. y = [valid |-> FALSE, latest_seq |-> 0, last_reset_count |-> reset, def |-> None]
    BY <1>2 DEF on_datagram, NewRef
  <2> QED BY <1>2, <2>1 DEF Ref
<1> QED BY <1>1, <1>2

\* on_manifest: the manifest is taken in, or refused as not later, or withdraws all.
LEMMA ManifestSeen ==
  ASSUME NEW r \in Ref, NEW valid \in BOOLEAN, NEW seq \in Nat, NEW y, y = on_manifest(r, valid, seq)
  PROVE  /\ y \in Ref /\ y.last_reset_count = r.last_reset_count
         /\ ~valid => ~y.valid
         /\ valid => y.valid
         /\ valid /\ (~r.valid \/ is_later(seq, r.latest_seq)) => y.latest_seq = seq /\ y.def = None
         /\ valid /\ ~(~r.valid \/ is_later(seq, r.latest_seq)) => y = r
<1>1. CASE ~valid
  <2>1. y = [valid |-> FALSE, latest_seq |-> 0, last_reset_count |-> r.last_reset_count, def |-> None]
    BY <1>1 DEF on_manifest, NewRef
  <2> QED BY <1>1, <2>1 DEF Ref
<1>2. CASE valid /\ (~r.valid \/ is_later(seq, r.latest_seq))
  <2>1. y = [r EXCEPT !.valid = TRUE, !.latest_seq = seq, !.def = None]
    BY <1>2 DEF on_manifest
  <2> QED BY <1>2, <2>1 DEF Ref
<1>3. CASE valid /\ ~(~r.valid \/ is_later(seq, r.latest_seq))
  <2>1. y = r
    BY <1>3 DEF on_manifest
  <2> QED BY <1>3, <2>1
<1> QED BY <1>1, <1>2, <1>3

\* on_instrument_definition: only the definition of the latest manifest is taken in.
LEMMA DefinitionSeen ==
  ASSUME NEW r \in Ref, NEW seq, NEW precision \in Nat,
         NEW y, y = on_instrument_definition(r, seq, precision)
  PROVE  /\ y \in Ref /\ y.valid = r.valid /\ y.latest_seq = r.latest_seq
         /\ y.last_reset_count = r.last_reset_count
         /\ y.def = r.def \/ (r.valid /\ seq = r.latest_seq /\ y.def = precision)
<1>1. CASE r.valid /\ seq = r.latest_seq
  <2>1. y = [r EXCEPT !.def = precision]
    BY <1>1 DEF on_instrument_definition
  <2> QED BY <1>1, <2>1 DEF Ref
<1>2. CASE ~(r.valid /\ seq = r.latest_seq)
  BY <1>2 DEF on_instrument_definition
<1> QED BY <1>1, <1>2

Work ==
  [p : Publisher, pub : Pub, catalog : Catalog, announced : [SourceId -> Announced \cup {None}],
   client : Catalog]

\* Announce: the reference data of the publisher stay as they are.
LEMMA AnnounceKeeps ==
  ASSUME NEW h \in Work, NEW s \in SourceId, NEW precision \in Nat,
         NEW y, y = Announce(h, s, precision)
  PROVE  y \in Work /\ y.p = h.p /\ y.pub = h.pub
<1> DEFINE ct == [h.catalog EXCEPT ![s] = precision]
           an == [h.announced EXCEPT ![s] = [id |-> precision, recent |-> TRUE]]
           cl == [h.client EXCEPT ![s] = precision]
           r == [h EXCEPT !.catalog = ct]
<1>1. ct \in Catalog /\ cl \in Catalog
  BY DEF Work, Catalog
<1>2. an \in [SourceId -> Announced \cup {None}]
  <2>1. [id |-> precision, recent |-> TRUE] \in Announced
    BY DEF Announced
  <2> QED BY <2>1 DEF Work
<1>3. y = r \/ y = [r EXCEPT !.announced = an, !.client = cl]
  <2>1. r = [h EXCEPT !.catalog[s] = precision]
    BY DEF Work
  <2>2. CASE ~Forwards(h.announced[s], precision)
    BY <2>1, <2>2 DEF Announce
  <2>3. CASE Forwards(h.announced[s], precision)
    <3>1. y = [r EXCEPT !.announced[s] = [id |-> precision, recent |-> TRUE],
                        !.client[s] = precision]
      BY <2>1, <2>3 DEF Announce
    <3> QED BY <3>1 DEF Work
  <2> QED BY <2>2, <2>3
<1> HIDE DEF ct, an, cl
<1>4. r \in Work /\ r.p = h.p /\ r.pub = h.pub
  BY <1>1 DEF Work
<1> HIDE DEF r
<1>5. CASE y = [r EXCEPT !.announced = an, !.client = cl]
  <2>1. y \in Work /\ y.p = r.p /\ y.pub = r.pub
    BY <1>1, <1>2, <1>4, <1>5 DEF Work
  <2> QED BY <1>4, <2>1
<1> QED BY <1>3, <1>4, <1>5

\* reveal_if_needed: of the publisher, only the revealed Source ID changes.
LEMMA RevealKeeps ==
  ASSUME NEW h \in Work, NEW s \in SourceId, NEW y, y = reveal_if_needed(h, s)
  PROVE  y \in Work /\ y.p = h.p /\ y.pub.ref = h.pub.ref
<1> DEFINE pb == [h.pub EXCEPT !.revealed = s]
           old == h.pub.revealed
           ct == IF old = None THEN h.catalog ELSE [h.catalog EXCEPT ![old] = None]
           g == [h EXCEPT !.pub = pb, !.catalog = ct]
<1>1. h.pub \in Pub /\ h.catalog \in Catalog
  BY DEF Work
<1>2. pb \in Pub /\ pb.ref = h.pub.ref
  BY <1>1 DEF Pub
<1>3. ct \in Catalog
  BY <1>1 DEF Catalog
<1>4. CASE old = s \/ h.pub.ref.def = None
  BY <1>4 DEF reveal_if_needed
<1>5. CASE ~(old = s \/ h.pub.ref.def = None)
  <2>1. y = Announce(g, s, h.pub.ref.def)
    <3>1. g = [h EXCEPT !.pub.revealed = s,
                        !.catalog = IF old = None THEN @ ELSE [@ EXCEPT ![old] = None]]
      BY <1>1 DEF Work, Pub
    <3> HIDE DEF g
    <3> QED BY <1>5, <3>1, Zenon DEF reveal_if_needed
  <2> HIDE DEF pb, ct
  <2>2. g \in Work /\ g.p = h.p /\ g.pub = pb
    BY <1>2, <1>3 DEF Work
  <2>3. h.pub.ref.def \in Nat
    BY <1>1, <1>5 DEF Pub, Ref
  <2> HIDE DEF g
  <2>4. y \in Work /\ y.p = g.p /\ y.pub = g.pub
    BY <2>1, <2>2, <2>3, AnnounceKeeps
  <2> QED BY <1>2, <2>2, <2>4
<1> QED BY <1>4, <1>5

\* Leaves: what a datagram leaves of the shared state.
LEMMA LeavesTyped ==
  ASSUME TypeOK, NEW h \in Work, NEW m, Leaves(h, m)
  PROVE  /\ pubs' = [pubs EXCEPT ![h.p] = h.pub]
         /\ catalog' \in Catalog /\ client' \in Catalog
         /\ announced' \in [SourceId -> Announced \cup {None}]
BY DEF Leaves, Work, TypeOK

\* A step that moves nothing but the reference data of one publisher, what is newest of it,
\* and the announcements.
LEMMA RefMoved ==
  ASSUME Inv, NEW p \in Publisher, NEW pb \in Pub, NEW n \in Msg \cup {None},
         Current(pb.ref, n, sent[p]),
         pubs' = [pubs EXCEPT ![p] = pb], newest' = [newest EXCEPT ![p] = n],
         catalog' \in Catalog /\ client' \in Catalog,
         announced' \in [SourceId -> Announced \cup {None}],
         UNCHANGED <<venue, sent, changes>>
  PROVE  Inv'
<1>1. TypeOK /\ Precisions /\ Numbered /\ AllCurrent
  BY DEF Inv
<1>2. TypeOK'
  BY <1>1 DEF TypeOK
<1>3. Precisions' /\ Numbered'
  BY <1>1 DEF Precisions, Numbered
<1>4. AllCurrent'
  <2>1. ASSUME NEW q \in Publisher PROVE Current(pubs'[q].ref, newest'[q], sent[q])
    <3>1. CASE q = p
      <4>1. pubs'[p] = pb /\ newest'[p] = n
        BY <1>1 DEF TypeOK
      <4> QED BY <3>1, <4>1
    <3>2. CASE q # p
      <4>1. pubs'[q] = pubs[q] /\ newest'[q] = newest[q]
        BY <1>1, <3>2 DEF TypeOK
      <4> QED BY <1>1, <4>1 DEF AllCurrent
    <3> QED BY <3>1, <3>2
  <2> QED BY <2>1 DEF AllCurrent
<1> QED BY <1>2, <1>3, <1>4 DEF Inv

-----------------------------------------------------------------------------
(* Datagrams.                                                              *)

\* Manifest: what is taken in is newest, what is refused is not later than it.
LEMMA ManifestKeeps ==
  ASSUME Inv, NEW p \in Publisher, NEW k \in DOMAIN sent[p], NEW valid \in BOOLEAN,
         Manifest(p, sent[p][k], valid)
  PROVE  Inv'
<1> DEFINE m == sent[p][k]
<1>1. m \in Msg /\ m.reset \in Nat /\ m.seq \in Nat /\ m.seq % RING \in Nat
  <2>1. m \in Msg
    BY DEF Inv, TypeOK
  <2>2. m.seq \in Nat /\ m.reset \in Nat
    BY <2>1 DEF Msg
  <2> HIDE DEF m
  <2>3. m.seq % RING \in Nat
    BY <2>2, RingHalves
  <2> QED BY <2>1, <2>2, <2>3
<1>2. pubs[p] \in Pub /\ pubs[p].ref \in Ref /\ Current(pubs[p].ref, newest[p], sent[p])
  BY DEF Inv, TypeOK, Pub, AllCurrent
<1>3. PICK old : old = on_datagram(pubs[p].ref, m.reset) /\
         \E r \in {on_manifest(old, valid \/ kind = "tob", m.seq % RING)} :
           /\ pubs' = [pubs EXCEPT ![p].ref = r]
           /\ newest' = [newest EXCEPT ![p] =
                           IF ~r.valid THEN None
                           ELSE IF ~old.valid \/ m.seq > @.seq THEN m ELSE @]
  BY Zenon DEF Manifest
<1>4. PICK v \in BOOLEAN : v = (valid \/ kind = "tob")
  OBVIOUS
<1>5. PICK r : /\ r = on_manifest(old, v, m.seq % RING)
               /\ pubs' = [pubs EXCEPT ![p].ref = r]
               /\ newest' = [newest EXCEPT ![p] =
                               IF ~r.valid THEN None
                               ELSE IF ~old.valid \/ m.seq > @.seq THEN m ELSE @]
  BY <1>3, <1>4, Zenon
<1>6. /\ old \in Ref /\ old.last_reset_count = m.reset
      /\ old.valid => old = pubs[p].ref
  <2>1. old = on_datagram(pubs[p].ref, m.reset)
    BY <1>3
  <2> DEFINE ref == pubs[p].ref
             rc == m.reset
  <2>2. ref \in Ref /\ rc \in Nat /\ old = on_datagram(ref, rc)
    BY <1>1, <1>2, <2>1
  <2> HIDE DEF ref, rc
  <2>3. old \in Ref /\ old.last_reset_count = rc /\ (old.valid => old = ref)
    BY <2>2, DatagramSeen
  <2> QED BY <2>3 DEF ref, rc
<1>7. /\ r \in Ref /\ r.last_reset_count = old.last_reset_count
      /\ ~v => ~r.valid
      /\ v => r.valid
      /\ v /\ (~old.valid \/ is_later(m.seq % RING, old.latest_seq))
           => r.latest_seq = m.seq % RING /\ r.def = None
      /\ v /\ ~(~old.valid \/ is_later(m.seq % RING, old.latest_seq)) => r = old
  <2>1. r = on_manifest(old, v, m.seq % RING)
    BY <1>5
  <2> DEFINE x == m.seq % RING
  <2>2. x \in Nat /\ r = on_manifest(old, v, x)
    BY <1>1, <2>1
  <2> HIDE DEF m, x
  <2>3. /\ r \in Ref /\ r.last_reset_count = old.last_reset_count
        /\ ~v => ~r.valid
        /\ v => r.valid
        /\ v /\ (~old.valid \/ is_later(x, old.latest_seq)) => r.latest_seq = x /\ r.def = None
        /\ v /\ ~(~old.valid \/ is_later(x, old.latest_seq)) => r = old
    BY <2>2, <1>6, ManifestSeen
  <2> QED BY <2>3, Zenon DEF x
<1> DEFINE n == IF ~r.valid THEN None
                ELSE IF ~old.valid \/ m.seq > newest[p].seq THEN m ELSE newest[p]
           pb == [pubs[p] EXCEPT !.ref = r]
<1>8. pb \in Pub /\ pb.ref = r /\ pubs' = [pubs EXCEPT ![p] = pb]
  BY <1>2, <1>5, <1>7 DEF Pub, Inv, TypeOK
<1>9. newest' = [newest EXCEPT ![p] = n]
  BY <1>5 DEF Inv, TypeOK
<1>10. n \in Msg \cup {None} /\ Current(r, n, sent[p])
  <2>0. None \notin Msg
    BY NoneAssumption
  <2>1. CASE ~r.valid
    BY <2>1 DEF Current
  <2>2. CASE r.valid /\ ~old.valid
    <3>1. n = m /\ v
      BY <2>2, <1>7
    <3>2. r.latest_seq = m.seq % RING /\ r.def = None /\ r.last_reset_count = m.reset
      BY <2>2, <3>1, <1>6, <1>7
    <3>3. n # None /\ n \in Msg
      BY <3>1, <2>0, <1>1
    <3> HIDE DEF n
    <3> QED BY <2>2, <3>1, <3>2, <3>3 DEF Current
  <2>3. CASE r.valid /\ old.valid
    <3>1. PICK j \in DOMAIN sent[p] : newest[p] = sent[p][j]
      BY <2>3, <1>2, <1>6 DEF Current
    <3>2. /\ newest[p].reset = m.reset /\ old.latest_seq = newest[p].seq % RING
          /\ old.def \in {None, newest[p].precision} /\ old.last_reset_count = m.reset
      BY <2>3, <1>2, <1>6 DEF Current
    <3>3. /\ newest[p] \in Msg
          /\ is_later(m.seq % RING, newest[p].seq % RING) <=> m.seq > newest[p].seq
      BY <3>1, <3>2, ManifestsNear
    <3>4. v
      BY <2>3, <1>7
    <3>5. CASE m.seq > newest[p].seq
      <4>1. n = m
        BY <2>3, <3>5
      <4>2. r.latest_seq = m.seq % RING /\ r.def = None /\ r.last_reset_count = m.reset
        BY <3>2, <3>3, <3>4, <3>5, <1>7
      <4>3. n # None /\ n \in Msg
        BY <4>1, <2>0, <1>1
      <4> HIDE DEF n
      <4> QED BY <2>3, <4>1, <4>2, <4>3 DEF Current
    <3>6. CASE ~(m.seq > newest[p].seq)
      <4>1. n = newest[p]
        BY <2>3, <3>6
      <4>2. r = old
        BY <2>3, <3>2, <3>3, <3>4, <3>6, <1>7
      <4>3. n # None /\ n \in Msg
        BY <4>1, <2>0, <3>3
      <4> HIDE DEF n
      <4> QED BY <2>3, <3>1, <3>2, <4>1, <4>2, <4>3 DEF Current
    <3> QED BY <3>5, <3>6
  <2> QED BY <2>1, <2>2, <2>3
<1>11. /\ catalog' \in Catalog /\ client' \in Catalog
       /\ announced' \in [SourceId -> Announced \cup {None}]
       /\ UNCHANGED <<venue, sent, changes>>
  BY DEF Manifest, Inv, TypeOK
<1> HIDE DEF n, pb, m
<1> QED BY <1>8, <1>9, <1>10, <1>11, RefMoved

\* Definition: only that of the newest manifest is taken in.
LEMMA DefinitionKeeps ==
  ASSUME Inv, NEW p \in Publisher, NEW k \in DOMAIN sent[p], NEW v3 \in BOOLEAN,
         Definition(p, sent[p][k], v3)
  PROVE  Inv'
<1> DEFINE m == sent[p][k]
           ref == pubs[p].ref
<1>1. m \in Msg /\ m.reset \in Nat /\ m.precision \in Nat /\ m.src \in SourceId
  <2>1. m \in Msg
    BY DEF Inv, TypeOK
  <2> QED BY <2>1 DEF Msg
<1>2. /\ pubs[p] \in Pub /\ ref \in Ref /\ Current(ref, newest[p], sent[p])
      /\ Here(p) \in Work /\ Here(p).p = p /\ Here(p).pub = pubs[p]
  <2>1. pubs[p] \in Pub /\ Current(ref, newest[p], sent[p])
    BY DEF Inv, TypeOK, AllCurrent
  <2>2. ref \in Ref
    BY <2>1 DEF Pub
  <2>3. Here(p) \in Work /\ Here(p).p = p /\ Here(p).pub = pubs[p]
    BY <2>1 DEF Here, Work, Inv, TypeOK
  <2> QED BY <2>1, <2>2, <2>3
<1>3. PICK r : /\ r = on_datagram(ref, m.reset)
               /\ \E h \in {Reannounce([Here(p) EXCEPT
                      !.pub.ref = on_instrument_definition(r, m.seq % RING, m.precision)], m, v3)} :
                    /\ Leaves(IF v3 THEN reveal_if_needed(h, m.src) ELSE h, m)
                    /\ newest' = [newest EXCEPT ![p] = IF r = ref THEN @ ELSE None]
  BY Zenon DEF Definition
<1>4. PICK d : d = on_instrument_definition(r, m.seq % RING, m.precision)
  OBVIOUS
<1>5. PICK h : /\ h = Reannounce([Here(p) EXCEPT !.pub.ref = d], m, v3)
               /\ Leaves(IF v3 THEN reveal_if_needed(h, m.src) ELSE h, m)
               /\ newest' = [newest EXCEPT ![p] = IF r = ref THEN @ ELSE None]
  BY <1>3, <1>4, Zenon
<1>6. /\ r \in Ref /\ r.last_reset_count = m.reset
      /\ r.valid => r = ref
      /\ r = ref <=> m.reset = ref.last_reset_count
  BY <1>1, <1>2, <1>3, DatagramSeen
<1>7. /\ d \in Ref /\ d.valid = r.valid /\ d.latest_seq = r.latest_seq
      /\ d.last_reset_count = r.last_reset_count
      /\ d.def = r.def \/ (r.valid /\ m.seq % RING = r.latest_seq /\ d.def = m.precision)
  BY <1>1, <1>4, <1>6, DefinitionSeen
<1> DEFINE pb == [pubs[p] EXCEPT !.ref = d]
           g == [Here(p) EXCEPT !.pub = pb]
<1>8. h \in Work /\ h.p = p /\ h.pub.ref = d
  <2>1. pb \in Pub /\ pb.ref = d
    BY <1>2, <1>7 DEF Pub
  <2>2. g = [Here(p) EXCEPT !.pub.ref = d]
    BY <1>2 DEF Work, Pub
  <2> HIDE DEF pb
  <2>3. g \in Work /\ g.p = p /\ g.pub = pb
    BY <1>2, <2>1 DEF Work
  <2>4. h = Reannounce(g, m, v3)
    BY <1>5, <2>2
  <2> HIDE DEF g
  <2>5. CASE g.pub.revealed = None \/ (v3 /\ g.pub.revealed # m.src)
    <3>1. h = g
      BY <2>4, <2>5, Zenon DEF Reannounce
    <3> QED BY <3>1, <2>1, <2>3
  <2>6. CASE ~(g.pub.revealed = None \/ (v3 /\ g.pub.revealed # m.src))
    <3>1. h = Announce(g, g.pub.revealed, m.precision)
      BY <2>4, <2>6, Zenon DEF Reannounce
    <3>2. g.pub.revealed \in SourceId
      BY <2>1, <2>3, <2>6 DEF Pub
    <3> DEFINE pr == m.precision
               at == g.pub.revealed
    <3>4. pr \in Nat /\ at \in SourceId /\ h = Announce(g, at, pr) /\ g \in Work
      BY <1>1, <2>3, <3>1, <3>2
    <3> HIDE DEF pr, at
    <3>3. h \in Work /\ h.p = g.p /\ h.pub = g.pub
      BY <3>4, AnnounceKeeps
    <3> QED BY <3>3, <2>1, <2>3
  <2> QED BY <2>5, <2>6
<1>9. PICK y : y = IF v3 THEN reveal_if_needed(h, m.src) ELSE h
  OBVIOUS
<1>10. y \in Work /\ y.p = p /\ y.pub.ref = d
  <2>1. CASE v3
    <3>1. y = reveal_if_needed(h, m.src)
      BY <1>9, <2>1
    <3>2. y \in Work /\ y.p = h.p /\ y.pub.ref = h.pub.ref
      BY <1>1, <1>8, <3>1, RevealKeeps
    <3> QED BY <1>8, <3>2
  <2>2. CASE ~v3
    BY <1>8, <1>9, <2>2
  <2> QED BY <2>1, <2>2
<1>11. /\ pubs' = [pubs EXCEPT ![p] = y.pub]
       /\ catalog' \in Catalog /\ client' \in Catalog
       /\ announced' \in [SourceId -> Announced \cup {None}]
  <2>1. Leaves(y, m)
    BY <1>5, <1>9, Zenon
  <2>2. /\ pubs' = [pubs EXCEPT ![y.p] = y.pub]
        /\ catalog' \in Catalog /\ client' \in Catalog
        /\ announced' \in [SourceId -> Announced \cup {None}]
    BY <2>1, <1>10, LeavesTyped DEF Inv
  <2> QED BY <2>2, <1>10
<1> DEFINE n == IF r = ref THEN newest[p] ELSE None
<1>12. newest' = [newest EXCEPT ![p] = n] /\ n \in Msg \cup {None}
  BY <1>5 DEF Inv, TypeOK
<1>13. Current(d, n, sent[p])
  <2>1. CASE ~r.valid
    <3>1. n = None
      BY <2>1, <1>2 DEF Current
    <3> QED BY <2>1, <3>1, <1>7 DEF Current
  <2>2. CASE r.valid
    <3>1. r = ref /\ n = newest[p]
      BY <2>2, <1>6
    <3>2. /\ n # None /\ n.reset = m.reset /\ r.latest_seq = n.seq % RING
          /\ r.def \in {None, n.precision}
      BY <2>2, <3>1, <1>2, <1>6 DEF Current
    <3>3. PICK j \in DOMAIN sent[p] : n = sent[p][j]
      BY <2>2, <3>1, <1>2 DEF Current
    <3> HIDE DEF n
    <3>4. m.seq % RING = n.seq % RING => m.precision = n.precision
      BY <3>2, <3>3, ManifestsNear
    <3>5. d.def \in {None, n.precision}
      BY <3>2, <3>4, <1>7
    <3> QED BY <2>2, <3>2, <3>3, <3>5, <1>6, <1>7 DEF Current
  <2> QED BY <2>1, <2>2
<1>14. UNCHANGED <<venue, sent, changes>> /\ y.pub \in Pub
  BY <1>10 DEF Definition, Work
<1> HIDE DEF n, m
<1>15. Current(y.pub.ref, n, sent[p])
  BY <1>10, <1>13
<1> QED BY <1>11, <1>12, <1>14, <1>15, RefMoved

\* Price: the reference data stay as they are.
LEMMA PriceKeeps ==
  ASSUME Inv, NEW p \in Publisher, NEW k \in DOMAIN sent[p], Price(p, sent[p][k])
  PROVE  Inv'
<1> DEFINE m == sent[p][k]
           an == [reset |-> m.reset, at |-> m.at]
           pb == [pubs[p] EXCEPT !.anchor = an]
           g == [Here(p) EXCEPT !.pub = pb]
<1>1. m.src \in SourceId /\ an \in Anchor
  <2>1. m \in Msg
    BY DEF Inv, TypeOK
  <2> QED BY <2>1 DEF Msg, Anchor
<1>2. /\ pubs[p] \in Pub /\ Current(pubs[p].ref, newest[p], sent[p])
      /\ Here(p) \in Work /\ Here(p).p = p /\ Here(p).pub = pubs[p]
      /\ newest[p] \in Msg \cup {None} /\ newest = [newest EXCEPT ![p] = newest[p]]
  <2>1. /\ pubs[p] \in Pub /\ Current(pubs[p].ref, newest[p], sent[p])
        /\ newest[p] \in Msg \cup {None} /\ newest = [newest EXCEPT ![p] = newest[p]]
    BY DEF Inv, TypeOK, AllCurrent
  <2>2. Here(p) \in Work /\ Here(p).p = p /\ Here(p).pub = pubs[p]
    BY <2>1 DEF Here, Work, Inv, TypeOK
  <2> QED BY <2>1, <2>2
<1>3. g = [Here(p) EXCEPT !.pub.anchor = an]
  BY <1>2 DEF Work
<1>4. Leaves(reveal_if_needed(g, m.src), m) /\ UNCHANGED <<venue, sent, newest, changes>>
  <2> HIDE DEF g
  <2>1. UNCHANGED <<venue, sent, newest, changes>>
    BY DEF Price
  <2>2. Leaves(reveal_if_needed(g, m.src), m)
    BY <1>3, Zenon DEF Price
  <2> QED BY <2>1, <2>2
<1> HIDE DEF an
<1>5. pb \in Pub /\ pb.ref = pubs[p].ref
  BY <1>1, <1>2 DEF Pub
<1> HIDE DEF pb
<1>6. g \in Work /\ g.p = p /\ g.pub = pb
  BY <1>2, <1>5 DEF Work
<1> HIDE DEF g
<1>7. PICK y : y = reveal_if_needed(g, m.src)
  OBVIOUS
<1>8. y \in Work /\ y.p = g.p /\ y.pub.ref = g.pub.ref
  <2> DEFINE s == m.src
  <2>1. s \in SourceId /\ y = reveal_if_needed(g, s)
    BY <1>1, <1>7
  <2> HIDE DEF s
  <2> QED BY <2>1, <1>6, RevealKeeps
<1>9. Leaves(y, m)
  BY <1>4, <1>7
<1> HIDE DEF m
<1>10. /\ pubs' = [pubs EXCEPT ![y.p] = y.pub]
       /\ catalog' \in Catalog /\ client' \in Catalog
       /\ announced' \in [SourceId -> Announced \cup {None}]
  BY <1>8, <1>9, LeavesTyped DEF Inv
<1>11. /\ pubs' = [pubs EXCEPT ![p] = y.pub] /\ newest' = [newest EXCEPT ![p] = newest[p]]
       /\ y.pub \in Pub /\ Current(y.pub.ref, newest[p], sent[p])
  <2>1. y.p = p /\ y.pub.ref = pubs[p].ref
    BY <1>5, <1>6, <1>8
  <2>2. y.pub \in Pub
    BY <1>8 DEF Work
  <2> QED BY <2>1, <2>2, <1>2, <1>4, <1>10
<1>12. PICK z, n : z = y.pub /\ n = newest[p]
  OBVIOUS
<1>13. /\ z \in Pub /\ n \in Msg \cup {None} /\ Current(z.ref, n, sent[p])
       /\ pubs' = [pubs EXCEPT ![p] = z] /\ newest' = [newest EXCEPT ![p] = n]
  BY <1>2, <1>11, <1>12
<1>14. UNCHANGED <<venue, sent, changes>>
  BY <1>4
<1> QED BY <1>10, <1>13, <1>14, RefMoved

\* ChannelReset, PerPublisher::get: what is forgotten is newest no more.
LEMMA ForgetKeeps ==
  ASSUME Inv, NEW p \in Publisher, Forget(p), UNCHANGED sent
  PROVE  Inv'
<1> DEFINE pb == [pubs[p] EXCEPT !.ref = NewRef, !.revealed = None]
<1>1. NewRef \in Ref /\ ~NewRef.valid
  BY DEF NewRef, Ref
<1>2. pubs[p] \in Pub
  BY DEF Inv, TypeOK
<1>3. pb \in Pub /\ pb.ref = NewRef
  BY <1>1, <1>2 DEF Pub
<1>4. pubs' = [pubs EXCEPT ![p] = pb]
  BY <1>2 DEF Forget, Inv, TypeOK, Pub
<1>5. Current(pb.ref, None, sent[p])
  BY <1>1, <1>3 DEF Current
<1>6. /\ newest' = [newest EXCEPT ![p] = None]
      /\ catalog' \in Catalog /\ client' \in Catalog
      /\ announced' \in [SourceId -> Announced \cup {None}]
      /\ UNCHANGED <<venue, sent, changes>>
  BY DEF Forget, Inv, TypeOK
<1> HIDE DEF pb
<1> QED BY <1>3, <1>4, <1>5, <1>6, RefMoved

\* PublisherSeq::check: an anchor is no part of the reference data.
LEMMA EvictAnchorKeeps ==
  ASSUME Inv, NEW p \in Publisher, EvictAnchor(p)
  PROVE  Inv'
<1> DEFINE pb == [pubs[p] EXCEPT !.anchor = None]
<1>1. /\ pubs[p] \in Pub /\ Current(pubs[p].ref, newest[p], sent[p])
      /\ newest[p] \in Msg \cup {None} /\ newest = [newest EXCEPT ![p] = newest[p]]
  BY DEF Inv, TypeOK, AllCurrent
<1>2. pb \in Pub /\ pb.ref = pubs[p].ref
  BY <1>1 DEF Pub
<1>3. pubs' = [pubs EXCEPT ![p] = pb]
  BY DEF EvictAnchor, Inv, TypeOK
<1>4. /\ newest' = [newest EXCEPT ![p] = newest[p]]
      /\ catalog' \in Catalog /\ client' \in Catalog
      /\ announced' \in [SourceId -> Announced \cup {None}]
      /\ UNCHANGED <<venue, sent, changes>>
  BY <1>1 DEF EvictAnchor, Inv, TypeOK
<1> HIDE DEF pb
<1>5. Current(pb.ref, newest[p], sent[p])
  BY <1>1, <1>2
<1> QED BY <1>1, <1>2, <1>3, <1>4, <1>5, RefMoved

-----------------------------------------------------------------------------
(* The venue, the publishers and the clock.                                *)

\* The venue redefines or renames the instrument.
LEMMA ChangeKeeps ==
  ASSUME Inv, Change
  PROVE  Inv'
<1>1. TypeOK /\ Precisions /\ Numbered /\ AllCurrent
  BY DEF Inv
<1>2. /\ changes' \in 0..MaxChanges /\ changes' = changes + 1
      /\ UNCHANGED <<sent, pubs, catalog, announced, client, newest>>
  BY <1>1, DefinitionConstants DEF Change, TypeOK
<1>3. /\ venue' \in [precision : Nat, src : SourceId]
      /\ venue'.precision \in {venue.precision, venue.precision + 1}
  <2>1. venue \in [precision : Nat, src : SourceId]
    BY <1>1 DEF TypeOK
  <2>2. CASE venue' = [venue EXCEPT !.precision = @ + 1]
    BY <2>1, <2>2
  <2>3. CASE \E s \in SourceId \ {venue.src} : venue' = [venue EXCEPT !.src = s]
    BY <2>1, <2>3
  <2> QED BY <2>2, <2>3 DEF Change
<1>4. TypeOK'
  BY <1>1, <1>2, <1>3 DEF TypeOK
<1>5. Precisions'
  <2>1. venue.precision \in Nat /\ changes \in Nat
    BY <1>1 DEF TypeOK
  <2>2. venue'.precision <= changes'
    BY <1>1, <1>2, <1>3, <2>1 DEF Precisions
  <2>3. ASSUME NEW p \in Publisher, NEW i \in DOMAIN sent[p]
        PROVE  sent[p][i].precision <= venue'.precision
    <3>1. sent[p][i] \in Msg
      BY <1>1 DEF TypeOK
    <3>2. sent[p][i].precision \in Nat
      BY <3>1 DEF Msg
    <3>3. sent[p][i].precision <= venue.precision
      BY <1>1 DEF Precisions
    <3> QED BY <1>3, <2>1, <3>2, <3>3
  <2> QED BY <1>2, <2>2, <2>3 DEF Precisions
<1>6. Numbered' /\ AllCurrent'
  BY <1>1, <1>2 DEF Numbered, AllCurrent
<1> QED BY <1>4, <1>5, <1>6 DEF Inv

\* The last message of a publisher, and what sending another makes of the sequence.
LEMMA LastSent ==
  ASSUME Inv, NEW p \in Publisher
  PROVE  /\ Len(sent[p]) \in DOMAIN sent[p] /\ Now(p) = sent[p][Len(sent[p])] /\ Now(p) \in Msg
         /\ sent[p] \in Seq(Msg)
<1>1. sent[p] \in Seq(Msg) /\ sent[p] # <<>>
  BY DEF Inv, TypeOK, Numbered, InOrder
<1>2. Len(sent[p]) \in DOMAIN sent[p]
  BY <1>1
<1> QED BY <1>1, <1>2 DEF Now, Last

\* A publisher sends another message, numbered like the ones before.
LEMMA SendKeeps ==
  ASSUME Inv, NEW p \in Publisher, NEW m \in Msg,
         sent' = [sent EXCEPT ![p] = Append(@, m)],
         m.precision <= venue.precision, Now(p).reset <= m.reset,
         \A j \in DOMAIN sent[p] :
           m.reset = sent[p][j].reset => m.seq - sent[p][j].seq = m.precision - sent[p][j].precision,
         UNCHANGED <<venue, pubs, catalog, announced, client, newest, changes>>
  PROVE  Inv'
<1> DEFINE s == sent[p]
           t == Append(s, m)
<1>1. TypeOK /\ Precisions /\ Numbered /\ AllCurrent
  BY DEF Inv
<1>2. s \in Seq(Msg) /\ Now(p) \in Msg
  BY LastSent
<1>3. /\ t \in Seq(Msg) /\ Len(t) = Len(s) + 1 /\ t # <<>>
      /\ t[Len(s) + 1] = m /\ \A i \in DOMAIN s : i \in DOMAIN t /\ t[i] = s[i]
      /\ DOMAIN t = DOMAIN s \cup {Len(s) + 1}
  BY <1>2
<1>4. sent'[p] = t /\ \A q \in Publisher : q # p => sent'[q] = sent[q]
  BY <1>1 DEF TypeOK
<1>5. TypeOK'
  BY <1>1, <1>3 DEF TypeOK
<1> HIDE DEF s, t
<1>7. Precisions'
  <2>1. ASSUME NEW q \in Publisher, NEW i \in DOMAIN sent'[q]
        PROVE  sent'[q][i].precision <= venue.precision
    <3>1. CASE q = p /\ i = Len(s) + 1
      BY <1>3, <1>4, <3>1
    <3>2. CASE q = p /\ i \in DOMAIN s
      BY <1>1, <1>3, <1>4, <3>2 DEF Precisions, s
    <3>3. CASE q # p
      BY <1>1, <1>4, <3>3 DEF Precisions
    <3> QED BY <1>3, <1>4, <3>1, <3>2, <3>3
  <2> QED BY <1>1, <2>1 DEF Precisions
<1>8. Numbered'
  <2>1. ASSUME NEW q \in Publisher PROVE InOrder(sent'[q])
    <3>1. CASE q # p
      BY <1>1, <1>4, <3>1 DEF Numbered
    <3>2. CASE q = p
      <4>1. t # <<>>
        BY <1>3
      <4>2. ASSUME NEW i \in DOMAIN t PROVE t[i].reset <= m.reset
        <5>1. CASE i = Len(s) + 1
          BY <1>3, <5>1 DEF Msg
        <5>2. CASE i \in DOMAIN s
          <6>1. s[i].reset <= Now(p).reset
            BY <1>1, <5>2, LastSent DEF Numbered, InOrder, s
          <6>2. s[i].reset \in Nat /\ Now(p).reset \in Nat /\ m.reset \in Nat
            <7>1. s[i] \in Msg
              BY <1>2, <5>2
            <7> QED BY <1>2, <7>1 DEF Msg
          <6>3. t[i] = s[i]
            BY <1>3, <5>2
          <6> QED BY <6>1, <6>2, <6>3
        <5> QED BY <1>3, <5>1, <5>2
      <4>3. ASSUME NEW i \in DOMAIN t, NEW j \in DOMAIN t, t[i].reset = t[j].reset
            PROVE  t[i].seq - t[j].seq = t[i].precision - t[j].precision
        <5>1. CASE i \in DOMAIN s /\ j \in DOMAIN s
          BY <1>1, <1>3, <4>3, <5>1 DEF Numbered, InOrder, s
        <5>2. CASE i = Len(s) + 1 /\ j \in DOMAIN s
          BY <1>3, <4>3, <5>2 DEF s
        <5>3. CASE i \in DOMAIN s /\ j = Len(s) + 1
          <6>1. t[i] = s[i] /\ t[j] = m /\ s[i] \in Msg
            BY <1>2, <1>3, <5>3
          <6>2. m.seq - s[i].seq = m.precision - s[i].precision
            BY <4>3, <5>3, <6>1 DEF s
          <6>3. /\ m.seq \in Nat /\ s[i].seq \in Nat
                /\ m.precision \in Nat /\ s[i].precision \in Nat
            BY <6>1 DEF Msg
          <6>4. s[i].seq - m.seq = s[i].precision - m.precision
            BY <6>2, <6>3
          <6> QED BY <6>1, <6>4
        <5>4. CASE i = Len(s) + 1 /\ j = Len(s) + 1
          BY <1>3, <5>4 DEF Msg
        <5> QED BY <1>3, <5>1, <5>2, <5>3, <5>4
      <4>4. t[Len(t)] = m
        BY <1>3
      <4>5. InOrder(t)
        BY <4>1, <4>2, <4>3, <4>4 DEF InOrder
      <4> QED BY <1>4, <3>2, <4>5
    <3> QED BY <3>1, <3>2
  <2> QED BY <2>1 DEF Numbered
<1>9. AllCurrent'
  <2>1. ASSUME NEW q \in Publisher PROVE Current(pubs[q].ref, newest[q], sent'[q])
    <3>1. Current(pubs[q].ref, newest[q], sent[q])
      BY <1>1 DEF AllCurrent
    <3>2. \A i \in DOMAIN sent[q] : i \in DOMAIN sent'[q] /\ sent'[q][i] = sent[q][i]
      BY <1>3, <1>4 DEF s
    <3> QED BY <3>1, <3>2 DEF Current
  <2> QED BY <2>1 DEF AllCurrent
<1> QED BY <1>5, <1>7, <1>8, <1>9 DEF Inv

\* Follow: a new precision is numbered by as much as it is newer.
LEMMA FollowKeeps ==
  ASSUME Inv, NEW p \in Publisher, Follow(p)
  PROVE  Inv'
<1> DEFINE l == Now(p)
           sq == l.seq + venue.precision - l.precision
           at == l.at + 1
           pr == venue.precision
           sr == venue.src
           m == [l EXCEPT !.precision = pr, !.src = sr, !.seq = sq, !.at = at]
<1>1. l \in Msg /\ venue.precision \in Nat /\ venue.src \in SourceId
  BY LastSent DEF Inv, TypeOK
<1>2. l.at \in Nat /\ l.seq \in Nat /\ l.precision \in Nat /\ l.reset \in Nat
  BY <1>1 DEF Msg
<1>3. l.precision <= venue.precision
  BY LastSent DEF Inv, Precisions
<1>4. sq \in Nat
  <2> HIDE DEF l
  <2> QED BY <1>1, <1>2, <1>3
<1>5. sent' = [sent EXCEPT ![p] = Append(@, m)]
  <2>1. Sends(p, [l EXCEPT !.precision = venue.precision, !.src = venue.src, !.seq = sq])
    BY <1>1 DEF Follow, Msg
  <2> HIDE DEF l, sq
  <2>2. [[l EXCEPT !.precision = venue.precision, !.src = venue.src, !.seq = sq]
           EXCEPT !.at = @ + 1] = m
    BY <1>1 DEF Msg
  <2> QED BY <2>1, <2>2 DEF Sends
<1> HIDE DEF sq, l
<1>6. m \in Msg /\ m.reset = l.reset /\ m.precision = venue.precision /\ m.seq = sq
  <2>1. at \in Nat /\ pr \in Nat /\ sr \in SourceId
    BY <1>1, <1>2
  <2> HIDE DEF at, pr, sr
  <2>2. m \in Msg /\ m.reset = l.reset /\ m.precision = pr /\ m.seq = sq
    BY <1>1, <1>4, <2>1 DEF Msg
  <2> QED BY <2>2 DEF pr
<1> HIDE DEF m
<1>7. ASSUME NEW j \in DOMAIN sent[p], m.reset = sent[p][j].reset
      PROVE  m.seq - sent[p][j].seq = m.precision - sent[p][j].precision
  <2> DEFINE n == sent[p][j]
  <2>1. n \in Msg
    BY DEF Inv, TypeOK
  <2>2. n.seq \in Nat /\ n.precision \in Nat
    BY <2>1 DEF Msg
  <2>3. l.seq - n.seq = l.precision - n.precision
    BY <1>6, <1>7, LastSent DEF Inv, Numbered, InOrder, l
  <2> HIDE DEF n
  <2>4. sq - n.seq = venue.precision - n.precision
    BY <1>1, <1>2, <2>2, <2>3 DEF sq
  <2> QED BY <1>6, <2>4 DEF n
<1>8. UNCHANGED <<venue, pubs, catalog, announced, client, newest, changes>>
  BY DEF Follow
<1>9. m.precision <= venue.precision /\ Now(p).reset <= m.reset
  BY <1>1, <1>2, <1>6 DEF l
<1> QED BY <1>5, <1>6, <1>7, <1>8, <1>9, SendKeeps

\* Restart: no earlier message has the new Reset Count.
LEMMA RestartKeeps ==
  ASSUME Inv, NEW p \in Publisher, Restart(p)
  PROVE  Inv'
<1> DEFINE l == Now(p)
           at == l.at + 1
           rc == l.reset + 1
           m == [l EXCEPT !.reset = rc, !.seq = 0, !.at = at]
<1>1. l \in Msg
  BY LastSent
<1>2. l.at \in Nat /\ l.reset \in Nat
  BY <1>1 DEF Msg
<1>3. l.precision <= venue.precision
  BY LastSent DEF Inv, Precisions
<1>4. sent' = [sent EXCEPT ![p] = Append(@, m)]
  <2>1. Sends(p, [l EXCEPT !.reset = l.reset + 1, !.seq = 0])
    BY DEF Restart
  <2> HIDE DEF l
  <2>2. [[l EXCEPT !.reset = l.reset + 1, !.seq = 0] EXCEPT !.at = @ + 1] = m
    BY <1>1 DEF Msg
  <2> QED BY <2>1, <2>2 DEF Sends
<1> HIDE DEF l
<1>5. m \in Msg /\ m.reset = l.reset + 1 /\ m.precision = l.precision
  <2>1. at \in Nat /\ rc \in Nat
    BY <1>2
  <2> HIDE DEF at, rc
  <2>2. m \in Msg /\ m.reset = rc /\ m.precision = l.precision
    BY <1>1, <2>1 DEF Msg
  <2> QED BY <2>2 DEF rc
<1> HIDE DEF m
<1>6. ASSUME NEW j \in DOMAIN sent[p] PROVE m.reset # sent[p][j].reset
  <2>1. sent[p][j] \in Msg /\ sent[p][j].reset <= l.reset
    BY LastSent DEF Inv, TypeOK, Numbered, InOrder, l
  <2>2. sent[p][j].reset \in Nat
    BY <2>1 DEF Msg
  <2> QED BY <1>2, <1>5, <2>1, <2>2
<1>7. UNCHANGED <<venue, pubs, catalog, announced, client, newest, changes>>
  BY DEF Restart
<1>8. m.precision <= venue.precision /\ Now(p).reset <= m.reset
  BY <1>2, <1>3, <1>5 DEF l
<1> QED BY <1>4, <1>5, <1>6, <1>7, <1>8, SendKeeps

\* INSTRUMENT_REANNOUNCE_NS passes.
LEMMA ElapseKeeps ==
  ASSUME Inv, NEW s \in SourceId, Elapse(s)
  PROVE  Inv'
<1>1. TypeOK /\ Precisions /\ Numbered /\ AllCurrent
  BY DEF Inv
<1> DEFINE a == [announced[s] EXCEPT !.recent = FALSE]
<1>2. announced[s] \in Announced
  BY <1>1 DEF TypeOK, Elapse
<1>3. a \in Announced
  BY <1>2 DEF Announced
<1>4. announced' = [announced EXCEPT ![s] = a]
  BY <1>1 DEF Elapse, TypeOK
<1> HIDE DEF a
<1>5. announced' \in [SourceId -> Announced \cup {None}]
  BY <1>1, <1>3, <1>4 DEF TypeOK
<1>6. TypeOK'
  BY <1>1, <1>5 DEF TypeOK, Elapse
<1>7. (Precisions /\ Numbered /\ AllCurrent)'
  BY <1>1 DEF Precisions, Numbered, AllCurrent, Elapse
<1> QED BY <1>6, <1>7 DEF Inv

-----------------------------------------------------------------------------
(* The theorem.                                                            *)

\* At the start each publisher has sent one manifest, and none is taken in.
LEMMA InvStarts == Init => Inv
<1> SUFFICES ASSUME Init PROVE Inv
  OBVIOUS
<1> DEFINE m == [at |-> 1, reset |-> 0, seq |-> FirstManifest, precision |-> 0, src |-> FirstSource]
<1>1. m \in Msg /\ m.precision = 0
  BY DefinitionConstants DEF Msg
<1>2. sent = [p \in Publisher |-> <<m>>]
  BY DEF Init
<1> HIDE DEF m
<1>3. \A p \in Publisher : sent[p] = <<m>>
  BY <1>2
<1>4. NewPublisher \in Pub /\ ~NewPublisher.ref.valid
  BY DEF NewPublisher, NewRef, Pub, Ref
<1>5. TypeOK
  <2>1. sent \in [Publisher -> Seq(Msg)]
    BY <1>1, <1>2
  <2>2. pubs \in [Publisher -> Pub] /\ newest \in [Publisher -> Msg \cup {None}]
    BY <1>4 DEF Init
  <2>3. venue \in [precision : Nat, src : SourceId] /\ changes \in 0..MaxChanges
    BY DefinitionConstants DEF Init
  <2>4. /\ catalog \in Catalog /\ client \in Catalog
        /\ announced \in [SourceId -> Announced \cup {None}]
    BY DEF Init, Catalog
  <2> QED BY <2>1, <2>2, <2>3, <2>4 DEF TypeOK
<1>6. Precisions
  <2>1. venue.precision = 0 /\ changes = 0
    BY DEF Init
  <2> QED BY <1>1, <1>3, <2>1 DEF Precisions
<1>7. Numbered
  <2>1. InOrder(<<m>>)
    BY <1>1 DEF InOrder, Msg
  <2> QED BY <1>3, <2>1 DEF Numbered
<1>8. AllCurrent
  BY <1>4 DEF AllCurrent, Current, Init
<1> QED BY <1>5, <1>6, <1>7, <1>8 DEF Inv

\* Every step preserves the invariant.
LEMMA InvKept == Inv /\ [Next]_vars => Inv'
<1> SUFFICES ASSUME Inv, [Next]_vars PROVE Inv'
  OBVIOUS
<1>1. CASE Change
  BY <1>1, ChangeKeeps
<1>2. CASE \E s \in SourceId : Elapse(s)
  BY <1>2, ElapseKeeps
<1>3. ASSUME NEW p \in Publisher, Follow(p) PROVE Inv'
  BY <1>3, FollowKeeps
<1>4. ASSUME NEW p \in Publisher, Restart(p) PROVE Inv'
  BY <1>4, RestartKeeps
<1>5. ASSUME NEW p \in Publisher, ChannelReset(p) \/ EvictPublisher(p) PROVE Inv'
  <2>1. Forget(p) /\ UNCHANGED sent
    BY <1>5 DEF ChannelReset, EvictPublisher
  <2> QED BY <2>1, ForgetKeeps
<1>6. ASSUME NEW p \in Publisher, EvictAnchor(p) PROVE Inv'
  BY <1>6, EvictAnchorKeeps
<1>7. ASSUME NEW p \in Publisher, NEW i \in DOMAIN sent[p], Datagram(p, sent[p][i]) PROVE Inv'
  <2>1. CASE Price(p, sent[p][i])
    BY <2>1, PriceKeeps
  <2>2. CASE \E b \in BOOLEAN : Manifest(p, sent[p][i], b)
    BY <2>2, ManifestKeeps
  <2>3. CASE \E b \in BOOLEAN : Definition(p, sent[p][i], b)
    BY <2>3, DefinitionKeeps
  <2> QED BY <1>7, <2>1, <2>2, <2>3, Zenon DEF Datagram
<1>8. CASE UNCHANGED vars
  <2>1. TypeOK'
    BY <1>8 DEF Inv, TypeOK, vars
  <2>2. (Precisions /\ Numbered /\ AllCurrent)'
    BY <1>8 DEF Inv, Precisions, Numbered, AllCurrent, vars
  <2> QED BY <2>1, <2>2 DEF Inv
<1> QED BY <1>1, <1>2, <1>3, <1>4, <1>5, <1>6, <1>7, <1>8, Zenon DEF Next

\* RefDataState, for every ring and every order of late manifests: the definition that scales
\* a publisher's prices is that of the newest manifest taken in under its Reset Count, through
\* the wrap of the sequence, restarts, resets and evictions.
THEOREM NewestManifestScales == Spec => []NewestManifest
<1>1. Inv => NewestManifest
  BY DEF Inv, AllCurrent, Current, NewestManifest
<1> QED BY <1>1, InvStarts, InvKept, PTL DEF Spec
=============================================================================
