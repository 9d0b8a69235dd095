-------------------------- MODULE ReconcilerProofs --------------------------
(* What the reconciler and its receivers keep for every set of rows,        *)
(* channels, filters and overlapping tasks.                                 *)
EXTENDS Reconciler, TLAPS

-----------------------------------------------------------------------------
(* Feed health                                                              *)

\* What the wire says of every status key is the aggregate of its receivers.
WireAgrees(h) == \A s \in StatusKey : h.wire[s] = status_up_in(h, s)

\* g is h after a mutation of k's entry.
Moved(h, k, v, g) ==
  /\ g.up = [h.up EXCEPT ![k] = v]
  /\ \A s \in StatusKey \ {Status[k]} : s \in g.carrier_keys <=> s \in h.carrier_keys

\* with_edge: a mutation of one receiver's entry, published under its own lock, leaves
\* the wire in agreement with the aggregate of every status key.
LEMMA EdgeAgrees ==
  ASSUME NEW h \in State, NEW k \in Key, NEW v \in TapeLiveness, NEW g \in State,
         WireAgrees(h), g.wire = h.wire, Moved(h, k, v, g)
  PROVE  /\ with_edge(h, k, g) \in State
         /\ WireAgrees(with_edge(h, k, g))
         /\ with_edge(h, k, g).up = g.up
<1> DEFINE s == Status[k]
           w == with_edge(h, k, g)
<1>1. s \in StatusKey
  BY DEF StatusKey
<1>2. /\ w.up = g.up /\ w.carrier_keys = g.carrier_keys
      /\ w.wire = IF status_up_in(h, s) # status_up_in(g, s)
                  THEN [g.wire EXCEPT ![s] = status_up_in(g, s)] ELSE g.wire
      /\ w \in State
  BY <1>1 DEF with_edge, State, status_up_in
<1>3. ASSUME NEW x \in StatusKey PROVE status_up_in(w, x) <=> status_up_in(g, x)
  BY <1>2 DEF status_up_in
<1>4. ASSUME NEW x \in StatusKey, x # s PROVE status_up_in(g, x) <=> status_up_in(h, x)
  BY <1>4 DEF status_up_in, Moved, State
<1>5. ASSUME NEW x \in StatusKey PROVE w.wire[x] = status_up_in(w, x)
  <2> HIDE DEF w
  <2>1. /\ status_up_in(h, s) \in BOOLEAN /\ status_up_in(g, s) \in BOOLEAN
        /\ status_up_in(g, x) \in BOOLEAN
    BY DEF status_up_in
  <2>2. status_up_in(w, x) = status_up_in(g, x)
    BY <1>3, <1>5 DEF status_up_in
  <2>3. h.wire[x] = status_up_in(h, x) /\ h.wire[s] = status_up_in(h, s)
    BY <1>1, <1>5 DEF WireAgrees
  <2>4. g.wire \in [StatusKey -> BOOLEAN]
    BY DEF State
  <2>5. CASE x = s
    BY <1>1, <1>2, <2>1, <2>2, <2>3, <2>4, <2>5
  <2>6. CASE x # s
    <3>1. status_up_in(g, x) = status_up_in(h, x)
      BY <1>4, <1>5, <2>6 DEF status_up_in
    <3> QED BY <1>1, <1>2, <2>2, <2>3, <2>4, <2>6, <3>1
  <2> QED BY <2>5, <2>6
<1> QED
  BY <1>2, <1>5 DEF WireAgrees

\* register, deregister, set: each keeps the state well formed and the wire agreeing,
\* and moves no entry but its own.
LEMMA HealthSteps ==
  ASSUME NEW h \in State, NEW k \in Key, WireAgrees(h)
  PROVE  /\ register(h, k) \in State /\ WireAgrees(register(h, k))
         /\ register(h, k).up = [h.up EXCEPT ![k] = "Up"]
         /\ deregister(h, k) \in State /\ WireAgrees(deregister(h, k))
         /\ deregister(h, k).up = [h.up EXCEPT ![k] = "Unregistered"]
         /\ \A up \in BOOLEAN :
              /\ set(h, k, up) \in State /\ WireAgrees(set(h, k, up))
              /\ set(h, k, up).up = [h.up EXCEPT ![k] = IF up THEN "Up" ELSE "Down"]
<1> DEFINE Up == [h EXCEPT !.up[k] = "Up",
                     !.carrier_keys = @ \cup (IF carries_venue_status(k) THEN {Status[k]} ELSE {})]
           Off == [h EXCEPT !.up[k] = "Unregistered"]
           Set(up) == [h EXCEPT !.up[k] = IF up THEN "Up" ELSE "Down"]
<1>1. Up \in State /\ Up.wire = h.wire /\ Moved(h, k, "Up", Up)
  BY DEF State, TapeLiveness, StatusKey, Moved
<1>2. Off \in State /\ Off.wire = h.wire /\ Moved(h, k, "Unregistered", Off)
  BY DEF State, TapeLiveness, Moved
<1>3. ASSUME NEW up \in BOOLEAN
      PROVE  Set(up) \in State /\ Set(up).wire = h.wire
             /\ Moved(h, k, IF up THEN "Up" ELSE "Down", Set(up))
  BY DEF State, TapeLiveness, Moved
<1>4. "Up" \in TapeLiveness /\ "Unregistered" \in TapeLiveness /\ "Down" \in TapeLiveness
  BY DEF TapeLiveness
<1>5. /\ register(h, k) \in State /\ WireAgrees(register(h, k))
      /\ register(h, k).up = [h.up EXCEPT ![k] = "Up"]
  <2> HIDE DEF Up
  <2> register(h, k) = with_edge(h, k, Up)
    BY DEF register, Up
  <2> QED BY <1>1, <1>4, EdgeAgrees DEF Moved
<1>6. /\ deregister(h, k) \in State /\ WireAgrees(deregister(h, k))
      /\ deregister(h, k).up = [h.up EXCEPT ![k] = "Unregistered"]
  <2> HIDE DEF Off
  <2> deregister(h, k) = with_edge(h, k, Off)
    BY DEF deregister, Off
  <2> QED BY <1>2, <1>4, EdgeAgrees DEF Moved
<1>7. ASSUME NEW up \in BOOLEAN
      PROVE  /\ set(h, k, up) \in State /\ WireAgrees(set(h, k, up))
             /\ set(h, k, up).up = [h.up EXCEPT ![k] = IF up THEN "Up" ELSE "Down"]
  <2> HIDE DEF Set
  <2> set(h, k, up) = with_edge(h, k, Set(up))
    BY DEF set, Set
  <2> QED BY <1>3, <1>4, EdgeAgrees DEF Moved
<1> QED
  BY <1>5, <1>6, <1>7

-----------------------------------------------------------------------------
(* The inductive invariant                                                  *)

\* A task that has not bound has not been silent.
DownIsBound == \A k \in Key, i \in Incarnation : task[k][i].down => task[k][i].phase = "bound"

\* An entry that is up is some task's, bound and delivering.
UpIsBound ==
  \A k \in Key : health.up[k] = "Up" =>
    \E i \in Incarnation : task[k][i].phase = "bound" /\ ~task[k][i].down

\* Only the task in the active map, while it runs, serves the tape.
TapeIsActive ==
  \A k \in Key, i \in Incarnation : task[k][i].tape => active[k] = i /\ Live(k, i)

\* A flag that is on is an owner's, or one the publication under way has still to reach;
\* the owners of a universe are of one kind.
TapePublished ==
  \A k \in Key, i \in Incarnation : task[k][i].tape => k \in owners \/ k \in unswapped
OwnersAgree == \A j, k \in owners : Channel[j] = Channel[k] => Kind[j] = Kind[k]

IndInv ==
  /\ TypeOK /\ DownIsBound /\ WireAgrees(health) /\ UpIsBound
  /\ TapeIsActive /\ TapePublished /\ OwnersAgree

-----------------------------------------------------------------------------
(* One tick                                                                 *)

\* No task is numbered like the empty slot of the active map.
LEMMA IncarnationsAreNumbers == Incarnation \subseteq Nat /\ None \notin Incarnation
BY ReconcilerConstants DEF Incarnation

\* The parts of a tick: what it aborts and hands on at its start, what it drains at its end.
Early(now) == {k \in departed_channels(now) : reaped[k] = None}
Leavers(desired, now) ==
  {entry(k, reaped[k], departed_channels(now)) : k \in aborted(reaped, desired)}
Entries(desired, now) == handed(Early(now), draining) \cup Leavers(desired, now)
Out == {e \in draining : reaps(e)}
\* One more tick waited.
Waited(e) == [e EXCEPT !.ticks_waited = @ + 1]
Waiting == {Waited(e) : e \in draining \ Out}
Late == {e.key : e \in {e \in Out : e.purge}}

\* A step that forgets the channels of some keys, as the admitted set then in force allows.
Forgets(keys) ==
  /\ catalog' = catalog \ drops_catalog(keys, admitted')
  /\ books' = books \ drops_books(keys, admitted')

\* The start of a tick, in those parts.
LEMMA StartParts ==
  ASSUME NEW desired, NEW now, Start(desired, now)
  PROVE  /\ admitted' = now
         /\ draining' = Entries(desired, now)
         /\ Forgets(forgetting(Early(now), draining))
         /\ excused' = excused \cup {Channel[k] : k \in desired \ now}
         /\ applying' = desired
         /\ owners' = {k \in desired : owns(desired, k)}
         /\ unswapped' = {k \in desired : reaped[k] # None}
         /\ UNCHANGED health
BY DEF Start, Early, Leavers, Entries, Forgets

\* The end of a tick, in those parts.
LEMMA FinishParts ==
  ASSUME Finish
  PROVE  /\ draining' = handed(Late, Waiting)
         /\ Forgets(forgetting(Late, Waiting))
         /\ excused' = excused \cup {Channel[e.key] : e \in {e \in Out : ~finished(e)}}
         /\ applying # None /\ applying' = None /\ unswapped = {}
         /\ UNCHANGED <<admitted, owners, unswapped, health>>
BY DEF Finish, Out, Waited, Waiting, Late, Forgets

\* apply_feeds, the aborts: what is not wanted leaves the active map, its flag off.
LEMMA StartTasks ==
  ASSUME TypeOK, NEW desired \in SUBSET Key, NEW now, Start(desired, now),
         NEW k \in Key, NEW i \in Incarnation
  PROVE  /\ active'[k] = IF k \in desired THEN reaped[k] ELSE None
         /\ task'[k][i] = IF k \notin desired /\ reaped[k] = i THEN off(task[k][i]) ELSE task[k][i]
<1>1. None # i
  BY IncarnationsAreNumbers
<1>2. aborted(reaped, desired) = {j \in Key : reaped[j] # None} \ desired
  BY DEF aborted
<1>3. /\ active'[k] = IF k \in aborted(reaped, desired) THEN None ELSE reaped[k]
      /\ task'[k][i] = IF k \in aborted(reaped, desired) /\ reaped[k] = i
                       THEN off(task[k][i]) ELSE task[k][i]
  BY DEF Start
<1> QED
  BY <1>1, <1>2, <1>3

\* apply_feeds, the spawns: each on a task nothing runs on or waits for.
LEMMA FinishTasks ==
  ASSUME TypeOK, Finish, NEW k \in Key, NEW i \in Incarnation
  PROVE  \/ /\ active[k] = None /\ active'[k] = i /\ k \in applying
            /\ ~Live(k, i) /\ (\A e \in draining : e.key = k => e.task # i)
            /\ task'[k][i] = Spawned(k \in owners)
         \/ /\ active[k] = None /\ active'[k] \in Incarnation \ {i} /\ k \in applying
            /\ task'[k][i] = task[k][i]
         \/ active'[k] = active[k] /\ task'[k][i] = task[k][i]
<1> DEFINE spawned == {j \in applying : active[j] = None}
           running == [j \in Key |-> IF j \in spawned THEN CHOOSE x \in Fresh(j) : TRUE
                                     ELSE active[j]]
<1>1. /\ active' = running
      /\ \A j \in spawned : Fresh(j) # {}
      /\ task' = [j \in Key |-> [x \in Incarnation |->
                    IF j \in spawned /\ running[j] = x THEN Spawned(j \in owners) ELSE task[j][x]]]
  BY DEF Finish
<1>2. k \in spawned => running[k] \in Fresh(k)
  BY <1>1
<1>3. k \notin spawned => running[k] = active[k]
  OBVIOUS
<1>4. task'[k][i] = IF k \in spawned /\ running[k] = i THEN Spawned(k \in owners) ELSE task[k][i]
  BY <1>1
<1>5. active'[k] = running[k]
  BY <1>1
<1> HIDE DEF running
<1>6. Fresh(k) \subseteq Incarnation
  BY DEF Fresh, Incarnation
<1> QED
  BY <1>2, <1>3, <1>4, <1>5, <1>6 DEF Fresh

\* A draining entry, the tick that makes it included.
Draft == [key : Key, task : Incarnation, ticks_waited : Nat, purge : BOOLEAN]
SameTask(d, e) == d.key = e.key /\ d.task = e.task
Unique(S) == \A d, e \in S : SameTask(d, e) => d = e

\* forget_departing_channel, deferred: handing a purge over changes no entry but its flag.
LEMMA HandedEntries ==
  ASSUME NEW keys, NEW S \in SUBSET Draft, Unique(S)
  PROVE  /\ handed(keys, S) \subseteq Draft /\ Unique(handed(keys, S))
         /\ \A x \in handed(keys, S) :
              \E e \in S : SameTask(x, e) /\ x.ticks_waited = e.ticks_waited
         /\ \A e \in S :
              \E x \in handed(keys, S) : SameTask(x, e) /\ (e.purge \/ hands(keys, e) => x.purge)
<1> DEFINE f(e) == [e EXCEPT !.purge = @ \/ hands(keys, e)]
<1>1. ASSUME NEW e \in S
      PROVE  /\ f(e) \in Draft /\ SameTask(f(e), e) /\ f(e).ticks_waited = e.ticks_waited
             /\ f(e).purge = (e.purge \/ hands(keys, e))
  <2>1. (e.purge \/ hands(keys, e)) \in BOOLEAN
    OBVIOUS
  <2> QED BY <2>1 DEF Draft, SameTask
<1>2. handed(keys, S) = {f(e) : e \in S}
  BY DEF handed
<1> HIDE DEF f
<1>3. ASSUME NEW d \in S, NEW e \in S, SameTask(f(d), f(e)) PROVE f(d) = f(e)
  BY <1>1, <1>3 DEF SameTask, Unique
<1>4. \A e \in S :
         \E x \in handed(keys, S) : SameTask(x, e) /\ (e.purge \/ hands(keys, e) => x.purge)
  BY <1>1, <1>2
<1> QED
  BY <1>1, <1>2, <1>3, <1>4 DEF Unique

\* drain_departed: an entry that is not reaped waits one tick more, within the bound.
LEMMA WaitedEntries ==
  ASSUME NEW S \in SUBSET Draft, Unique(S), \A e \in S : ~reaps(e)
  PROVE  /\ {Waited(e) : e \in S} \subseteq Entry /\ Unique({Waited(e) : e \in S})
         /\ \A x \in {Waited(e) : e \in S} : \E e \in S : SameTask(x, e)
         /\ \A e \in S : SameTask(Waited(e), e) /\ Waited(e).purge = e.purge
<1>1. ASSUME NEW e \in S
      PROVE  Waited(e) \in Entry /\ SameTask(Waited(e), e) /\ Waited(e).purge = e.purge
  BY ReconcilerConstants DEF Waited, Draft, Entry, SameTask, reaps, expired
<1>2. ASSUME NEW d \in S, NEW e \in S, SameTask(Waited(d), Waited(e)) PROVE Waited(d) = Waited(e)
  BY <1>1, <1>2 DEF SameTask, Unique
<1> QED
  BY <1>1, <1>2 DEF Unique

\* apply_feeds, the aborts: what drains after them are the entries of before and the
\* tasks this tick aborted, each once.
LEMMA StartDraining ==
  ASSUME TypeOK, NEW desired \in SUBSET Key, NEW now, Start(desired, now)
  PROVE  /\ draining' \subseteq Entry /\ Unique(draining')
         /\ \A x \in draining' :
              \/ \E e \in draining : SameTask(x, e)
              \/ x.key \notin desired /\ x.task = reaped[x.key]
         /\ \A e \in draining :
              \E d \in draining' : SameTask(d, e) /\ (e.purge \/ hands(Early(now), e) => d.purge)
<1> DEFINE fresh   == Leavers(desired, now)
           entries == Entries(desired, now)
<1>1. draining' = entries
  BY StartParts
<1>2. draining \subseteq Draft /\ Unique(draining)
  BY ReconcilerConstants DEF TypeOK, Entry, Draft, Unique, SameTask
<1>3. /\ handed(Early(now), draining) \subseteq Draft /\ Unique(handed(Early(now), draining))
      /\ \A x \in handed(Early(now), draining) :
           \E e \in draining : SameTask(x, e) /\ x.ticks_waited = e.ticks_waited
      /\ \A e \in draining :
           \E d \in handed(Early(now), draining) :
             SameTask(d, e) /\ (e.purge \/ hands(Early(now), e) => d.purge)
  <2> QED BY <1>2, HandedEntries
<1>4. ASSUME NEW x \in fresh
      PROVE  /\ x \in Entry /\ x.key \notin desired
             /\ x.task = reaped[x.key] /\ x.task = active[x.key]
             /\ \A y \in fresh : SameTask(x, y) => x = y
  <2> DEFINE departed == departed_channels(now)
  <2>1. PICK j \in aborted(reaped, desired) : x = entry(j, reaped[j], departed)
    BY DEF Leavers
  <2>2. /\ j \in Key /\ j \notin desired /\ reaped[j] # None /\ reaped[j] = active[j]
        /\ reaped[j] \in Incarnation
    BY DEF aborted, reaped, TypeOK
  <2>3. (j \in departed) \in BOOLEAN
    OBVIOUS
  <2>4. x = [key |-> j, task |-> reaped[j], ticks_waited |-> 0, purge |-> j \in departed]
    BY <2>1 DEF entry
  <2>5. ASSUME NEW y \in fresh, SameTask(x, y) PROVE x = y
    <3>1. PICK l \in aborted(reaped, desired) : y = entry(l, reaped[l], departed)
      BY DEF Leavers
    <3>2. y.key = l
      BY <3>1 DEF entry
    <3>3. x.key = j
      BY <2>4
    <3>4. j = l
      BY <2>5, <3>2, <3>3 DEF SameTask
    <3> QED BY <2>1, <3>1, <3>4
  <2> HIDE DEF departed
  <2> QED BY <2>2, <2>3, <2>4, <2>5, ReconcilerConstants DEF Entry
<1>5. entries \subseteq Entry
  <2>1. ASSUME NEW x \in handed(Early(now), draining) PROVE x \in Entry
    <3>1. PICK e \in draining : x.ticks_waited = e.ticks_waited
      BY <1>3
    <3>2. x \in Draft /\ e \in Entry
      BY <1>3 DEF TypeOK
    <3> QED BY <3>1, <3>2 DEF Entry, Draft
  <2> QED BY <1>4, <2>1 DEF Entries
<1>6. Unique(entries)
  <2>1. ASSUME NEW x \in handed(Early(now), draining), NEW y \in fresh PROVE ~SameTask(x, y)
    <3>1. PICK e \in draining : SameTask(x, e)
      BY <1>3
    <3>2. active[e.key] # e.task
      BY DEF TypeOK
    <3> QED BY <1>4, <3>1, <3>2 DEF SameTask
  <2>2. ASSUME NEW x \in handed(Early(now), draining), NEW y \in fresh PROVE ~SameTask(y, x)
    BY <2>1 DEF SameTask
  <2>3. ASSUME NEW x \in entries, NEW y \in entries, SameTask(x, y) PROVE x = y
    <3>1. CASE x \in handed(Early(now), draining) /\ y \in handed(Early(now), draining)
      BY <1>3, <2>3, <3>1 DEF Unique
    <3>2. CASE x \in fresh /\ y \in fresh
      BY <1>4, <2>3, <3>2
    <3> QED BY <2>1, <2>2, <2>3, <3>1, <3>2 DEF Entries
  <2> QED BY <2>3 DEF Unique
<1>7. \A x \in entries :
         \/ \E e \in draining : SameTask(x, e)
         \/ x.key \notin desired /\ x.task = reaped[x.key]
  BY <1>3, <1>4 DEF Entries
<1>8. \A e \in draining :
         \E d \in entries : SameTask(d, e) /\ (e.purge \/ hands(Early(now), e) => d.purge)
  BY <1>3 DEF Entries
<1> QED
  BY <1>1, <1>5, <1>6, <1>7, <1>8

\* drain_departed: what is left to drain are entries of before, each once and within
\* its bound.
LEMMA FinishDraining ==
  ASSUME TypeOK, Finish
  PROVE  /\ draining' \subseteq Entry /\ Unique(draining')
         /\ \A x \in draining' : \E w \in Waiting : SameTask(x, w)
         /\ \A x \in draining' : \E e \in draining : SameTask(x, e)
         /\ \A d \in draining \ Out : \E x \in draining' : SameTask(x, d) /\ (d.purge => x.purge)
         /\ \A w \in Waiting : \E x \in draining' : SameTask(x, w) /\ (hands(Late, w) => x.purge)
<1>1. draining' = handed(Late, Waiting)
  BY FinishParts
<1>2. draining \subseteq Draft /\ Unique(draining)
  BY ReconcilerConstants DEF TypeOK, Entry, Draft, Unique, SameTask
<1>3. /\ Waiting \subseteq Entry /\ Unique(Waiting)
      /\ \A x \in Waiting : \E e \in draining \ Out : SameTask(x, e)
      /\ \A e \in draining \ Out :
           Waited(e) \in Waiting /\ SameTask(Waited(e), e) /\ Waited(e).purge = e.purge
  <2>1. Unique(draining \ Out) /\ \A e \in draining \ Out : ~reaps(e)
    BY <1>2 DEF Unique, Out
  <2>2. draining \ Out \in SUBSET Draft
    BY <1>2
  <2> QED BY <2>1, <2>2, WaitedEntries DEF Waiting
<1>4. /\ handed(Late, Waiting) \subseteq Draft /\ Unique(handed(Late, Waiting))
      /\ \A x \in handed(Late, Waiting) :
           \E e \in Waiting : SameTask(x, e) /\ x.ticks_waited = e.ticks_waited
      /\ \A w \in Waiting :
           \E x \in handed(Late, Waiting) :
             SameTask(x, w) /\ (w.purge \/ hands(Late, w) => x.purge)
  <2> Waiting \subseteq Draft
    BY <1>3, ReconcilerConstants DEF Entry, Draft
  <2> QED BY <1>3, HandedEntries
<1>5. handed(Late, Waiting) \subseteq Entry
  <2> SUFFICES ASSUME NEW x \in handed(Late, Waiting) PROVE x \in Entry
    OBVIOUS
  <2>1. PICK e \in Waiting : x.ticks_waited = e.ticks_waited
    BY <1>4
  <2> QED BY <1>3, <1>4, <2>1 DEF Entry, Draft
<1>6. ASSUME NEW x \in handed(Late, Waiting) PROVE \E e \in draining : SameTask(x, e)
  <2>1. PICK w \in Waiting : SameTask(x, w)
    BY <1>4
  <2>2. PICK e \in draining : SameTask(w, e)
    BY <1>3
  <2> QED BY <2>1, <2>2 DEF SameTask
<1>7. ASSUME NEW d \in draining \ Out
      PROVE  \E x \in handed(Late, Waiting) : SameTask(x, d) /\ (d.purge => x.purge)
  <2>1. /\ Waited(d) \in Waiting /\ SameTask(Waited(d), d) /\ Waited(d).purge = d.purge
    BY <1>3
  <2>2. PICK x \in handed(Late, Waiting) :
               SameTask(x, Waited(d)) /\ (Waited(d).purge \/ hands(Late, Waited(d)) => x.purge)
    BY <1>4, <2>1
  <2> QED BY <2>1, <2>2 DEF SameTask
<1> QED
  BY <1>1, <1>4, <1>5, <1>6, <1>7

-----------------------------------------------------------------------------
(* The steps keep the invariant                                             *)

TaskRecord == [phase : {"gone", "starting", "bound"}, down : BOOLEAN, tape : BOOLEAN]

\* Reconciler::new: nothing runs, nothing is up.
LEMMA InitKeeps == Init => IndInv
<1> SUFFICES ASSUME Init PROVE IndInv
  OBVIOUS
<1>1. health \in State /\ WireAgrees(health) /\ \A k \in Key : health.up[k] = "Unregistered"
  BY DEF Init, new, State, TapeLiveness, WireAgrees, status_up_in, StatusKey
<1>2. TypeOK
  BY <1>1 DEF Init, TypeOK, Gone
<1>3. DownIsBound /\ UpIsBound /\ TapeIsActive /\ TapePublished /\ OwnersAgree
  BY <1>1 DEF Init, DownIsBound, UpIsBound, TapeIsActive, TapePublished, OwnersAgree, Gone
<1> QED
  BY <1>1, <1>2, <1>3 DEF IndInv

\* tape_owners_by_channel: liveness, kind and base port rank the rows of a universe
\* strictly, so its owners are of one kind.
LEMMA OneOwner ==
  ASSUME TypeOK, NEW running \in SUBSET Key, NEW j \in Key, NEW k \in Key,
         Channel[j] = Channel[k], owns(running, j), owns(running, k)
  PROVE  Kind[j] = Kind[k]
<1>1. owner(running, j) = owner(running, k)
  BY DEF owner
<1>2. PICK o \in owner(running, j) : Kind[o] = Kind[j]
  BY DEF owns
<1>3. PICK p \in owner(running, j) : Kind[p] = Kind[k]
  BY <1>1 DEF owns
<1>4. CASE o # p
  <2>1. o \in Key /\ p \in Key /\ outranks(o, p) /\ outranks(p, o)
    BY <1>4 DEF owner
  <2>2. \A x \in Key : alive(x) \in Nat /\ tape_rank(x) \in Nat /\ Port[x] \in Nat
    BY ReconcilerConstants DEF TypeOK, State, alive, liveness, TapeLiveness, tape_rank
  <2> QED BY <2>1, <2>2 DEF outranks
<1> QED
  BY <1>2, <1>3, <1>4

\* A flag swapped, on a task that stays.
Kept(t, tape) == [t EXCEPT !.tape = tape]

TaskMoves(k, i, t) == task' = [task EXCEPT ![k][i] = t]

\* A receiver's step on its own task: it never takes the tape.
LEMMA TaskKeeps ==
  ASSUME IndInv, NEW k \in Key, NEW i \in Incarnation, NEW t \in TaskRecord,
         TaskMoves(k, i, t), UNCHANGED <<admitted, active, draining, ticking>>,
         health' \in State, catalog' \subseteq Channels, books' \subseteq Channels,
         t.down => t.phase = "bound",
         t.tape => task[k][i].tape /\ t.phase # "gone"
  PROVE  TypeOK' /\ DownIsBound' /\ TapeIsActive' /\ TapePublished' /\ OwnersAgree'
<1>1. task \in [Key -> [Incarnation -> TaskRecord]]
  BY DEF IndInv, TypeOK, TaskRecord
<1>2. /\ task' \in [Key -> [Incarnation -> TaskRecord]] /\ task'[k][i] = t
      /\ \A j \in Key, h \in Incarnation : ~(j = k /\ h = i) => task'[j][h] = task[j][h]
  BY <1>1 DEF TaskMoves
<1>3. TypeOK'
  BY <1>2 DEF IndInv, TypeOK, TaskRecord, ticking
<1>4. DownIsBound'
  BY <1>2 DEF IndInv, DownIsBound
<1>5. TapeIsActive'
  BY <1>2 DEF IndInv, TapeIsActive, Live
<1>6. \A j \in Key, h \in Incarnation : task'[j][h].tape => task[j][h].tape
  BY <1>2
<1>7. TapePublished' /\ OwnersAgree'
  BY <1>6 DEF IndInv, TapePublished, OwnersAgree, ticking
<1> QED
  BY <1>3, <1>4, <1>5, <1>7

\* drive, ReceiverRegistration: every step of a receiver.
LEMMA ReceiverKeeps ==
  ASSUME IndInv, NEW k \in Key, NEW i \in Incarnation,
         \/ Bind(k, i) \/ Exit(k, i) \/ Cancel(k, i) \/ Silent(k, i)
         \/ Refdata(k, i) \/ Mktdata(k, i)
  PROVE  IndInv'
<1>1. /\ health \in State /\ WireAgrees(health)
      /\ catalog \subseteq Channels /\ books \subseteq Channels
      /\ task \in [Key -> [Incarnation -> TaskRecord]] /\ task[k][i] \in TaskRecord
  BY DEF IndInv, TypeOK, TaskRecord
<1>2. Channel[k] # None => Channel[k] \in Channels
  BY DEF Channels
<1>3. health.up \in [Key -> TapeLiveness]
  BY <1>1 DEF State
<1>4. CASE Bind(k, i)
  <2> DEFINE t == [task[k][i] EXCEPT !.phase = "bound"]
  <2>1. /\ t \in TaskRecord /\ TaskMoves(k, i, t) /\ ~t.down
        /\ t.phase = "bound" /\ (t.tape => task[k][i].tape)
    BY <1>1, <1>4 DEF Bind, TaskMoves, TaskRecord, IndInv, DownIsBound
  <2>2. health' \in State /\ WireAgrees(health)' /\ health'.up = [health.up EXCEPT ![k] = "Up"]
    <3>1. health' = register(health, k)
      BY <1>4 DEF Bind
    <3>2. /\ register(health, k) \in State /\ WireAgrees(register(health, k))
          /\ register(health, k).up = [health.up EXCEPT ![k] = "Up"]
      BY <1>1, HealthSteps
    <3> QED BY <3>1, <3>2 DEF WireAgrees, status_up_in
  <2> HIDE DEF t
  <2>3. TypeOK' /\ DownIsBound' /\ TapeIsActive' /\ TapePublished' /\ OwnersAgree'
    BY <1>1, <1>4, <2>1, <2>2, TaskKeeps DEF Bind
  <2>4. UpIsBound'
    BY <1>1, <1>3, <2>1, <2>2 DEF IndInv, UpIsBound, TaskMoves
  <2> QED BY <2>2, <2>3, <2>4 DEF IndInv
<1>5. ASSUME Ends(k, i) PROVE IndInv'
  <2>1. Gone \in TaskRecord /\ TaskMoves(k, i, Gone) /\ ~Gone.down /\ ~Gone.tape
    BY <1>5 DEF Ends, TaskMoves, TaskRecord, Gone
  <2>2. /\ health' \in State /\ WireAgrees(health)'
        /\ health'.up = IF task[k][i].phase = "bound"
                        THEN [health.up EXCEPT ![k] = "Unregistered"] ELSE health.up
    <3>1. health' = IF task[k][i].phase = "bound" THEN deregister(health, k) ELSE health
      BY <1>5 DEF Ends
    <3>2. /\ deregister(health, k) \in State /\ WireAgrees(deregister(health, k))
          /\ deregister(health, k).up = [health.up EXCEPT ![k] = "Unregistered"]
      BY <1>1, HealthSteps
    <3> QED BY <1>1, <3>1, <3>2 DEF WireAgrees, status_up_in
  <2>3. TypeOK' /\ DownIsBound' /\ TapeIsActive' /\ TapePublished' /\ OwnersAgree'
    BY <1>1, <1>5, <2>1, <2>2, TaskKeeps DEF Ends
  <2>4. UpIsBound'
    BY <1>1, <1>3, <2>1, <2>2 DEF IndInv, UpIsBound, TaskMoves
  <2> QED BY <2>2, <2>3, <2>4 DEF IndInv
<1>6. CASE Silent(k, i)
  <2> DEFINE t == [task[k][i] EXCEPT !.down = TRUE]
  <2>1. /\ t \in TaskRecord /\ TaskMoves(k, i, t)
        /\ t.phase = "bound" /\ (t.tape => task[k][i].tape)
    BY <1>1, <1>6 DEF Silent, TaskMoves, TaskRecord
  <2>2. health' \in State /\ WireAgrees(health)' /\ health'.up = [health.up EXCEPT ![k] = "Down"]
    <3>1. health' = set(health, k, FALSE) /\ FALSE \in BOOLEAN
      BY <1>6 DEF Silent
    <3>2. /\ set(health, k, FALSE) \in State /\ WireAgrees(set(health, k, FALSE))
          /\ set(health, k, FALSE).up = [health.up EXCEPT ![k] = "Down"]
      BY <1>1, <3>1, HealthSteps
    <3> QED BY <3>1, <3>2 DEF WireAgrees, status_up_in
  <2> HIDE DEF t
  <2>3. TypeOK' /\ DownIsBound' /\ TapeIsActive' /\ TapePublished' /\ OwnersAgree'
    BY <1>1, <1>6, <2>1, <2>2, TaskKeeps DEF Silent
  <2>4. UpIsBound'
    BY <1>1, <1>3, <2>1, <2>2 DEF IndInv, UpIsBound, TaskMoves
  <2> QED BY <2>2, <2>3, <2>4 DEF IndInv
<1>7. CASE Refdata(k, i)
  <2>1. /\ UNCHANGED <<admitted, active, task, draining, ticking, health, books>>
        /\ catalog' \subseteq Channels
    BY <1>1, <1>2, <1>7 DEF Refdata
  <2>2. TypeOK' /\ DownIsBound' /\ TapeIsActive' /\ TapePublished' /\ OwnersAgree' /\ UpIsBound'
    BY <2>1 DEF IndInv, TypeOK, DownIsBound, TapeIsActive, Live, TapePublished, OwnersAgree,
                UpIsBound, ticking
  <2>3. WireAgrees(health)'
    BY <1>1, <2>1 DEF WireAgrees, status_up_in
  <2> QED BY <2>2, <2>3 DEF IndInv
<1>8. CASE Mktdata(k, i)
  <2> DEFINE t == [task[k][i] EXCEPT !.down = FALSE]
  <2>1. /\ t \in TaskRecord /\ TaskMoves(k, i, t) /\ ~t.down
        /\ t.phase = "bound" /\ (t.tape => task[k][i].tape)
    BY <1>1, <1>8 DEF Mktdata, TaskMoves, TaskRecord
  <2>2. /\ health' \in State /\ WireAgrees(health)'
        /\ health'.up = IF task[k][i].down THEN [health.up EXCEPT ![k] = "Up"] ELSE health.up
    <3>1. health' = (IF task[k][i].down THEN set(health, k, TRUE) ELSE health) /\ TRUE \in BOOLEAN
      BY <1>8 DEF Mktdata
    <3>2. /\ set(health, k, TRUE) \in State /\ WireAgrees(set(health, k, TRUE))
          /\ set(health, k, TRUE).up = [health.up EXCEPT ![k] = "Up"]
      BY <1>1, <3>1, HealthSteps
    <3>3. task[k][i].down \in BOOLEAN
      BY <1>1 DEF TaskRecord
    <3> QED BY <1>1, <3>1, <3>2, <3>3 DEF WireAgrees, status_up_in
  <2>3. books' \subseteq Channels /\ catalog' \subseteq Channels
    BY <1>1, <1>2, <1>8 DEF Mktdata
  <2> HIDE DEF t
  <2>4. TypeOK' /\ DownIsBound' /\ TapeIsActive' /\ TapePublished' /\ OwnersAgree'
    BY <1>8, <2>1, <2>2, <2>3, TaskKeeps DEF Mktdata
  <2>5. UpIsBound'
    BY <1>1, <1>3, <2>1, <2>2 DEF IndInv, UpIsBound, TaskMoves
  <2> QED BY <2>2, <2>4, <2>5 DEF IndInv
<1> QED
  BY <1>4, <1>5, <1>6, <1>7, <1>8 DEF Exit, Cancel

\* A step of the reconciler itself, on well-formed maps: it touches no bound task but its
\* flag, and a flag that is on is an active task's.
LEMMA TasksKeep ==
  ASSUME IndInv, UNCHANGED health,
         task' \in [Key -> [Incarnation -> TaskRecord]],
         \A k \in Key, i \in Incarnation :
           /\ task'[k][i].down => task'[k][i].phase = "bound"
           /\ task[k][i].phase = "bound" =>
                task'[k][i].phase = "bound" /\ task'[k][i].down = task[k][i].down
           /\ task'[k][i].tape =>
                /\ active'[k] = i /\ task'[k][i].phase # "gone"
                /\ k \in owners' \/ k \in unswapped'
  PROVE  DownIsBound' /\ WireAgrees(health)' /\ UpIsBound' /\ TapeIsActive' /\ TapePublished'
<1>1. DownIsBound' /\ TapeIsActive' /\ TapePublished'
  BY DEF DownIsBound, TapeIsActive, TapePublished, Live
<1>2. WireAgrees(health)'
  BY DEF IndInv, WireAgrees, status_up_in
<1>3. UpIsBound'
  <2> SUFFICES ASSUME NEW k \in Key, health.up[k] = "Up"
               PROVE  \E i \in Incarnation : task'[k][i].phase = "bound" /\ ~task'[k][i].down
    BY DEF UpIsBound
  <2>1. PICK i \in Incarnation : task[k][i].phase = "bound" /\ ~task[k][i].down
    BY DEF IndInv, UpIsBound
  <2> QED BY <2>1
<1> QED
  BY <1>1, <1>2, <1>3

\* apply_feeds, the aborts, whatever the tick is told to run.
LEMMA StartKeeps ==
  ASSUME IndInv, NEW desired \in Desired, NEW now \in Filters, Start(desired, now)
  PROVE  IndInv'
<1>1. desired \in SUBSET Key
  BY DEF Desired, desired_from_subs, Filters
<1>2. TypeOK /\ UNCHANGED health
  BY StartParts DEF IndInv
<1>3. task \in [Key -> [Incarnation -> TaskRecord]]
  BY <1>2 DEF TypeOK, TaskRecord
<1>4. /\ admitted' = now /\ catalog' \subseteq catalog /\ books' \subseteq books
      /\ task' = [k \in Key |-> [i \in Incarnation |-> task'[k][i]]]
      /\ active' = [k \in Key |-> active'[k]]
  BY DEF Start
<1>5. \A k \in Key : reaped[k] \in {active[k], None} /\ (reaped[k] # None => Live(k, reaped[k]))
  BY DEF reaped
<1>7. ASSUME NEW k \in Key PROVE active'[k] = IF k \in desired THEN reaped[k] ELSE None
  <2>1. 1 \in Incarnation
    BY ReconcilerConstants DEF Incarnation
  <2> QED BY <1>1, <1>2, <2>1, StartTasks
<1>8. ASSUME NEW k \in Key, NEW i \in Incarnation
      PROVE  /\ task'[k][i] \in TaskRecord
             /\ task'[k][i].down => task'[k][i].phase = "bound"
             /\ task[k][i].phase = "bound" =>
                  task'[k][i].phase = "bound" /\ task'[k][i].down = task[k][i].down
             /\ task'[k][i].tape =>
                  active'[k] = i /\ task'[k][i].phase # "gone" /\ k \in unswapped'
  <2>1. /\ task[k][i] \in TaskRecord /\ (task[k][i].down => task[k][i].phase = "bound")
        /\ (task[k][i].tape => active[k] = i /\ task[k][i].phase # "gone")
    BY <1>3 DEF IndInv, DownIsBound, TapeIsActive, Live
  <2>2. task[k][i].tape => reaped[k] = i
    BY <2>1, IncarnationsAreNumbers DEF reaped, Live
  <2>3. CASE k \notin desired /\ reaped[k] = i /\ task'[k][i] = off(task[k][i])
    BY <2>1, <2>3 DEF off, TaskRecord
  <2>4. CASE ~(k \notin desired /\ reaped[k] = i) /\ task'[k][i] = task[k][i]
    <3>1. task[k][i].tape => k \in desired /\ reaped[k] # None /\ active'[k] = i
      BY <1>7, <2>2, <2>4, IncarnationsAreNumbers
    <3>2. task[k][i].tape => k \in unswapped'
      BY <3>1, StartParts
    <3> QED BY <2>1, <2>4, <3>1, <3>2
  <2> QED BY <1>1, <1>2, <2>3, <2>4, StartTasks
<1>9. /\ draining' \subseteq Entry /\ Unique(draining')
      /\ \A x \in draining' :
           \/ \E e \in draining : SameTask(x, e)
           \/ x.key \notin desired /\ x.task = reaped[x.key]
  BY <1>1, <1>2, StartDraining
<1>10. ASSUME NEW x \in draining' PROVE active'[x.key] # x.task
  <2>1. x.key \in Key /\ x.task \in Incarnation /\ x.task # None
    BY <1>9, IncarnationsAreNumbers DEF Entry
  <2>2. SUFFICES ASSUME active'[x.key] = x.task PROVE FALSE
    OBVIOUS
  <2>3. reaped[x.key] = x.task /\ x.key \in desired
    BY <1>7, <2>1, <2>2
  <2>4. PICK e \in draining : SameTask(x, e)
    BY <1>9, <2>3
  <2>5. active[e.key] # e.task
    BY <1>2 DEF TypeOK
  <2> QED BY <1>5, <2>1, <2>3, <2>4, <2>5 DEF SameTask
<1>11. task' \in [Key -> [Incarnation -> TaskRecord]]
  BY <1>4, <1>8
<1>12. TypeOK'
  <2>1. active' \in [Key -> Incarnation \cup {None}]
    BY <1>2, <1>4, <1>5, <1>7 DEF TypeOK
  <2>2. /\ applying' \in {None} \cup SUBSET Key /\ owners' \subseteq Key
        /\ unswapped' \subseteq {k \in Key : active'[k] # None}
    BY <1>1, <1>7, StartParts
  <2> QED BY <1>2, <1>4, <1>9, <1>10, <1>11, <2>1, <2>2 DEF TypeOK, TaskRecord, Unique, SameTask
<1>13. OwnersAgree'
  <2> SUFFICES ASSUME NEW j \in owners', NEW k \in owners', Channel[j] = Channel[k]
               PROVE  Kind[j] = Kind[k]
    BY DEF OwnersAgree
  <2>1. /\ j \in Key /\ k \in Key /\ owns(desired, j) /\ owns(desired, k)
    BY <1>1, StartParts
  <2> QED BY <1>1, <1>2, <2>1, OneOwner
<1>14. DownIsBound' /\ WireAgrees(health)' /\ UpIsBound' /\ TapeIsActive' /\ TapePublished'
  BY <1>2, <1>8, <1>11, TasksKeep
<1> QED
  BY <1>12, <1>13, <1>14 DEF IndInv

\* publish_tape_owners: one flag, the others as they were.
LEMMA PublishKeeps ==
  ASSUME IndInv, NEW k \in Key, publish_tape_owners(k)
  PROVE  IndInv'
<1>1. /\ TypeOK /\ task \in [Key -> [Incarnation -> TaskRecord]]
      /\ UNCHANGED <<admitted, active, draining, applying, owners, health, catalog, books>>
      /\ unswapped' = unswapped \ {k}
  BY DEF IndInv, TypeOK, TaskRecord, publish_tape_owners
<1> DEFINE a == active[k]
           v == k \in owners /\ Live(k, a)
<1>2. a \in Incarnation
  BY <1>1 DEF publish_tape_owners, TypeOK
<1>3. task' = [task EXCEPT ![k][a].tape = v] /\ v \in BOOLEAN
  BY DEF publish_tape_owners
<1>4. /\ task' \in [Key -> [Incarnation -> TaskRecord]]
      /\ task'[k][a] = Kept(task[k][a], v)
      /\ \A j \in Key, i \in Incarnation : ~(j = k /\ i = a) => task'[j][i] = task[j][i]
  <2> HIDE DEF v, a
  <2>1. task[k][a] \in TaskRecord
    BY <1>1, <1>2
  <2>2. Kept(task[k][a], v) \in TaskRecord
    BY <1>3, <2>1 DEF Kept, TaskRecord
  <2>3. task' = [task EXCEPT ![k][a] = Kept(task[k][a], v)]
    BY <1>1, <1>2, <1>3 DEF Kept
  <2> HIDE DEF Kept
  <2> QED BY <1>1, <1>2, <2>2, <2>3
<1>5. ASSUME NEW j \in Key, NEW i \in Incarnation
      PROVE  /\ task'[j][i].down => task'[j][i].phase = "bound"
             /\ task[j][i].phase = "bound" =>
                  task'[j][i].phase = "bound" /\ task'[j][i].down = task[j][i].down
             /\ task'[j][i].tape =>
                  /\ active'[j] = i /\ task'[j][i].phase # "gone"
                  /\ j \in owners' \/ j \in unswapped'
  <2>1. /\ task[j][i] \in TaskRecord /\ (task[j][i].down => task[j][i].phase = "bound")
        /\ (task[j][i].tape => active[j] = i /\ task[j][i].phase # "gone")
        /\ (task[j][i].tape => j \in owners \/ j \in unswapped)
    BY <1>1 DEF IndInv, DownIsBound, TapeIsActive, TapePublished, Live
  <2>2. CASE j = k /\ i = a
    BY <1>1, <1>3, <1>4, <2>1, <2>2 DEF Kept, TaskRecord, Live
  <2>3. CASE j = k /\ i # a
    BY <1>1, <1>4, <2>1, <2>3
  <2>4. CASE j # k
    BY <1>1, <1>4, <2>1, <2>4
  <2> QED BY <2>2, <2>3, <2>4
<1>6. TypeOK'
  BY <1>1, <1>4 DEF TypeOK, TaskRecord
<1>7. OwnersAgree'
  BY <1>1 DEF IndInv, OwnersAgree
<1> QED
  BY <1>1, <1>4, <1>5, <1>6, <1>7, TasksKeep DEF IndInv

\* The spawns and drain_departed.
LEMMA FinishKeeps ==
  ASSUME IndInv, Finish
  PROVE  IndInv'
<1>1. /\ TypeOK /\ task \in [Key -> [Incarnation -> TaskRecord]]
      /\ UNCHANGED <<admitted, owners, unswapped, health>> /\ unswapped = {} /\ applying' = None
  BY FinishParts DEF IndInv, TypeOK, TaskRecord
<1>2. /\ catalog' \subseteq catalog /\ books' \subseteq books
      /\ task' = [k \in Key |-> [i \in Incarnation |-> task'[k][i]]]
      /\ active' = [k \in Key |-> active'[k]]
  BY DEF Finish
<1>3. ASSUME NEW k \in Key, NEW i \in Incarnation
      PROVE  /\ task'[k][i] \in TaskRecord
             /\ task'[k][i].down => task'[k][i].phase = "bound"
             /\ task[k][i].phase = "bound" =>
                  task'[k][i].phase = "bound" /\ task'[k][i].down = task[k][i].down
             /\ task'[k][i].tape =>
                  active'[k] = i /\ task'[k][i].phase # "gone" /\ k \in owners'
  <2>1. /\ task[k][i] \in TaskRecord /\ (task[k][i].down => task[k][i].phase = "bound")
        /\ (task[k][i].tape => active[k] = i /\ task[k][i].phase # "gone" /\ k \in owners)
    BY <1>1 DEF IndInv, DownIsBound, TapeIsActive, TapePublished, Live
  <2>2. (k \in owners) \in BOOLEAN
    OBVIOUS
  <2>3. CASE ~Live(k, i) /\ active'[k] = i /\ task'[k][i] = Spawned(k \in owners)
    BY <1>1, <2>1, <2>2, <2>3 DEF Spawned, Live, TaskRecord
  <2>4. CASE active[k] = None /\ task'[k][i] = task[k][i]
    BY <1>1, <2>1, <2>4, IncarnationsAreNumbers
  <2>5. CASE active'[k] = active[k] /\ task'[k][i] = task[k][i]
    BY <1>1, <2>1, <2>5
  <2> QED BY <1>1, <2>3, <2>4, <2>5, FinishTasks
<1>4. /\ draining' \subseteq Entry /\ Unique(draining')
      /\ \A x \in draining' : \E e \in draining : SameTask(x, e)
  BY <1>1, FinishDraining
<1>5. ASSUME NEW k \in Key PROVE active'[k] \in Incarnation \cup {None}
  <2>1. 1 \in Incarnation /\ active[k] \in Incarnation \cup {None}
    BY <1>1, ReconcilerConstants DEF Incarnation, TypeOK
  <2> QED BY <1>1, <2>1, FinishTasks
<1>6. ASSUME NEW x \in draining' PROVE active'[x.key] # x.task
  <2>1. x.key \in Key /\ x.task \in Incarnation
    BY <1>4 DEF Entry
  <2>2. PICK e \in draining : SameTask(x, e)
    BY <1>4
  <2>3. active[x.key] # x.task /\ e.key = x.key /\ e.task = x.task
    BY <1>1, <2>2 DEF TypeOK, SameTask
  <2>4. \/ \A d \in draining : d.key = x.key => d.task # x.task
        \/ active'[x.key] \in Incarnation \ {x.task}
        \/ active'[x.key] = active[x.key]
    BY <1>1, <2>1, FinishTasks
  <2> QED BY <2>3, <2>4
<1>7. task' \in [Key -> [Incarnation -> TaskRecord]]
  BY <1>2, <1>3
<1>8. TypeOK'
  <2>1. active' \in [Key -> Incarnation \cup {None}]
    BY <1>2, <1>5
  <2> QED BY <1>1, <1>2, <1>4, <1>6, <1>7, <2>1 DEF TypeOK, TaskRecord, Unique, SameTask
<1>9. OwnersAgree'
  BY <1>1 DEF IndInv, OwnersAgree
<1> QED
  BY <1>1, <1>3, <1>7, <1>8, <1>9, TasksKeep DEF IndInv

\* Every step of a receiver or of the poll loop.
LEMMA NextKeeps == IndInv /\ [Next]_vars => IndInv'
<1> SUFFICES ASSUME IndInv, [Next]_vars PROVE IndInv'
  OBVIOUS
<1>1. CASE UNCHANGED vars
  BY <1>1 DEF vars, ticking, IndInv, TypeOK, DownIsBound, WireAgrees, status_up_in, UpIsBound,
              TapeIsActive, Live, TapePublished, OwnersAgree
<1>2. CASE Tick
  BY <1>2, StartKeeps, PublishKeeps, FinishKeeps DEF Tick
<1>3. ASSUME NEW k \in Key, NEW i \in Incarnation,
             \/ Bind(k, i) \/ Exit(k, i) \/ Cancel(k, i) \/ Silent(k, i)
             \/ Refdata(k, i) \/ Mktdata(k, i)
      PROVE  IndInv'
  BY <1>3, ReceiverKeeps
<1> QED
  BY <1>1, <1>2, <1>3 DEF Next

-----------------------------------------------------------------------------
(* The theorems                                                             *)

\* The invariant holds in every behaviour of the reconciler and its receivers.
LEMMA Inductive == Spec => []IndInv
BY InitKeeps, NextKeeps, PTL DEF Spec

\* The active map, the tasks and the draining list stay well formed, whatever order
\* receivers and ticks come in: no task is draining twice, or active and draining.
THEOREM TypeCorrect == Spec => []TypeOK
<1>1. IndInv => TypeOK
  BY DEF IndInv
<1> QED
  BY <1>1, Inductive, PTL

\* ReceiverRegistration: the wire never says a venue is up that no receiver delivers.
THEOREM VenueNeverPinnedUp == Spec => []NeverPinnedUp
<1>1. IndInv => NeverPinnedUp
  <2> SUFFICES ASSUME IndInv, NEW s \in StatusKey, health.wire[s]
               PROVE  \E k \in Key, i \in Incarnation :
                        /\ Status[k] = s /\ task[k][i].phase = "bound" /\ ~task[k][i].down
                        /\ s \in health.carrier_keys => carries_venue_status(k)
    BY DEF NeverPinnedUp
  <2>1. status_up_in(health, s)
    BY DEF IndInv, WireAgrees
  <2>2. PICK k \in Key : /\ Status[k] = s /\ health.up[k] = "Up"
                         /\ s \in health.carrier_keys => carries_venue_status(k)
    BY <2>1 DEF status_up_in
  <2>3. PICK i \in Incarnation : task[k][i].phase = "bound" /\ ~task[k][i].down
    BY <2>2 DEF IndInv, UpIsBound
  <2> QED BY <2>2, <2>3
<1> QED
  BY <1>1, Inductive, PTL

\* tape_rank, publish_tape_owners: one row serves a universe's tape, however the owner
\* moves, whichever aborted tasks still run and in whatever order the flags are swapped,
\* but for a row whose own swap to off is still to come in the loop under way.
THEOREM TapeHasOneRow == Spec => []OneTape
<1>1. IndInv => OneTape
  <2> SUFFICES ASSUME IndInv, NEW j \in Key, NEW k \in Key, NEW h \in Incarnation,
                      NEW i \in Incarnation, task[j][h].tape, task[k][i].tape,
                      Channel[j] = Channel[k], Kind[j] # Kind[k]
               PROVE  \/ active[j] = h /\ j \in unswapped \ owners
                      \/ active[k] = i /\ k \in unswapped \ owners
    BY DEF OneTape
  <2>1. active[j] = h /\ active[k] = i
    BY DEF IndInv, TapeIsActive
  <2>2. j \notin owners \/ k \notin owners
    BY DEF IndInv, OwnersAgree
  <2> QED BY <2>1, <2>2 DEF IndInv, TapePublished
<1> QED
  BY <1>1, Inductive, PTL

\* last_filter_admitted: only a narrowing of the filter drops what a row supplies.
THEOREM PurgesNarrow == Spec => OnlyNarrowingPurges
<1> DEFINE Narrows ==
             /\ \A c \in catalog \ catalog' : \A k \in admitted' : Channel[k] # c
             /\ \A c \in books \ books' : \A k \in admitted' : Channel[k] = c => ~builds_books(k)
<1>1. Next => Narrows
  <2> SUFFICES ASSUME Next PROVE Narrows
    OBVIOUS
  <2>1. ASSUME NEW forget, Forgets(forget) PROVE Narrows
    <3>1. \A c \in drops_catalog(forget, admitted'), k \in admitted' : Channel[k] # c
      BY DEF drops_catalog, siblings
    <3>2. \A c \in drops_books(forget, admitted'), k \in admitted' :
             Channel[k] = c => ~builds_books(k)
      BY DEF drops_books, siblings
    <3> QED BY <2>1, <3>1, <3>2 DEF Forgets
  <2>3. CASE Tick
    <3>1. ASSUME NEW desired, NEW now, Start(desired, now) PROVE Narrows
      BY <2>1, <3>1, StartParts
    <3>2. CASE Finish
      BY <2>1, <3>2, FinishParts
    <3>3. ASSUME NEW k \in Key, publish_tape_owners(k) PROVE Narrows
      BY <3>3 DEF publish_tape_owners
    <3> QED BY <2>3, <3>1, <3>2, <3>3 DEF Tick
  <2>2. ASSUME NEW k \in Key, NEW i \in Incarnation,
               \/ Bind(k, i) \/ Exit(k, i) \/ Cancel(k, i) \/ Silent(k, i)
               \/ Refdata(k, i) \/ Mktdata(k, i)
        PROVE  Narrows
    BY <2>2 DEF Bind, Exit, Cancel, Ends, Silent, Refdata, Mktdata
  <2> QED BY <2>2, <2>3 DEF Next
<1>2. [Next]_vars => [Narrows]_vars
  BY <1>1
<1> QED
  BY <1>2, PTL DEF Spec, OnlyNarrowingPurges

-----------------------------------------------------------------------------
(* A departed channel goes dark                                             *)

Builders == {k \in Key : builds_books(k)}

\* What a channel holds has a purge on its way, or an admitted row of P that supplies
\* it, or is excused.
Due(c) == \E e \in draining : e.purge /\ Channel[e.key] = c
Supplied(P, c) == \E k \in admitted \cap P : Channel[k] = c
Covered(P, c) == Due(c) \/ Supplied(P, c) \/ c \in excused

\* A receiver runs for an admitted channel, and one that was aborted and still runs is
\* waited for.
ActiveHeld == \A k \in Key : active[k] # None => k \in admitted \/ Channel[k] \in excused
TasksHeld ==
  \A k \in Key, i \in Incarnation : Live(k, i) =>
    \/ active[k] = i
    \/ \E e \in draining : e.key = k /\ e.task = i
    \/ Channel[k] \in excused
DrainHeld(P) ==
  \A e \in draining : e.key \in P /\ Channel[e.key] # None => Covered(P, Channel[e.key])

\* The receivers the tick under way has still to spawn are admitted too.
AppliedHeld ==
  applying # None => \A k \in applying : k \in admitted \/ Channel[k] \in excused

DarkInv ==
  /\ ActiveHeld /\ AppliedHeld /\ TasksHeld /\ DrainHeld(Key) /\ DrainHeld(Builders)
  /\ \A c \in catalog : Covered(Key, c)
  /\ \A c \in books : Covered(Builders, c)

\* The row of k departs with this tick: its receiver is aborted with a purge, or had
\* exited and the purge is handed to what still drains on the channel, or runs now.
LEMMA DepartureIsDue ==
  ASSUME TypeOK, NEW desired \in SUBSET Key, NEW now, Start(desired, now), NEW c, c # None,
         c \notin excused', NEW k \in admitted, k \notin now, k \in Key, Channel[k] = c
  PROVE  \/ Due(c)'
         \/ /\ \A e \in draining : Channel[e.key] # c
            /\ \E j \in forgetting(Early(now), draining) : Channel[j] = c
<1>1. k \in departed_channels(now)
  BY DEF departed_channels
<1>2. CASE reaped[k] = None
  <2>1. k \in Early(now)
    BY <1>1, <1>2 DEF Early
  <2>2. CASE \E e \in draining : Channel[e.key] = c
    <3>1. PICK e \in draining : Channel[e.key] = c
      BY <2>2
    <3>2. hands(Early(now), e)
      BY <2>1, <3>1 DEF hands
    <3>3. PICK d \in draining' : SameTask(d, e) /\ (e.purge \/ hands(Early(now), e) => d.purge)
      BY StartDraining
    <3> QED BY <3>1, <3>2, <3>3 DEF SameTask, Due
  <2>3. CASE \A e \in draining : Channel[e.key] # c
    BY <2>1, <2>3 DEF forgetting
  <2> QED BY <2>2, <2>3
<1>3. CASE reaped[k] # None
  <2>1. k \notin desired
    BY StartParts
  <2>2. entry(k, reaped[k], departed_channels(now)) \in draining'
    BY <1>3, <2>1, StartParts DEF Entries, Leavers, aborted
  <2>3. /\ entry(k, reaped[k], departed_channels(now)).key = k
        /\ entry(k, reaped[k], departed_channels(now)).purge
    BY <1>1 DEF entry
  <2> QED BY <2>2, <2>3 DEF Due
<1> QED
  BY <1>2, <1>3

\* A purge that is due stays due through the aborts.
LEMMA DueAtStart ==
  ASSUME TypeOK, NEW desired \in SUBSET Key, NEW now, Start(desired, now), NEW c, Due(c)
  PROVE  Due(c)'
<1>1. PICK e \in draining : e.purge /\ Channel[e.key] = c
  BY DEF Due
<1>2. PICK d \in draining' : SameTask(d, e) /\ (e.purge \/ hands(Early(now), e) => d.purge)
  BY StartDraining
<1> QED
  BY <1>1, <1>2 DEF Due, SameTask

\* drain_departed: a purge that is due runs in this tick, or waits on.
LEMMA DueAtFinish ==
  ASSUME TypeOK, Finish, NEW c, c # None, Due(c)
  PROVE  \/ Due(c)'
         \/ /\ \A w \in Waiting : Channel[w.key] # c
            /\ \E k \in forgetting(Late, Waiting) : Channel[k] = c
<1>1. PICK d \in draining : d.purge /\ Channel[d.key] = c
  BY DEF Due
<1>2. CASE d \notin Out
  <2>1. PICK x \in draining' : SameTask(x, d) /\ (d.purge => x.purge)
    BY <1>2, FinishDraining
  <2> QED BY <1>1, <2>1 DEF Due, SameTask
<1>3. CASE d \in Out
  <2>1. d.key \in Late
    BY <1>1, <1>3 DEF Late
  <2>2. CASE \E w \in Waiting : Channel[w.key] = c
    <3>1. PICK w \in Waiting : Channel[w.key] = c
      BY <2>2
    <3>2. hands(Late, w)
      BY <1>1, <2>1, <3>1 DEF hands
    <3>3. PICK x \in draining' : SameTask(x, w) /\ (hands(Late, w) => x.purge)
      BY FinishDraining
    <3> QED BY <3>1, <3>2, <3>3 DEF Due, SameTask
  <2>3. CASE \A w \in Waiting : Channel[w.key] # c
    BY <1>1, <2>1, <2>3 DEF forgetting
  <2> QED BY <2>2, <2>3
<1> QED
  BY <1>2, <1>3

\* forget_departing_channel: a covered channel stays covered through a step of the
\* reconciler, or is purged in it.
LEMMA StartCovers ==
  ASSUME TypeOK, NEW desired \in SUBSET Key, NEW now, Start(desired, now),
         NEW P \in SUBSET Key, NEW c, c # None, Covered(P, c)
  PROVE  Covered(P, c)' \/ \E k \in forgetting(Early(now), draining) : Channel[k] = c
<1> SUFFICES ASSUME c \notin excused', ~Supplied(P, c)'
             PROVE  Due(c)' \/ \E k \in forgetting(Early(now), draining) : Channel[k] = c
  BY DEF Covered
<1>1. c \notin excused /\ admitted' = now
  BY StartParts
<1>2. CASE Due(c)
  BY <1>2, DueAtStart
<1>3. CASE Supplied(P, c)
  <2>1. PICK k \in admitted : k \in P /\ Channel[k] = c
    BY <1>3 DEF Supplied
  <2>2. k \notin now /\ k \in Key
    BY <1>1, <2>1 DEF Supplied
  <2> QED BY <2>1, <2>2, DepartureIsDue
<1> QED
  BY <1>1, <1>2, <1>3 DEF Covered

LEMMA FinishCovers ==
  ASSUME TypeOK, Finish, NEW P \in SUBSET Key, NEW c, c # None, Covered(P, c)
  PROVE  Covered(P, c)' \/ \E k \in forgetting(Late, Waiting) : Channel[k] = c
<1>1. excused \subseteq excused' /\ admitted' = admitted
  BY FinishParts
<1>2. Supplied(P, c) => Supplied(P, c)'
  BY <1>1 DEF Supplied
<1> QED
  BY <1>1, <1>2, DueAtFinish DEF Covered

\* Every step of the reconciler leaves what it purges nowhere and the rest covered.
LEMMA ForgetsWell ==
  ASSUME TypeOK, DarkInv, admitted' \subseteq Key, NEW F \in SUBSET Key, Forgets(F),
         ASSUME NEW P \in SUBSET Key, NEW c, c # None, Covered(P, c)
         PROVE  Covered(P, c)' \/ \E k \in F : Channel[k] = c
  PROVE  /\ \A c \in catalog' : Covered(Key, c)'
         /\ \A c \in books' : Covered(Builders, c)'
<1>1. Builders \in SUBSET Key /\ Key \in SUBSET Key
  BY DEF Builders
<1>2. ASSUME NEW c \in catalog' PROVE Covered(Key, c)'
  <2>1. c \in catalog /\ c # None /\ c \notin drops_catalog(F, admitted')
    BY DEF TypeOK, Channels, Forgets
  <2>2. ASSUME NEW k \in F, Channel[k] = c PROVE Supplied(Key, c)'
    <3>1. siblings(k, admitted') # {}
      BY <2>1, <2>2 DEF drops_catalog
    <3> QED BY <2>2, <3>1 DEF siblings, Supplied
  <2> QED BY <1>1, <2>1, <2>2 DEF DarkInv, Covered
<1>3. ASSUME NEW c \in books' PROVE Covered(Builders, c)'
  <2>1. c \in books /\ c # None /\ c \notin drops_books(F, admitted')
    BY DEF TypeOK, Channels, Forgets
  <2>2. ASSUME NEW k \in F, Channel[k] = c PROVE Supplied(Builders, c)'
    <3>1. \E s \in siblings(k, admitted') : builds_books(s)
      BY <2>1, <2>2 DEF drops_books
    <3> QED BY <2>2, <3>1 DEF siblings, Supplied, Builders
  <2> QED BY <1>1, <2>1, <2>2 DEF DarkInv, Covered
<1> QED
  BY <1>2, <1>3

\* An entry left to drain is covered: its own abort, or one before it, saw the departure.
LEMMA DrainHeldAtStart ==
  ASSUME TypeOK, ActiveHeld, NEW desired \in SUBSET Key, NEW now, Start(desired, now),
         NEW P \in SUBSET Key, DrainHeld(P)
  PROVE  DrainHeld(P)'
<1> SUFFICES ASSUME NEW x \in draining', x.key \in P, NEW c, c = Channel[x.key], c # None,
                    c \notin excused', ~Supplied(P, c)'
             PROVE  Due(c)'
  BY DEF DrainHeld, Covered
<1>1. c \notin excused /\ admitted' = now
  BY StartParts
<1>2. ASSUME NEW e \in draining, SameTask(x, e) PROVE Due(c)'
  <2>1. Channel[e.key] = c /\ e.key \in P
    BY <1>2 DEF SameTask
  <2>2. CASE Due(c)
    BY <2>2, DueAtStart
  <2>3. CASE Supplied(P, c)
    <3>1. PICK k \in admitted : k \in P /\ Channel[k] = c
      BY <2>3 DEF Supplied
    <3>2. k \notin now /\ k \in Key
      BY <1>1, <3>1 DEF Supplied
    <3> QED BY <2>1, <3>1, <3>2, DepartureIsDue
  <2> QED BY <1>1, <2>1, <2>2, <2>3 DEF DrainHeld, Covered
<1>3. CASE x.key \notin desired /\ x.task = reaped[x.key]
  <2> DEFINE k == x.key
             d == entry(k, reaped[k], departed_channels(now))
  <2>1. k \in Key /\ reaped[k] # None /\ active[k] # None
    <3>1. x \in Entry
      BY StartDraining
    <3> QED BY <1>3, <3>1, IncarnationsAreNumbers DEF Entry, reaped
  <2>2. k \in admitted /\ k \notin now
    BY <1>1, <2>1 DEF ActiveHeld, Supplied
  <2>3. d \in draining'
    BY <1>3, <2>1, StartParts DEF Entries, Leavers, aborted
  <2>4. d.purge /\ d.key = k
    BY <2>2 DEF entry, departed_channels
  <2> HIDE DEF d
  <2> QED BY <2>3, <2>4 DEF Due
<1> QED
  BY <1>2, <1>3, StartDraining

LEMMA DrainHeldAtFinish ==
  ASSUME TypeOK, Finish, NEW P \in SUBSET Key, DrainHeld(P)
  PROVE  DrainHeld(P)'
<1> SUFFICES ASSUME NEW x \in draining', x.key \in P, NEW c, c = Channel[x.key], c # None
             PROVE  Covered(P, c)'
  BY DEF DrainHeld
<1>1. PICK w \in Waiting : SameTask(x, w)
  BY FinishDraining
<1>2. PICK e \in draining : SameTask(x, e)
  BY FinishDraining
<1>3. Covered(P, c) /\ Channel[w.key] = c
  BY <1>1, <1>2 DEF DrainHeld, SameTask
<1>4. excused \subseteq excused' /\ admitted' = admitted
  BY FinishParts
<1>5. Due(c) => Due(c)'
  BY <1>3, DueAtFinish
<1> QED
  BY <1>3, <1>4, <1>5 DEF Covered, Supplied

\* The aborts leave every channel covered, and every running task held.
LEMMA StartStaysDark ==
  ASSUME TypeOK, DarkInv, NEW desired \in Desired, NEW now \in Filters, Start(desired, now)
  PROVE  DarkInv'
<1>1. desired \in SUBSET Key /\ now \in SUBSET Key
  BY DEF Desired, desired_from_subs, Filters
<1>2. Builders \in SUBSET Key /\ Key \in SUBSET Key
  BY DEF Builders
<1>4. AppliedHeld' /\ ActiveHeld'
  <2>1. \A k \in desired : k \in admitted' \/ Channel[k] \in excused'
    BY StartParts
  <2>2. ASSUME NEW k \in Key, active'[k] # None PROVE k \in desired
    <3>1. 1 \in Incarnation
      BY ReconcilerConstants DEF Incarnation
    <3> QED BY <1>1, <2>2, <3>1, StartTasks
  <2> QED BY <2>1, <2>2, StartParts DEF AppliedHeld, ActiveHeld
<1>5. TasksHeld'
  <2> SUFFICES ASSUME NEW k \in Key, NEW i \in Incarnation, task'[k][i].phase # "gone",
                      active'[k] # i, Channel[k] \notin excused'
               PROVE  \E e \in draining' : e.key = k /\ e.task = i
    BY DEF TasksHeld, Live
  <2>1. Live(k, i)
    <3>1. task[k][i] \in TaskRecord
      BY DEF TypeOK, TaskRecord
    <3>2. task'[k][i] = off(task[k][i]) \/ task'[k][i] = task[k][i]
      BY <1>1, StartTasks
    <3>3. off(task[k][i]).phase = task[k][i].phase
      BY <3>1 DEF off, TaskRecord
    <3> QED BY <3>2, <3>3 DEF Live
  <2>2. CASE k \notin desired /\ reaped[k] = i
    <3>1. entry(k, i, departed_channels(now)) \in draining'
      BY <2>2, IncarnationsAreNumbers, StartParts DEF Entries, Leavers, aborted
    <3> QED BY <3>1 DEF entry
  <2>3. CASE reaped[k] # i
    <3>1. active[k] # i
      BY <2>1, <2>3, IncarnationsAreNumbers DEF reaped
    <3>2. PICK e \in draining : e.key = k /\ e.task = i
      BY <2>1, <3>1, StartParts DEF DarkInv, TasksHeld
    <3>3. PICK d \in draining' : SameTask(d, e)
      BY <1>1, StartDraining
    <3> QED BY <3>2, <3>3 DEF SameTask
  <2> QED BY <1>1, <2>2, <2>3, StartTasks
<1>6. DrainHeld(Key)' /\ DrainHeld(Builders)'
  <2>1. DrainHeld(Key)'
    BY <1>1, <1>2, DrainHeldAtStart DEF DarkInv
  <2> DEFINE B == Builders
  <2>2. DrainHeld(B)'
    BY <1>1, <1>2, DrainHeldAtStart DEF DarkInv
  <2> QED BY <2>1, <2>2
<1>7. /\ \A c \in catalog' : Covered(Key, c)'
      /\ \A c \in books' : Covered(Builders, c)'
  <2> DEFINE F == forgetting(Early(now), draining)
  <2>1. F \in SUBSET Key /\ Forgets(F) /\ admitted' \subseteq Key
    <3>1. Early(now) \subseteq Key
      BY DEF Early, departed_channels, TypeOK, Filters
    <3> QED BY <1>1, <3>1, StartParts DEF forgetting
  <2>2. ASSUME NEW P \in SUBSET Key, NEW c, c # None, Covered(P, c)
        PROVE  Covered(P, c)' \/ \E k \in F : Channel[k] = c
    BY <1>1, <2>2, StartCovers
  <2> HIDE DEF F
  <2> QED BY <2>1, <2>2, ForgetsWell
<1> QED
  BY <1>4, <1>5, <1>6, <1>7 DEF DarkInv

\* The spawns and drain_departed, likewise.
LEMMA FinishStaysDark ==
  ASSUME TypeOK, DarkInv, Finish
  PROVE  DarkInv'
<1>1. Builders \in SUBSET Key /\ Key \in SUBSET Key
  BY DEF Builders
<1>2. /\ excused \subseteq excused' /\ admitted' = admitted /\ admitted \subseteq Key
      /\ applying # None /\ applying' = None
      /\ \A e \in Out : ~finished(e) => Channel[e.key] \in excused'
  BY FinishParts DEF TypeOK, Filters
<1>3. AppliedHeld' /\ ActiveHeld'
  <2> SUFFICES ASSUME NEW k \in Key, active'[k] # None
               PROVE  k \in admitted' \/ Channel[k] \in excused'
    BY <1>2 DEF AppliedHeld, ActiveHeld
  <2>1. 1 \in Incarnation
    BY ReconcilerConstants DEF Incarnation
  <2>2. active[k] # None \/ k \in applying
    BY <2>1, FinishTasks
  <2> QED BY <1>2, <2>2 DEF DarkInv, AppliedHeld, ActiveHeld
<1>4. TasksHeld'
  <2> SUFFICES ASSUME NEW k \in Key, NEW i \in Incarnation, task'[k][i].phase # "gone",
                      active'[k] # i, Channel[k] \notin excused'
               PROVE  \E e \in draining' : e.key = k /\ e.task = i
    BY DEF TasksHeld, Live
  <2>1. Live(k, i) /\ active[k] # i
    BY FinishTasks, IncarnationsAreNumbers DEF Live
  <2>2. PICK d \in draining : d.key = k /\ d.task = i
    BY <1>2, <2>1 DEF DarkInv, TasksHeld
  <2>3. d \notin Out
    BY <1>2, <2>1, <2>2 DEF finished
  <2> QED BY <2>2, <2>3, FinishDraining DEF SameTask
<1>5. DrainHeld(Key)' /\ DrainHeld(Builders)'
  <2>1. DrainHeld(Key)'
    BY <1>1, DrainHeldAtFinish DEF DarkInv
  <2> DEFINE B == Builders
  <2>2. DrainHeld(B)'
    BY <1>1, DrainHeldAtFinish DEF DarkInv
  <2> QED BY <2>1, <2>2
<1>6. /\ \A c \in catalog' : Covered(Key, c)'
      /\ \A c \in books' : Covered(Builders, c)'
  <2> DEFINE F == forgetting(Late, Waiting)
  <2>1. F \in SUBSET Key /\ Forgets(F)
    <3>1. Late \subseteq Key
      BY DEF Late, Out, TypeOK, Entry
    <3> QED BY <3>1, FinishParts DEF forgetting
  <2>2. ASSUME NEW P \in SUBSET Key, NEW c, c # None, Covered(P, c)
        PROVE  Covered(P, c)' \/ \E k \in F : Channel[k] = c
    BY <2>2, FinishCovers
  <2> HIDE DEF F
  <2> QED BY <1>2, <2>1, <2>2, ForgetsWell
<1> QED
  BY <1>3, <1>4, <1>5, <1>6 DEF DarkInv

\* A flag swapped touches none of it.
LEMMA PublishStaysDark ==
  ASSUME TypeOK, DarkInv, NEW k \in Key, publish_tape_owners(k)
  PROVE  DarkInv'
<1>1. UNCHANGED <<admitted, active, draining, applying, excused, catalog, books>>
  BY DEF publish_tape_owners
<1>2. \A j \in Key, i \in Incarnation : task'[j][i].phase # "gone" => task[j][i].phase # "gone"
  <2>1. task \in [Key -> [Incarnation -> TaskRecord]] /\ active[k] \in Incarnation
    BY DEF TypeOK, TaskRecord, publish_tape_owners
  <2>2. PICK v : task' = [task EXCEPT ![k][active[k]].tape = v]
    BY DEF publish_tape_owners
  <2> QED BY <2>1, <2>2 DEF TaskRecord
<1> QED
  BY <1>1, <1>2 DEF DarkInv, ActiveHeld, AppliedHeld, TasksHeld, Live, DrainHeld, Covered, Due,
                    Supplied

\* drive: what a receiver writes, its task accounts for.
LEMMA ReceiverStaysDark ==
  ASSUME TypeOK, DarkInv, NEW k \in Key, NEW i \in Incarnation,
         \/ Bind(k, i) \/ Exit(k, i) \/ Cancel(k, i) \/ Silent(k, i)
         \/ Refdata(k, i) \/ Mktdata(k, i)
  PROVE  DarkInv'
<1>1. UNCHANGED <<admitted, active, draining, applying, excused>>
  BY DEF Bind, Exit, Cancel, Ends, Silent, Refdata, Mktdata, ticking
<1>2. task \in [Key -> [Incarnation -> TaskRecord]]
  BY DEF TypeOK, TaskRecord
<1>3. \A j \in Key, h \in Incarnation : task'[j][h].phase # "gone" => task[j][h].phase # "gone"
  <2>1. CASE Bind(k, i)
    BY <1>2, <2>1 DEF Bind, TaskRecord
  <2>2. CASE Exit(k, i) \/ Cancel(k, i)
    BY <1>2, <2>2 DEF Exit, Cancel, Ends, Gone
  <2>3. CASE Refdata(k, i)
    BY <2>3 DEF Refdata
  <2>4. CASE Silent(k, i)
    BY <1>2, <2>4 DEF Silent, TaskRecord
  <2>5. CASE Mktdata(k, i)
    <3>1. task' = [task EXCEPT ![k][i].down = FALSE]
      BY <2>5 DEF Mktdata
    <3> QED BY <1>2, <3>1 DEF TaskRecord
  <2> QED BY <2>1, <2>2, <2>3, <2>4, <2>5
<1>4. ActiveHeld' /\ AppliedHeld' /\ TasksHeld' /\ DrainHeld(Key)' /\ DrainHeld(Builders)'
  BY <1>1, <1>3 DEF DarkInv, ActiveHeld, AppliedHeld, TasksHeld, Live, DrainHeld, Covered, Due, Supplied
<1>5. ASSUME NEW P \in SUBSET Key, NEW c PROVE Covered(P, c)' <=> Covered(P, c)
  BY <1>1 DEF Covered, Due, Supplied
<1>6. ASSUME NEW P \in SUBSET Key, DrainHeld(P), k \in P, Live(k, i), Channel[k] # None
      PROVE  Covered(P, Channel[k])
  <2>1. CASE active[k] = i
    BY <1>6, <2>1, IncarnationsAreNumbers DEF DarkInv, ActiveHeld, Covered, Supplied
  <2>2. CASE active[k] # i
    BY <1>6, <2>2 DEF DarkInv, TasksHeld, DrainHeld, Covered
  <2> QED BY <2>1, <2>2
<1>7. /\ \A c \in catalog' \ catalog : c = Channel[k] /\ Live(k, i) /\ Channel[k] # None
      /\ \A c \in books' \ books :
           c = Channel[k] /\ Live(k, i) /\ Channel[k] # None /\ k \in Builders
  <2>1. CASE Refdata(k, i)
    BY <2>1 DEF Refdata, Live
  <2>2. CASE Mktdata(k, i)
    BY <2>2 DEF Mktdata, Live, Builders
  <2>3. CASE Bind(k, i) \/ Exit(k, i) \/ Cancel(k, i) \/ Silent(k, i)
    BY <2>3 DEF Bind, Exit, Cancel, Ends, Silent
  <2> QED BY <2>1, <2>2, <2>3
<1>8. Builders \in SUBSET Key /\ Key \in SUBSET Key /\ DrainHeld(Key) /\ DrainHeld(Builders)
  BY DEF Builders, DarkInv
<1>9. \A c \in catalog' : Covered(Key, c)'
  BY <1>5, <1>6, <1>7, <1>8 DEF DarkInv
<1>10. \A c \in books' : Covered(Builders, c)'
  BY <1>5, <1>6, <1>7, <1>8 DEF DarkInv
<1> QED
  BY <1>4, <1>9, <1>10 DEF DarkInv

\* forget_departing_channel: a channel the filter has left goes dark, for any rows that
\* share it, whatever its receivers were doing and however their purges were handed on.
THEOREM DepartedGoesDark == Spec => []DepartedIsDark
<1>1. Init => DarkInv
  BY DEF Init, DarkInv, ActiveHeld, AppliedHeld, TasksHeld, Live, Gone, DrainHeld
<1>2. TypeOK /\ DarkInv /\ [Next]_vars => DarkInv'
  <2> SUFFICES ASSUME TypeOK, DarkInv, [Next]_vars PROVE DarkInv'
    OBVIOUS
  <2>1. CASE UNCHANGED vars
    BY <2>1 DEF vars, ticking, DarkInv, ActiveHeld, AppliedHeld, TasksHeld, Live, DrainHeld,
                Covered, Due, Supplied
  <2>2. CASE Tick
    BY <2>2, StartStaysDark, PublishStaysDark, FinishStaysDark DEF Tick
  <2>3. ASSUME NEW k \in Key, NEW i \in Incarnation,
               \/ Bind(k, i) \/ Exit(k, i) \/ Cancel(k, i) \/ Silent(k, i)
               \/ Refdata(k, i) \/ Mktdata(k, i)
        PROVE  DarkInv'
    BY <2>3, ReceiverStaysDark
  <2> QED BY <2>1, <2>2, <2>3 DEF Next
<1>3. TypeOK /\ DarkInv => DepartedIsDark
  <2>1. TypeOK => admitted \subseteq Key
    BY DEF TypeOK, Filters
  <2> QED BY <2>1 DEF DarkInv, Covered, Due, Supplied, Builders, DepartedIsDark
<1> QED
  BY <1>1, <1>2, <1>3, TypeCorrect, PTL DEF Spec
=============================================================================
