----------------------------- MODULE Reconciler -----------------------------
(***************************************************************************)
(* The activation authority (src/src/ingest/reconcile.rs) with the         *)
(* lifecycle of the receivers it spawns and aborts                         *)
(* (src/src/ingest/receiver.rs) and the channel filter an operator swaps   *)
(* at runtime.  One (venue, category); the query surface is, per channel,  *)
(* whether it holds a catalog entry and a book.                            *)
(*                                                                         *)
(* abort() cancels a task at its next await.  A bound task stands for one  *)
(* waiting and for one inside a poll: the latter still binds, writes and   *)
(* reports its liveness after the abort, so no step asks for the abort but *)
(* the cancellation itself.                                                *)
(***************************************************************************)
EXTENDS FeedHealth, Naturals

CONSTANTS
  None,
  Channel,         \* [Key -> channel, None for a publisher on a shared port block]
  Port,            \* [Key -> base port]
  Code,            \* [Key -> group code of its row]
  Elsewhere,       \* codes whose rows keep publishers outside Key in every filter
  MAX_DRAIN_TICKS,
  Incarnations     \* bound: [Key -> the tasks of the key alive or referred to at a time]

Codes == {Code[k] : k \in Key}
Channels == {Channel[k] : k \in Key} \ {None}
Incarnation == UNION {1..Incarnations[k] : k \in Key}

ASSUME ReconcilerConstants ==
  /\ DOMAIN Channel = Key /\ Port \in [Key -> Nat] /\ DOMAIN Code = Key
  /\ None \notin Nat /\ MAX_DRAIN_TICKS \in Nat /\ Incarnations \in [Key -> Nat \ {0}]

\* venue_category_kind_triples_are_unique, publisher_base_ports_unique_within_a_feed
ASSUME KeysAreUnique ==
  \A j, k \in Key : Kind[j] = Kind[k] /\ Port[j] = Port[k] => j = k

VARIABLES
  admitted,    \* last_filter_admitted
  active,      \* [Key -> the incarnation in the active map, or None]
  task,        \* the receiver tasks
  draining,
  applying,    \* the desired set of the tick under way, or None
  owners,      \* the keys of the rows that own their tape, by the last ranking
  unswapped,   \* the receivers publish_tape_owners has still to reach
  health,
  catalog,     \* channels with an instrument in the shared catalog
  books,       \* channels with a book in the arbiter and its replay map
  excused      \* history: channels whose receiver outlived the drain bound, or ran
               \* on when the filter was swapped between a tick's two reads

ticking == <<applying, owners, unswapped>>
vars == <<admitted, active, task, draining, ticking, health, catalog, books, excused>>

Gone == [phase |-> "gone", down |-> FALSE, tape |-> FALSE]
Spawned(tape) == [phase |-> "starting", down |-> FALSE, tape |-> tape]

\* post_channels refuses a filter that leaves an enabled row without a publisher.
accepted(f) == \A c \in Codes \ Elsewhere : \E k \in f : Code[k] = c

\* ChannelFilter: a clause names channels of one group code, never of a flat row.
Filters ==
  {f \in SUBSET Key :
     /\ \A k \in Key : Channel[k] = None => k \in f
     /\ \A j, k \in Key : Code[j] = Code[k] /\ Channel[j] = Channel[k] => (j \in f <=> k \in f)
     /\ accepted(f)}

Init ==
  /\ admitted = {} /\ draining = {} /\ catalog = {} /\ books = {} /\ excused = {}
  /\ active = [k \in Key |-> None]
  /\ task = [k \in Key |-> [i \in Incarnation |-> Gone]]
  /\ applying = None /\ owners = {} /\ unswapped = {}
  /\ health = new

-----------------------------------------------------------------------------
(* The receiver: drive, ReceiverRegistration                               *)

Live(k, i) == task[k][i].phase # "gone"

\* The sockets bind, and the first time they do the receiver registers.
Bind(k, i) ==
  /\ task[k][i].phase = "starting"
  /\ task' = [task EXCEPT ![k][i].phase = "bound"]
  /\ health' = register(health, k)
  /\ UNCHANGED <<admitted, active, draining, ticking, catalog, books, excused>>

\* Dropping the task drops its registration.
Ends(k, i) ==
  /\ task' = [task EXCEPT ![k][i] = Gone]
  /\ health' = IF task[k][i].phase = "bound" THEN deregister(health, k) ELSE health
  /\ UNCHANGED <<admitted, active, draining, ticking, catalog, books, excused>>

\* A bind error, at the start or at a rejoin.
Exit(k, i) == Live(k, i) /\ Ends(k, i)

Cancel(k, i) == Live(k, i) /\ active[k] # i /\ Ends(k, i)

\* The idle watchdog.
Silent(k, i) ==
  /\ task[k][i].phase = "bound" /\ ~task[k][i].down
  /\ task' = [task EXCEPT ![k][i].down = TRUE]
  /\ health' = set(health, k, FALSE)
  /\ UNCHANGED <<admitted, active, draining, ticking, catalog, books, excused>>

Refdata(k, i) ==
  /\ task[k][i].phase = "bound" /\ Channel[k] # None
  /\ catalog' = catalog \cup {Channel[k]}
  /\ UNCHANGED <<admitted, active, task, draining, ticking, health, books, excused>>

builds_books(k) == Kind[k] \in {"MarketByPrice", "MarketByOrder"}

\* Market data recovers a silent receiver; a book kind's may reach the book.
Mktdata(k, i) ==
  /\ task[k][i].phase = "bound"
  /\ task' = [task EXCEPT ![k][i].down = FALSE]
  /\ health' = IF task[k][i].down THEN set(health, k, TRUE) ELSE health
  /\ \/ UNCHANGED books
     \/ /\ builds_books(k) /\ Channel[k] # None
        /\ books' = books \cup {Channel[k]}
  /\ UNCHANGED <<admitted, active, draining, ticking, catalog, excused>>

-----------------------------------------------------------------------------
(* The trade tape                                                          *)

\* tape_rank
prints(k) == Kind[k] \in {"TopOfBook", "MarketByPrice"}
tape_rank(k) == IF Kind[k] = "TopOfBook" THEN 0 ELSE 1
\* The liveness of a plain down flag: a row that never binds counts as live.
alive_unless_down(k) == IF liveness(health, k) = "Down" THEN 1 ELSE 0
alive(k) == CASE liveness(health, k) = "Up" -> 0
              [] liveness(health, k) = "Unregistered" -> 1
              [] liveness(health, k) = "Down" -> 2

\* Whether j is ranked before k: liveness, then kind, then base port.
outranks(j, k) ==
  \/ alive(j) < alive(k)
  \/ alive(j) = alive(k) /\ \/ tape_rank(j) < tape_rank(k)
                            \/ tape_rank(j) = tape_rank(k) /\ Port[j] < Port[k]

\* tape_owners_by_channel: the owner of k's universe among the running keys.
owner(running, k) ==
  LET row == {j \in running : prints(j) /\ Channel[j] = Channel[k]}
  IN  {j \in row : \A o \in row \ {j} : outranks(j, o)}

\* owns_on: every publisher of the owning row serves the tape.
owns(running, k) == \E o \in owner(running, k) : Kind[o] = Kind[k]

-----------------------------------------------------------------------------
(* One reconcile tick.  Its maps are the reconciler's own; what the         *)
(* receivers see of it, and may run between, are the flags of the aborted   *)
(* tasks, those of the surviving ones, each swapped on its own, and the     *)
(* spawns.                                                                  *)

\* reap_finished
reaped == [k \in Key |-> IF active[k] # None /\ ~Live(k, active[k]) THEN None ELSE active[k]]

\* The diff taken on the active map: it misses a receiver that exited on its own.
departed_active(now) == {k \in Key : reaped[k] # None} \ now
departed_channels(now) == admitted \ now

\* forget_departing_channel, for a set of keys: a channel some receiver still drains on
\* is handed to that entry, and what an admitted row still supplies is not dropped.
hands(keys, e) == Channel[e.key] # None /\ \E k \in keys : Channel[k] = Channel[e.key]
handed(keys, entries) == {[e EXCEPT !.purge = @ \/ hands(keys, e)] : e \in entries}
forgetting(keys, entries) ==
  {k \in keys : Channel[k] # None /\ \A e \in entries : Channel[e.key] # Channel[k]}
\* A deferred purge that does not count its own key, readmitted since.
siblings_other(key, now) == {k \in now \ {key} : Channel[k] = Channel[key]}
siblings(key, now) == {k \in now : Channel[k] = Channel[key]}
drops_catalog(keys, now) == {Channel[k] : k \in {k \in keys : siblings(k, now) = {}}}
drops_books(keys, now) ==
  {Channel[k] : k \in {k \in keys : \A s \in siblings(k, now) : ~builds_books(s)}}

\* drain_departed
finished(e) == ~Live(e.key, e.task)
expired(e) == e.ticks_waited + 1 > MAX_DRAIN_TICKS
reaps(e) == finished(e) \/ expired(e)

\* apply_feeds: an aborted receiver leaves the tape first and moves to draining; whether
\* its departure purges is settled here.
aborted(running, desired) == {k \in Key : running[k] # None} \ desired
entry(k, i, departed) == [key |-> k, task |-> i, ticks_waited |-> 0, purge |-> k \in departed]
\* The flag left to the abort.
off_at_abort(t) == t
off(t) == [t EXCEPT !.tape = FALSE]

Fresh(k) ==
  {i \in 1..Incarnations[k] : ~Live(k, i) /\ \A e \in draining : e.key = k => e.task # i}

\* apply_desired up to the aborts, and the ranking taken after them.  A spawn needs a
\* task left of the bound.
Start(desired, now) ==
  LET departed == departed_channels(now)
      early    == {k \in departed : reaped[k] = None}
      leaving  == aborted(reaped, desired)
      forget   == forgetting(early, draining)
  IN  /\ applying = None
      /\ \A k \in desired : reaped[k] = None => Fresh(k) # {}
      /\ admitted' = now
      /\ active' = [k \in Key |-> IF k \in leaving THEN None ELSE reaped[k]]
      /\ task' = [k \in Key |-> [i \in Incarnation |->
                    IF k \in leaving /\ reaped[k] = i THEN off(task[k][i]) ELSE task[k][i]]]
      /\ draining' = handed(early, draining) \cup {entry(k, reaped[k], departed) : k \in leaving}
      /\ applying' = desired
      /\ owners' = {k \in desired : owns(desired, k)}
      /\ unswapped' = {k \in desired : reaped[k] # None}
      /\ catalog' = catalog \ drops_catalog(forget, now)
      /\ books' = books \ drops_books(forget, now)
      /\ excused' = excused \cup {Channel[k] : k \in desired \ now}
      /\ UNCHANGED health

\* publish_tape_owners: one receiver's flag, in no order between them.
publish_tape_owners(k) ==
  /\ k \in unswapped
  /\ unswapped' = unswapped \ {k}
  /\ task' = [task EXCEPT ![k][active[k]].tape = k \in owners /\ Live(k, active[k])]
  /\ UNCHANGED <<admitted, active, draining, applying, owners, health, catalog, books, excused>>

\* The spawns, with the flag they will hold, and drain_departed.
Finish ==
  LET spawned == {k \in applying : active[k] = None}
      running == [k \in Key |-> IF k \in spawned THEN CHOOSE i \in Fresh(k) : TRUE ELSE active[k]]
      out     == {e \in draining : reaps(e)}
      waiting == {[e EXCEPT !.ticks_waited = @ + 1] : e \in draining \ out}
      late    == {e.key : e \in {e \in out : e.purge}}
      forget  == forgetting(late, waiting)
  IN  /\ applying # None /\ unswapped = {}
      /\ \A k \in spawned : Fresh(k) # {}
      /\ applying' = None
      /\ active' = running
      /\ task' = [k \in Key |-> [i \in Incarnation |->
                    IF k \in spawned /\ running[k] = i THEN Spawned(k \in owners) ELSE task[k][i]]]
      /\ draining' = handed(late, waiting)
      /\ catalog' = catalog \ drops_catalog(forget, admitted)
      /\ books' = books \ drops_books(forget, admitted)
      /\ excused' = excused \cup {Channel[e.key] : e \in {e \in out : ~finished(e)}}
      /\ UNCHANGED <<admitted, owners, unswapped, health>>

\* desired_from_subs; static_desired is the case of every code.
desired_from_subs(filter, codes) == {k \in filter : Code[k] \in codes}
Desired == {desired_from_subs(f, codes) : f \in Filters, codes \in SUBSET Codes}

\* The desired set and the purge diff each read the filter, which the admin surface may
\* swap at any time; nothing else in this module reads it, so post_channels is what a
\* tick finds there.  An inconclusive poll changes nothing.
Tick ==
  \/ \E desired \in Desired, now \in Filters : Start(desired, now)
  \/ \E k \in Key : publish_tape_owners(k)
  \/ Finish

Next ==
  \/ Tick
  \/ \E k \in Key, i \in Incarnation :
       Bind(k, i) \/ Exit(k, i) \/ Cancel(k, i) \/ Silent(k, i) \/ Refdata(k, i) \/ Mktdata(k, i)

\* The poll loop never stops ticking, and the CLI answers again and again.
Spec == Init /\ [][Next]_vars /\ WF_vars(Tick)

-----------------------------------------------------------------------------
(* Properties                                                              *)

Entry == [key : Key, task : Incarnation, ticks_waited : 0..MAX_DRAIN_TICKS, purge : BOOLEAN]

\* The maps are well formed: a task is active or draining at most once, an entry waits
\* within its bound, and a flag left to publish is an active receiver's.
TypeOK ==
  /\ admitted \in Filters \cup {{}}
  /\ active \in [Key -> Incarnation \cup {None}]
  /\ task \in [Key -> [Incarnation ->
                 [phase : {"gone", "starting", "bound"}, down : BOOLEAN, tape : BOOLEAN]]]
  /\ draining \subseteq Entry /\ health \in State
  /\ applying \in {None} \cup SUBSET Key /\ owners \subseteq Key
  /\ unswapped \subseteq {k \in Key : active[k] # None}
  /\ catalog \subseteq Channels /\ books \subseteq Channels
  /\ \A e \in draining : active[e.key] # e.task
  /\ \A d, e \in draining : d.key = e.key /\ d.task = e.task => d = e

\* forget_departing_channel: a channel the filter has left goes dark, whatever its
\* receivers were doing when they were aborted.  Excused are a receiver that outlived the
\* drain bound, and one a tick kept by one reading of the filter and departed by the next.
DepartedIsDark ==
  LET Held(k) == k \in admitted \/ active[k] # None \/ \E e \in draining : e.key = k
      Due(c) == \E e \in draining : e.purge /\ Channel[e.key] = c
  IN  /\ \A c \in catalog \ excused : Due(c) \/ \E k \in Key : Channel[k] = c /\ Held(k)
      /\ \A c \in books \ excused :
           Due(c) \/ \E k \in Key : Channel[k] = c /\ builds_books(k) /\ Held(k)

\* last_filter_admitted: losing a subscription, or a sibling row's narrowing, never drops
\* what an admitted row supplies.
OnlyNarrowingPurges ==
  [][/\ \A c \in catalog \ catalog' : \A k \in admitted' : Channel[k] # c
     /\ \A c \in books \ books' : \A k \in admitted' : Channel[k] = c => ~builds_books(k)]_vars

\* tape_rank: one row serves a universe's tape, the aborted tasks that still run
\* included: a second one is on only inside publish_tape_owners, until the swap that
\* switches it off, so no print doubles outside that loop and no spawned owner starts
\* beside an incumbent.
OneTape ==
  LET Doomed(k, i) == active[k] = i /\ k \in unswapped \ owners
  IN  \A j, k \in Key : \A h, i \in Incarnation :
        task[j][h].tape /\ task[k][i].tape /\ Channel[j] = Channel[k] =>
          Kind[j] = Kind[k] \/ Doomed(j, h) \/ Doomed(k, i)

\* ReceiverRegistration: a stopped or silent receiver never pins its venue up, although
\* the tasks of one key overlap and report in any order.
NeverPinnedUp ==
  \A s \in StatusKey : health.wire[s] =>
    \E k \in Key, i \in Incarnation :
      /\ Status[k] = s /\ task[k][i].phase = "bound" /\ ~task[k][i].down
      /\ s \in health.carrier_keys => carries_venue_status(k)

Serves(k) == active[k] # None /\ task[k][active[k]].tape
Alone(k) ==
  /\ active[k] # None /\ task[k][active[k]].phase = "bound" /\ liveness(health, k) = "Up"
  /\ \A j \in Key \ {k} : prints(j) /\ Channel[j] = Channel[k] => liveness(health, j) # "Up"

\* tape_owners_by_channel: a row that is subscribed and dead, or never binds, does not
\* hold the tape from the one peer that delivers.
TapeHeals == \A k \in Key : prints(k) => (<>[]Alone(k) => <>[]Serves(k))
=============================================================================
