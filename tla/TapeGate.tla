------------------------------ MODULE TapeGate ------------------------------
(***************************************************************************)
(* The trade arm of Arbiter::emit_scoped (src/src/ingest/arbiter.rs) for   *)
(* one symbol of one universe: the matcher, the tape gate of a Sticky      *)
(* venue, the owner latch of prints with no venue id, and the window of    *)
(* ids.  The venue prints; every path repeats the prints in order, each    *)
(* within TapeLag unless it loses it.  Which paths the book authority      *)
(* tracks and elects is up to it (AuthorityElection), and the time a       *)
(* receiver stamps is the time it takes the arbiter lock.                  *)
(***************************************************************************)
EXTENDS PathRace, FiniteSets

CONSTANTS
  TapePath, Nobody,
  NO_ID_TAPE_HANDOVER_NS, TRADE_DEDUP_WINDOW,
  TapeLag,                              \* how late a path's copy may be
  TapeEnd, MaxPrints, MaxLost, MaxTerms \* bounds: time, prints, losses, elections

ASSUME TapeAssumption ==
  /\ {NO_ID_TAPE_HANDOVER_NS, TapeLag, TapeEnd, MaxPrints, MaxLost, MaxTerms} \subseteq Nat
  /\ TRADE_DEDUP_WINDOW \in Nat \ {0} /\ Nobody \notin TapePath
  /\ TapeLag <= NO_ID_TAPE_HANDOVER_NS /\ TapeLag <= window_ns
  /\ Nobody \notin [path : TapePath, last_ns : Nat]
  /\ Nobody \notin [path : TapePath, last_ns : Nat, honored_election : TapePath \cup {Nobody}]

VARIABLES
  tnow,       \* the receive clock
  sticky,     \* whether the venue is in ArbitrationMode::Sticky
  noId,       \* the paths that stamp the sentinel instead of the venue's id
  prints,     \* the venue's tape: [sig, at]
  tpos,       \* per path: how many of the prints it is past
  tracked, elected,   \* the book authority's paths and leader of the universe
  tlead,      \* Arbiter::tape_leader: TapeLead, or Nobody
  noIdOwner,  \* Arbiter::no_id_owner: [path, last_ns], or Nobody
  ids,        \* Arbiter::trades: the ids in the window, oldest first
  race,       \* Arbiter::race
  out,        \* history: per print how often it went out
  tapeLog     \* history: see NewLog

tapeVars == <<tnow, sticky, noId, prints, tpos, tracked, elected, tlead, noIdOwner, ids, race,
              out, tapeLog>>

\* history: prints lost; a print the matcher was not shown or had no room for; the
\* authority's elections; how often in this one the elected path took the tape from a live
\* mirror; handovers not by silence; concurrent emitters reported; a copy as many prints
\* late, with those lost, as the window is long; pairs of two prints.
NewLog == [lost |-> 0, unseen |-> FALSE, term |-> 0, yields |-> 0, abrupt |-> FALSE,
           conflict |-> FALSE, overrun |-> FALSE, mispaired |-> FALSE]

TapeInit ==
  /\ tnow = 0 /\ sticky \in BOOLEAN /\ noId \in SUBSET TapePath
  /\ prints = <<>> /\ tpos = [p \in TapePath |-> 0]
  /\ tracked = {} /\ elected = Nobody /\ tlead = Nobody /\ noIdOwner = Nobody
  /\ ids = <<>> /\ race = NewRace /\ out = <<>> /\ tapeLog = NewLog

-----------------------------------------------------------------------------
(* The venue, the paths and the book authority.                            *)

\* Time does not pass over a copy that is due.
TapeTick ==
  /\ tnow < TapeEnd /\ tnow' = tnow + 1
  /\ \A p \in TapePath : \A k \in tpos[p] + 1 .. Len(prints) : tnow - prints[k].at < TapeLag
  /\ UNCHANGED <<sticky, noId, prints, tpos, tracked, elected, tlead, noIdOwner, ids, race,
                 out, tapeLog>>

VenuePrints(sig) ==
  /\ Len(prints) < MaxPrints
  /\ prints' = Append(prints, [sig |-> sig, at |-> tnow]) /\ out' = Append(out, 0)
  /\ UNCHANGED <<tnow, sticky, noId, tpos, tracked, elected, tlead, noIdOwner, ids, race,
                 tapeLog>>

LosesPrint(p) ==
  /\ tpos[p] < Len(prints) /\ tapeLog.lost < MaxLost
  /\ tpos' = [tpos EXCEPT ![p] = @ + 1] /\ tapeLog' = [tapeLog EXCEPT !.lost = @ + 1]
  /\ UNCHANGED <<tnow, sticky, noId, prints, tracked, elected, tlead, noIdOwner, ids, race, out>>

\* A path serves books of the universe; the first one leads.
Tracks(p) ==
  /\ p \notin tracked /\ tracked' = tracked \cup {p}
  /\ elected' = IF elected = Nobody THEN p ELSE elected
  /\ UNCHANGED <<tnow, sticky, noId, prints, tpos, tlead, noIdOwner, ids, race, out, tapeLog>>

Elects(p) ==
  /\ p \in tracked \ {elected} /\ tapeLog.term < MaxTerms /\ elected' = p
  /\ tapeLog' = [tapeLog EXCEPT !.term = @ + 1, !.yields = 0]
  /\ UNCHANGED <<tnow, sticky, noId, prints, tpos, tracked, tlead, noIdOwner, ids, race, out>>

-----------------------------------------------------------------------------
(* The gates.                                                              *)

Serves(p) == tlead # Nobody /\ tlead.path = p

displaces_uncorroborated(p) == p \in tracked /\ tlead.path \notin tracked
new_election(p) == elected = p /\ tlead.honored_election # elected

silent(last_ns) == tnow - last_ns > NO_ID_TAPE_HANDOVER_NS

\* tape_path_admits
Takes(p)  == displaces_uncorroborated(p) \/ new_election(p) \/ silent(tlead.last_ns)
tape_path_admits(p) == tlead = Nobody \/ Serves(p) \/ Takes(p)

\* Mutant: a transfer does not record the election it took place under.
HonoredBy_never(p) == IF tlead = Nobody THEN Nobody ELSE tlead.honored_election

\* A transfer marks the election in force as spent, whatever moved the tape.
HonoredBy(p) ==
  IF tlead = Nobody THEN Nobody ELSE IF Serves(p) THEN tlead.honored_election ELSE elected

LeadAfter(p) == [path |-> p, last_ns |-> tnow, honored_election |-> HonoredBy(p)]

\* claim_no_id_tape, of a venue that is not Sticky
Concurrent(p) == noIdOwner # Nobody /\ noIdOwner.path # p /\ ~silent(noIdOwner.last_ns)

\* Mutant: the window holds one id less.
Remembered_short(k) ==
  LET q == Append(ids, k) IN IF Len(q) > TRADE_DEDUP_WINDOW - 1 THEN Tail(q) ELSE q

\* WindowedDedup::admit of an id it does not hold
Remembered(k) == LET q == Append(ids, k) IN IF Len(q) > TRADE_DEDUP_WINDOW THEN Tail(q) ELSE q

\* history: the tape goes, or fails to go, to path p.
Logged(p, admits) ==
  LET moves == sticky /\ tlead # Nobody /\ ~Serves(p) IN
  [tapeLog EXCEPT
     !.abrupt = @ \/ (moves /\ admits /\ ~silent(tlead.last_ns)),
     !.yields = IF moves /\ admits /\ p = elected /\ tlead.path \in tracked
                     /\ ~silent(tlead.last_ns) THEN @ + 1 ELSE @]

\* The k-th print on path p: the matcher sees it first, of a path that serves books; then
\* the gate, the sentinel, and the window of ids.
TradeFrom(p, k) ==
  LET raced  == p \in tracked
      r      == on_trade(race, prints[k].sig, [path |-> p, recv_ns |-> tnow, print |-> k])
      admits == ~sticky \/ tape_path_admits(p)
      sends  == admits /\ (p \in noId \/ ~Contains(ids, k))
  IN
  /\ race' = IF raced THEN r.race ELSE race
  /\ tlead' = IF sticky /\ admits THEN LeadAfter(p) ELSE tlead
  /\ noIdOwner' = IF ~sticky /\ p \in noId /\ ~Concurrent(p)
                  THEN [path |-> p, last_ns |-> tnow] ELSE noIdOwner
  /\ ids' = IF sends /\ p \notin noId THEN Remembered(k) ELSE ids
  /\ out' = IF sends THEN [out EXCEPT ![k] = @ + 1] ELSE out
  /\ tapeLog' =
       [Logged(p, admits) EXCEPT
          !.unseen = @ \/ ~raced
                       \/ (r.match = NoMatch /\ Capped(evict_stale(race, tnow), prints[k].sig)),
          !.conflict = @ \/ (~sticky /\ p \in noId /\ Concurrent(p)),
          !.overrun = @ \/ \E q \in TapePath :
                             tpos[q] + tapeLog.lost >= k + TRADE_DEDUP_WINDOW,
          !.mispaired = @ \/ (raced /\ r.match # NoMatch /\ r.match.first.print # k)]

PathPrints(p) ==
  /\ tpos[p] < Len(prints) /\ tpos' = [tpos EXCEPT ![p] = @ + 1]
  /\ TradeFrom(p, tpos[p] + 1)
  /\ UNCHANGED <<tnow, sticky, noId, prints, tracked, elected>>

TapeNext ==
  \/ TapeTick
  \/ \E sig \in Signature : VenuePrints(sig)
  \/ \E p \in TapePath : PathPrints(p) \/ LosesPrint(p) \/ Tracks(p) \/ Elects(p)

TapeSpec == TapeInit /\ [][TapeNext]_tapeVars

-----------------------------------------------------------------------------
(* Properties.                                                             *)

\* Two identical prints in one window are paired in order: between two racing paths, as the
\* matcher's doc has them, a match measures two copies of one print, however the copies
\* interleave, or the lead handed to the election is between two different trades.  A copy
\* the matcher was not shown, or had no room for, shifts the pairing; so does a third path,
\* whose copy of a print paired already has no partner and waits for the next identical one.
PairsAreCopies ==
  tapeLog.mispaired => tapeLog.lost > 0 \/ tapeLog.unseen \/ Cardinality(tracked) > 2

\* An election moves the tape at most once: a leader of the books whose own prints all but
\* stopped does not take the tape back from a live mirror at every straggler.
DefersOnce == tapeLog.yields <= 1

\* No print goes out twice unseen.  A second copy needs two emitters with no common id, of
\* which the operator is told unless only some stamp ids, a handover that did not wait for
\* silence, or a path that, with the prints lost, fell behind by the window: its copies
\* then also push out the ids it is about to repeat.
PrintedOnce ==
  (\E k \in 1..Len(prints) : out[k] > 1) =>
    \/ tapeLog.abrupt \/ tapeLog.conflict \/ tapeLog.overrun
    \/ ~sticky /\ noId # {} /\ noId # TapePath
=============================================================================
