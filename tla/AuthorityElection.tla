------------------------- MODULE AuthorityElection -------------------------
(***************************************************************************)
(* One arbitration scope at work: mirrored paths deliver book batches of   *)
(* several markets to the arbiter, their processors report book health     *)
(* apart from the batches, the trade race feeds the sampling window and    *)
(* markets are dropped.  `a` is the authority; the other variables are     *)
(* history, kept by the consumer's and the paths' side.                    *)
(*                                                                         *)
(* The receive clock is relative: it always reads Now, and Tick ages every *)
(* stamp instead.  Stamps stop ageing at 0, which is more than every       *)
(* threshold ago (and what an unset last_seen_ns holds), so time is        *)
(* unbounded and the state space finite.                                   *)
(***************************************************************************)
EXTENDS Authority

CONSTANTS
  Lead,    \* matched leads the trade race may measure, in clock units
  Clears,  \* whether batches may be clear-led: BOOLEAN, or {FALSE} to leave those out
  Now      \* what the receive clock reads

ASSUME ClockAssumption ==
  /\ Lead \subseteq Int /\ Clears \subseteq BOOLEAN /\ Now \in Nat
  /\ leader_timeout_ns < Now /\ None \notin [bad : Nat, based : BOOLEAN]
  /\ \A t \in {REVERT_HOLD_NS, REVERT_DEADLINE_NS, sample_interval_ns} : t <= Now

VARIABLES
  a,          \* the StickyAuthority of the scope
  follows,    \* per market: the path the consumer's book came from last
  spoke,      \* per path: when a message of it last reached admission
  probation,  \* per market, while follows[m] serves it undisturbed in the place of an
              \* unhealthy leader: when the leader was last known unhealthy here, and
              \* whether it sent a clear-led batch since its last unhealthy report
  refused     \* per market: when the healthy leader's batch was first refused

vars == <<a, follows, spoke, probation, refused>>

Init ==
  /\ a = NewAuthority
  /\ follows = [m \in Market |-> None]
  /\ spoke = [p \in Path |-> 0]
  /\ probation = [m \in Market |-> None]
  /\ refused = [m \in Market |-> None]

-----------------------------------------------------------------------------
\* The book arm of Arbiter::emit around the decision: a path without a label is
\* turned away, a clear-led batch is noted, and a healthy leader's own batch ends
\* a hold that outlived an incomplete replay entry.
Deliver(au, m, p, clear, incomplete) ==
  LET r == path_ordinal(au, p)
      n == IF clear THEN note_rebaseline_point(r, m, p) ELSE r
      d == IF n.leader = p /\ holding_revert(n, m) /\ incomplete
             THEN drop_hold(n, m) ELSE n
  IN  IF ~Eligible(au, p) THEN [au |-> au, out |-> "dropped"] ELSE admit(d, m, p, Now)

\* The probation of m after p's batch there left the authority at b.
Probation(b, m, p, clear, sent) ==
  LET old == IF probation[m] # None /\ clear /\ p = b.leader
               THEN [probation[m] EXCEPT !.based = TRUE] ELSE probation[m]
  IN  IF sent
        THEN IF p = b.leader THEN None
             ELSE IF old # None \/ healthy(b, m, b.leader) THEN old
             ELSE [bad |-> Now, based |-> b.leader \in b.markets[m].reinstalled]
      ELSE IF old # None /\ Now - spoke[follows[m]] <= leader_timeout_ns THEN old
      ELSE None

\* A batch a datagram delivered.  The replay entry's state is read for a held revert only.
Batch(m, p, clear, incomplete) ==
  LET r == Deliver(a, m, p, clear, incomplete)
      sent == r.out # "dropped"
  IN  /\ Eligible(a, p)
      /\ incomplete => p = a.leader /\ holding_revert(a, m)
      /\ a' = r.au
      /\ spoke' = [spoke EXCEPT ![p] = Now]
      /\ follows' = IF sent THEN [follows EXCEPT ![m] = p] ELSE follows
      /\ probation' = [k \in Market |->
            IF a.leader # r.au.leader \/ r.au.markets[k] = None THEN None
            ELSE IF k = m THEN Probation(r.au, m, p, clear, sent)
            ELSE probation[k]]
      /\ refused' = [k \in Market |->
            IF a.leader # r.au.leader THEN None
            ELSE IF k # m \/ p # a.leader THEN refused[k]
            ELSE IF sent \/ ~healthy(r.au, m, p) THEN None
            ELSE IF refused[k] = None THEN Now ELSE refused[k]]

\* A batch no datagram delivered: the close a processor makes for a silent channel.
Synthesized(m, p) ==
  /\ admit_synthesized(a, m, p) # "dropped"
  /\ follows' = [follows EXCEPT ![m] = p]
  /\ UNCHANGED <<a, spoke, probation, refused>>

\* Arbiter::set_book_health, on a transition of the path's book.
Report(m, p, ok) ==
  /\ Eligible(a, p)
  /\ a' = set_health(a, m, p, ok)
  /\ probation' = [k \in Market |->
        IF probation[k] = None \/ a'.markets[k] = None THEN None
        ELSE IF k # m THEN probation[k]
        ELSE IF p = a.leader
          THEN IF ok THEN IF healthy(a, m, p) THEN probation[k]
                          ELSE [probation[k] EXCEPT !.bad = Now]
               ELSE [bad |-> Now, based |-> FALSE]
        ELSE IF ~ok /\ p = follows[k] THEN None
        ELSE probation[k]]
  /\ refused' = IF ~ok /\ p = a.leader THEN [refused EXCEPT ![m] = None] ELSE refused
  /\ UNCHANGED <<follows, spoke>>

\* A trade matched across two tracked paths (race_eligible).
MatchedLead(p, lead) ==
  /\ a.seen[p] # None
  /\ a' = observe_matched_lead(a, p, lead)
  /\ UNCHANGED <<follows, spoke, probation, refused>>

CloseWindow ==
  /\ a.leader # None
  /\ a' \in close_window(a, Now)
  /\ probation' = IF a.leader = a'.leader THEN probation ELSE [m \in Market |-> None]
  /\ refused' = IF a.leader = a'.leader THEN refused ELSE [m \in Market |-> None]
  /\ UNCHANGED <<follows, spoke>>

\* drop_market_state: an evicted, reset or departed market.
Forget(m) ==
  /\ a.markets[m] # None
  /\ a' = forget_market(a, m)
  /\ probation' = [probation EXCEPT ![m] = None]
  /\ UNCHANGED <<follows, spoke, refused>>

\* Time passes on the host.
Tick ==
  /\ a' = Aged(a)
  /\ spoke' = [p \in Path |-> Older(spoke[p])]
  /\ probation' = [m \in Market |->
        IF probation[m] = None THEN None
        ELSE [probation[m] EXCEPT !.bad = IF healthy(a, m, a.leader) THEN Older(@) ELSE @]]
  /\ refused' = [m \in Market |-> Older(refused[m])]
  /\ UNCHANGED follows

Next ==
  \/ \E m \in Market, p \in Path, clear \in Clears, incomplete \in BOOLEAN : Batch(m, p, clear, incomplete)
  \/ \E m \in Market, p \in Path : Synthesized(m, p)
  \/ \E m \in Market, p \in Path, ok \in BOOLEAN : Report(m, p, ok)
  \/ \E p \in Path, lead \in Lead : MatchedLead(p, lead)
  \/ CloseWindow
  \/ \E m \in Market : Forget(m)
  \/ Tick

Spec == Init /\ [][Next]_vars

-----------------------------------------------------------------------------
\* What the next batch of p on m would be told.
Verdict(m, p, clear) == Deliver(a, m, p, clear, FALSE)

\* admit, admit_synthesized, market_mut, forget_market: a batch of a path other than
\* the one the consumer follows is always decided "opened", the mark on which the
\* arbiter re-baselines, whatever evictions, drops and elections came between; and a
\* synthesized batch never changes the path.
SwitchIsAnnounced ==
  \A m \in Market, p \in Path :
    follows[m] # p => /\ Verdict(m, p, FALSE).out # "emitted"
                      /\ admit_synthesized(a, m, p) = "dropped"

\* serving, refresh_hold: a batch of a path whose book is in doubt is served, delivered
\* or synthesized, only when no tracked path has a healthy book of the market.
ServesHealthy ==
  \A m \in Market, p \in Path :
    LET r == Verdict(m, p, FALSE)
        AllBad(b) == \A q \in Path : b.seen[q] # None => ~healthy(b, m, q)
    IN  /\ r.out # "dropped" /\ ~healthy(r.au, m, p) => AllBad(r.au)
        /\ admit_synthesized(a, m, p) # "dropped" /\ ~healthy(a, m, p) => AllBad(a)

\* admit, refresh_hold, serving: no market goes deaf.  A batch of an eligible path
\* with a healthy book is refused only in favour of a path whose book is healthy too
\* and that was heard from, somewhere in the scope, within leader_timeout_ns.
NeverDeaf ==
  \A m \in Market, p \in Path :
    LET r == Verdict(m, p, FALSE)
        s == serving(r.au, m)
    IN  Eligible(a, p) /\ healthy(a, m, p) /\ r.out = "dropped"
          => healthy(a, m, s) /\ Now - spoke[s] <= leader_timeout_ns

\* admit: a batch moves the scope's leader only when the old one was silent, on every
\* market, for longer than leader_timeout_ns.
SilenceOnly ==
  \A m \in Market, p \in Path :
    a.leader # None /\ Verdict(m, p, FALSE).au.leader # a.leader
      => Now - spoke[a.leader] > leader_timeout_ns

\* set_health, refresh_hold, note_rebaseline_point: while an override stands, the
\* leader takes its market back only when its book was not known unhealthy for
\* REVERT_HOLD_NS and it re-baselined the market since, or for REVERT_DEADLINE_NS.
HeldRevert ==
  \A m \in Market, clear \in Clears :
    LET t == probation[m]
    IN  /\ t # None
        /\ Now - spoke[follows[m]] <= leader_timeout_ns
        /\ Verdict(m, a.leader, clear).out # "dropped"
        => \/ Now - t.bad >= REVERT_HOLD_NS /\ (clear \/ t.based)
           \/ Now - t.bad >= REVERT_DEADLINE_NS

\* refresh_hold: a leader whose book stays healthy is refused its own market for at
\* most REVERT_DEADLINE_NS after the first batch it was refused.
BoundedExile ==
  \A m \in Market :
    /\ refused[m] # None /\ healthy(a, m, a.leader)
    /\ Now - refused[m] >= REVERT_DEADLINE_NS
    => Verdict(m, a.leader, FALSE).out # "dropped"

=============================================================================
