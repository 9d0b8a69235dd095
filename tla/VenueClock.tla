----------------------------- MODULE VenueClock -----------------------------
(***************************************************************************)
(* The venue clock of one channel by itself (ChannelClock of               *)
(* src/src/ingest/arbiter.rs, as emit_order_level_book and                 *)
(* reset_book_session_for_market drive it).  Anyone on the wire stamps the *)
(* batches: paths that lag, that jump after a gap, that count in another   *)
(* unit and crawl, or that are ahead of the host's clock.                  *)
(***************************************************************************)
EXTENDS OrderGuard

CONSTANTS
  ClockStart, ClockEnd,  \* bound: where the monotonic clock starts and stops
  Stamp,                 \* the stamps on the wire
  Ahead                  \* by how much the host's wall clock is ahead of the monotonic one

ASSUME ClockAssumption ==
  /\ ClockStart \in Nat /\ ClockEnd \in Nat /\ reseat_after_ns > 0
  /\ Stamp \subseteq Nat /\ Ahead \in Nat /\ None \notin Int

VARIABLES
  mono,     \* the monotonic clock
  clk,      \* the ChannelClock
  trail     \* history: since when the clock trails the newest stamp the host lets pass,
            \* that stamp, and when the last batch came

clockVars == <<mono, clk, trail>>

Caught == [since |-> None, top |-> None, at |-> ClockStart]

ClockInit == mono = ClockStart /\ clk = NewClock /\ trail = Caught

ClockTick == mono < ClockEnd /\ mono' = mono + 1 /\ UNCHANGED <<clk, trail>>

host_cap == mono + Ahead + MAX_FUTURE_SKEW_NS

\* One raced batch: the clock takes its stamp and then looks whether it has to jump.
ClockBatch(ts) ==
  /\ clk' = reseat(observe(clk, ts, mono, host_cap), mono)
  /\ LET top == Later(trail.top, Least(ts, host_cap)) IN
     trail' = IF clk'.newest_ts # None /\ clk'.newest_ts >= top THEN [Caught EXCEPT !.at = mono]
              ELSE [since |-> FirstSet(trail.since, mono), top |-> top, at |-> mono]
  /\ UNCHANGED mono

\* EndOfSession: the clock is unset, and what came before is no longer ahead of it.
ClockSession ==
  clk' = clock_set(clk, None, mono) /\ trail' = [Caught EXCEPT !.at = mono] /\ UNCHANGED mono

ClockNext == ClockTick \/ ClockSession \/ \E ts \in Stamp : ClockBatch(ts)

ClockSpec == ClockInit /\ [][ClockNext]_clockVars

\* While batches arrive the channel's clock is never behind the newest of them for as long
\* as reseat_after_ns: neither a jump past the bound, nor a path that crawls behind the
\* others and keeps the clock moving, nor a host clock behind the venue's holds the
\* frontier down, which would stop all forgetting.  And no run of stamps takes it past the
\* host's clock, which would refuse every honest path of the channel.
ClockCatchesUp ==
  /\ trail.since # None => trail.at - trail.since < reseat_after_ns
  /\ clk.newest_ts # None => clk.newest_ts <= host_cap
=============================================================================
