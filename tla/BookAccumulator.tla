-------------------------- MODULE BookAccumulator --------------------------
(***************************************************************************)
(* BookAccumulator of src/src/model.rs for a price-aggregated market: the  *)
(* fold of `book` batches that a consumer performs, kept per path by the   *)
(* arbiter and once per market for replay.  A book is the set of venue     *)
(* changes folded into it since its last clear, which is what tells a      *)
(* complete book from one with a hole; a batch is                          *)
(*   [clear, changes, last, batch_id]                                      *)
(* with clear meaning that it leads with a Clear of both sides.  Producers *)
(* send those with `last` set (MbpProcessor::emit_rebaseline, clear_only,  *)
(* to_book).  The event and receive clocks are left out.                   *)
(***************************************************************************)
EXTENDS Integers, FiniteSets

CONSTANTS None, MAX_PENDING_CHANGES

NewAccumulator ==
  [book |-> {}, pending |-> {}, pending_batch_id |-> None, batch_id |-> None,
   exact |-> FALSE, baselined |-> FALSE]

\* An unterminated event outgrew the cap: its changes and its stamps go.
abandon(acc) ==
  [acc EXCEPT !.pending = {}, !.pending_batch_id = acc.batch_id, !.baselined = FALSE]

\* The batches of an event are buffered and folded into the book on its last.
fold(acc, b) ==
  LET id  == IF b.batch_id = None THEN acc.pending_batch_id ELSE b.batch_id
      buf == IF b.clear THEN b.changes ELSE acc.pending \cup b.changes
      now == [acc EXCEPT !.pending = buf, !.pending_batch_id = id]
  IN  IF ~b.last THEN IF Cardinality(buf) > MAX_PENDING_CHANGES THEN abandon(now) ELSE now
      ELSE [book |-> IF b.clear THEN buf ELSE acc.book \cup buf,
            pending |-> {}, pending_batch_id |-> id, batch_id |-> id,
            exact |-> b.batch_id # None, baselined |-> b.clear \/ acc.baselined]

exact_batch_id(acc) == IF acc.exact THEN acc.batch_id ELSE None

\* A clear and everything folded in, as one terminated batch.
to_book(acc) ==
  [clear |-> TRUE, changes |-> acc.book, last |-> TRUE, batch_id |-> acc.batch_id]
=============================================================================
