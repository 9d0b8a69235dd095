--------------------------- MODULE ShredForwarder ---------------------------
(***************************************************************************)
(* The shred forwarder (src/src/shred): copies of the shreds of a chain    *)
(* arrive from several groups, and one of each goes on.  DedupWindow       *)
(* (dedup.rs) remembers which, for the slots near the newest; with         *)
(* sigverify a copy goes on only if the leader of its slot signed it, by   *)
(* the LeaderSchedule (leader.rs) that a task refreshes over RPC.          *)
(*                                                                         *)
(* A slot has one shred here: those of one slot differ in their key alone. *)
(* Parsing, signatures and the RPC are external; copies the receivers shed *)
(* are copies that never arrive.                                           *)
(***************************************************************************)
EXTENDS Integers

CONSTANTS
  window_slots,
  EpochLen,
  ShredModes,   \* "sigverify" or "dedup": which of them
  MaxSlot,      \* bounds: the chain,
  RpcLag,       \* how far the RPC node is behind it,
  MaxRpcErrors  \* and the calls that fail

ASSUME ShredConstants ==
  /\ {window_slots, MaxSlot, RpcLag, MaxRpcErrors} \subseteq Nat /\ EpochLen \in Nat \ {0}
  /\ ShredModes \subseteq {"sigverify", "dedup"}

VARIABLES
  mode,
  head,        \* the slot the chain is at
  slots, tip,  \* DedupWindow: the (slot, fingerprint) forwarded, the newest slot
  epochs,      \* the epochs of the LeaderSchedule
  refresher,   \* the epoch it was told of and what it does next: "poll", "current", "next"
  rpcErrors,
  ready,       \* history: the epoch of the newest refresh that loaded both, or -1
  passed,      \* history: the slots whose own shred went on,
  twice, lost  \* history: and where it did again, or did not

shredVars ==
  <<mode, head, slots, tip, epochs, refresher, rpcErrors, ready, passed, twice, lost>>

Slot == 0 .. MaxSlot
EpochOf(s) == s \div EpochLen

ShredInit ==
  /\ mode \in ShredModes /\ head = 0
  /\ slots = {} /\ tip = 0
  /\ epochs = {} /\ refresher = [epoch |-> 0, at |-> "poll"] /\ rpcErrors = 0 /\ ready = -1
  /\ passed = {} /\ twice = {} /\ lost = {}

-----------------------------------------------------------------------------
(* DedupWindow.                                                            *)

horizon(t) == IF t > window_slots THEN t - window_slots ELSE 0

\* Mutant: the tip follows the last winner.
record_winner_last(key) ==
  /\ tip' = key[1]
  /\ slots' = {k \in slots \cup {key} : k[1] >= horizon(tip')}

\* The tip moves and the slots below the horizon go; a shred of such a slot is not kept.
record_winner(key) ==
  /\ tip' = IF key[1] > tip THEN key[1] ELSE tip
  /\ slots' = {k \in slots \cup {key} : k[1] >= horizon(tip')}

leader(s) == EpochOf(s) \in epochs

\* sigverify keeps one key for all the copies of a shred, dedup one per content.
fingerprint(good) == IF mode = "sigverify" THEN 0 ELSE IF good THEN 1 ELSE 2

\* forwarder_task: fail closed without a leader, drop what has a winner, prefer a valid copy.
Forwards(s, good) ==
  /\ mode = "sigverify" => leader(s) /\ good
  /\ <<s, fingerprint(good)>> \notin slots

\* What the refresher owes the forwarder: the epoch it was last told of and the one after
\* the newest that it refreshed in full.
Covered(s) == mode = "dedup" \/ (ready >= 0 /\ EpochOf(s) \in refresher.epoch .. ready + 1)

\* A copy arrives; one that the leader did not sign may name any slot.
Copy(s, good) ==
  /\ good => s <= head
  /\ IF Forwards(s, good) THEN record_winner(<<s, fingerprint(good)>>)
     ELSE UNCHANGED <<slots, tip>>
  /\ passed' = IF good /\ Forwards(s, good) THEN passed \cup {s} ELSE passed
  /\ twice' = IF good /\ Forwards(s, good) /\ s \in passed /\ s >= horizon(tip)
                THEN twice \cup {s} ELSE twice
  /\ lost' = IF good /\ Covered(s) /\ s \notin passed' THEN lost \cup {s} ELSE lost
  /\ UNCHANGED <<mode, head, epochs, refresher, rpcErrors, ready>>

-----------------------------------------------------------------------------
(* LeaderSchedule::refresh, from one answer of the RPC node to the next.   *)

\* getEpochInfo answers; what is behind that epoch goes.
Poll ==
  /\ mode = "sigverify" /\ refresher.at = "poll"
  /\ \E s \in head - RpcLag .. head :
       /\ s >= 0 /\ EpochOf(s) >= refresher.epoch
       /\ refresher' = [epoch |-> EpochOf(s), at |-> "current"]
  /\ epochs' = {e \in epochs : e >= refresher'.epoch}
  /\ UNCHANGED <<mode, head, slots, tip, rpcErrors, ready, passed, twice, lost>>

\* ensure_epoch of the current epoch, and then, best effort, of the next.
Load(ok) ==
  LET e == refresher.epoch + (IF refresher.at = "next" THEN 1 ELSE 0)
  IN  /\ refresher.at # "poll"
      /\ IF ok THEN epochs' = epochs \cup {e} /\ UNCHANGED rpcErrors
         ELSE /\ e \notin epochs /\ rpcErrors < MaxRpcErrors
              /\ rpcErrors' = rpcErrors + 1 /\ UNCHANGED epochs
      /\ refresher' = [refresher EXCEPT !.at = IF ok /\ @ = "current" THEN "next" ELSE "poll"]
      /\ ready' = IF ok /\ refresher.at = "next" THEN refresher.epoch ELSE ready
      /\ UNCHANGED <<mode, head, slots, tip, passed, twice, lost>>

Advance ==
  /\ head < MaxSlot /\ head' = head + 1
  /\ UNCHANGED <<mode, slots, tip, epochs, refresher, rpcErrors, ready, passed, twice, lost>>

ShredNext ==
  \/ Advance \/ Poll
  \/ \E ok \in BOOLEAN : Load(ok)
  \/ \E s \in Slot, good \in BOOLEAN : Copy(s, good)

ShredSpec == ShredInit /\ [][ShredNext]_shredVars

-----------------------------------------------------------------------------
\* DedupWindow, LeaderSchedule: the first signed copy of a shred goes on, whatever unsigned
\* copies came before it and across the rollover of the leader schedule, from the epoch of
\* the last refresh to the one after the last that was complete; and no other copy of it
\* does while its slot is inside the window.
ForwardedOnce == twice = {} /\ lost = {}
=============================================================================
