----------------------------- MODULE FeedHealth -----------------------------
(***************************************************************************)
(* FeedHealth (src/src/ingest/health.rs): the liveness of every receiver,  *)
(* aggregated to the status of a venue.  Each operator is one critical     *)
(* section: the edge is published (`wire`) under the lock that decided it. *)
(***************************************************************************)
CONSTANTS
  Key,      \* ReceiverKey, the same tuple as the reconciler's FeedKey
  Kind,     \* [Key -> FeedKind]
  Status    \* [Key -> StatusKey]: the row's venue and declared Source ID

FeedKind == {"TopOfBook", "MarketByPrice", "MarketByOrder", "Midpoint"}
TapeLiveness == {"Up", "Unregistered", "Down"}
StatusKey == {Status[k] : k \in Key}

ASSUME HealthConstants == Kind \in [Key -> FeedKind] /\ DOMAIN Status = Key

State ==
  [up : [Key -> TapeLiveness], carrier_keys : SUBSET StatusKey, wire : [StatusKey -> BOOLEAN]]

new ==
  [up |-> [k \in Key |-> "Unregistered"], carrier_keys |-> {},
   wire |-> [s \in StatusKey |-> FALSE]]

carries_venue_status(k) == Kind[k] \in {"TopOfBook", "Midpoint"}

status_up_in(h, s) ==
  \E k \in Key : /\ Status[k] = s /\ h.up[k] = "Up"
                 /\ s \in h.carrier_keys => carries_venue_status(k)

\* The mutation of h to g, published when it flips the aggregate of k's status key.
with_edge(h, k, g) ==
  LET s == Status[k]
  IN  IF status_up_in(h, s) # status_up_in(g, s)
      THEN [g EXCEPT !.wire[s] = status_up_in(g, s)]
      ELSE g

register(h, k) ==
  with_edge(h, k,
    [h EXCEPT !.up[k] = "Up",
              !.carrier_keys = @ \cup (IF carries_venue_status(k) THEN {Status[k]} ELSE {})])

\* The edge a stopped receiver causes goes unpublished.
deregister_quietly(h, k) == [h EXCEPT !.up[k] = "Unregistered"]
deregister(h, k) == with_edge(h, k, [h EXCEPT !.up[k] = "Unregistered"])

set(h, k, up) == with_edge(h, k, [h EXCEPT !.up[k] = IF up THEN "Up" ELSE "Down"])

liveness(h, k) == h.up[k]
=============================================================================
