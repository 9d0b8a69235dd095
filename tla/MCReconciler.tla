---------------------------- MODULE MCReconciler ----------------------------
(* An instance of Reconciler for TLC: a top-of-book and a market-by-price   *)
(* row of one venue, each deriving a port per channel, seen on one channel. *)
EXTENDS Reconciler

CONSTANTS tob, mbp

Keys == {tob, mbp}
Kinds == [k \in Keys |-> IF k = tob THEN "TopOfBook" ELSE "MarketByPrice"]
Venue == [k \in Keys |-> "venue"]
OneChannel == [k \in Keys |-> 1]
Ports == [k \in Keys |-> IF k = tob THEN 1 ELSE 2]
OwnCode == [k \in Keys |-> k]
Overlap == [k \in Keys |-> IF k = tob THEN 2 ELSE 1]
=============================================================================
