---------------------------- MODULE MCQuoteGate ----------------------------
(* Instances of QuoteGate for TLC: a fleet of two upgraded paths and an old *)
(* one, and a fleet with an encoder that leaves padding in the field.       *)
EXTENDS QuoteGate, TLC

CONSTANTS p1, p2, p3

Paths == {p1, p2, p3}
Upgraded == {p1, p2}
Fleets ==
  {[p \in Paths |-> IF p \in Upgraded THEN "counter" ELSE old] : old \in {"none", "padding"}}
Symmetry == Permutations(Upgraded)
=============================================================================
