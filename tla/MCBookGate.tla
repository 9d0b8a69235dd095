----------------------------- MODULE MCBookGate -----------------------------
(***************************************************************************)
(* Instances of BookGate for TLC: two mirrored paths, one market.          *)
(***************************************************************************)
EXTENDS BookGate, TLC

CONSTANTS p1, p2, m1

Paths == {p1, p2}
Markets == {m1}
Symmetry == Permutations(Paths)

\* Mirrors whose changes are told apart, and mirrors with shared slots.
Apart(kinds) == [shared |-> FALSE, slotted |-> FALSE, faults |-> kinds, max |-> 2]
Mirrored == [shared |-> TRUE, slotted |-> TRUE, faults |-> {"transfer"}, max |-> 1]

Gates == {Apart({"loss", "rotation", "transfer"}), Apart({"loss", "drop"}), Mirrored}
AllFaults == {Apart({"loss", "rotation", "transfer", "drop"})}

\* View: no step of this module reads the sampling window's start, the consumer or the
\* history, and Heals mentions none of them.
GateState == <<[au EXCEPT !.window = 0], bm, replay, path, faults, scope>>
=============================================================================
