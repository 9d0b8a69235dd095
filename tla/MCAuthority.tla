----------------------------- MODULE MCAuthority -----------------------------
(***************************************************************************)
(* Instances of AuthorityElection for TLC.                                 *)
(***************************************************************************)
EXTENDS AuthorityElection, TLC

CONSTANTS p1, p2, p3, m1, m2, m3

Paths2 == {p1, p2}
Paths3 == {p1, p2, p3}
Markets2 == {m1, m2}
Markets3 == {m1, m2, m3}
WinOrLose == {-1, 1}
NoLeads == {}
Either == BOOLEAN
DeltasOnly == {FALSE}
Symmetry32 == Permutations(Paths3) \cup Permutations(Markets2)
=============================================================================
