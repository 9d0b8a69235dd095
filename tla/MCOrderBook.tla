---------------------------- MODULE MCOrderBook ----------------------------
(* Instances of MboFeed for TLC. *)
EXTENDS MboFeed

CONSTANTS s1, s2

Sources == {s1, s2}
Symmetry == Permutations(Sources)

\* Two orders share a level.  One can be filled in two parts, the other cancelled, and a
\* third, with both there, outgrows the book.
Prices == <<1, 1, 2>>
Opening == <<2, 1, 0>>
AfterReset == <<1, 0, 0>>
Op(kind, o, q, full) == [kind |-> kind, order |-> o, qty |-> q, full |-> full]
Alphabet == {Op("execute", 1, 1, FALSE), Op("execute", 1, 1, TRUE),
             Op("cancel", 2, 0, FALSE), Op("add", 3, 1, FALSE)}
=============================================================================
