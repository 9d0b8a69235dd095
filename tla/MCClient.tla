------------------------------ MODULE MCClient ------------------------------
(***************************************************************************)
(* Instances of ClientFeed for TLC.                                        *)
(***************************************************************************)
EXTENDS ClientFeed

CONSTANTS l1, l2

Levels == {l1, l2}
Singles == {{l1}, {l2}}
One == {{l1}}
=============================================================================
