--------------------------- MODULE MCDefinitions ---------------------------
(***************************************************************************)
(* Instances of Definitions for TLC: two mirrored publishers, two Source   *)
(* IDs, and manifests that are about to wrap.                              *)
(***************************************************************************)
EXTENDS Definitions

CONSTANTS p1, p2

Mirrors == {p1, p2}
=============================================================================
