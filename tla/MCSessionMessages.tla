------------------------- MODULE MCSessionMessages -------------------------
(***************************************************************************)
(* Instances of SessionMessages for TLC.                                   *)
(***************************************************************************)
EXTENDS SessionMessages, TLC

Symmetry == Permutations(Turns)
=============================================================================
