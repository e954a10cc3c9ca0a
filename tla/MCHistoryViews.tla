--------------------------- MODULE MCHistoryViews ---------------------------
(***************************************************************************)
(* Instances of HistoryViews for TLC.                                      *)
(***************************************************************************)
EXTENDS HistoryViews, TLC

Symmetry == Permutations(Turns) \cup Permutations(Slots)
=============================================================================
