--------------------------- MODULE MCTripStation ---------------------------
(***************************************************************************)
(* Small instances of TripStation for TLC.                                 *)
(***************************************************************************)
EXTENDS TripStation, TLC

Symmetry == Permutations(Clicks) \cup Permutations(Trips)
=============================================================================
