---------------------------- MODULE MCAppSession ----------------------------
(***************************************************************************)
(* Small instances of AppSession for TLC.                                  *)
(***************************************************************************)
EXTENDS AppSession, TLC

Symmetry == Permutations(Requests) \cup Permutations(Sessions)
=============================================================================
