------------------------------ MODULE MCRunLock ------------------------------
(***************************************************************************)
(* Small instances of RunLock for TLC.                                     *)
(***************************************************************************)
EXTENDS RunLock, TLC

Symmetry == Permutations(Processes)
=============================================================================
