------------------------------- MODULE MCJobIds -------------------------------
(***************************************************************************)
(* Model checking of JobIds, with interchangeable process IDs.             *)
(***************************************************************************)
EXTENDS JobIds, TLC

Symmetry == Permutations(Pids)
=============================================================================
