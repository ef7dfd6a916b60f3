-------------------------------- MODULE MCTsh --------------------------------
(***************************************************************************)
(* Model checking of Tsh.  Process IDs are interchangeable: the safety     *)
(* runs use that, the liveness runs do not.                                *)
(***************************************************************************)
EXTENDS Tsh, TLC

Symmetry == Permutations(Pids)
=============================================================================
