------------------------------- MODULE MCProxy -------------------------------
(***************************************************************************)
(* Model checking of Proxy.  Clients are interchangeable, and so are the   *)
(* addresses of client_items.                                              *)
(***************************************************************************)
EXTENDS Proxy, TLC

Symmetry == Permutations(Clients) \union Permutations(Cells)
=============================================================================
