----------------------------- MODULE MCDispatch -----------------------------
(***************************************************************************)
(* Dispatch on small instances.  Ids are interchangeable: no definition    *)
(* orders them, so permuting them is a symmetry of the specification and   *)
(* of every property checked.                                              *)
(***************************************************************************)
EXTENDS Dispatch, TLC

Symmetry ==
  Permutations(Orders) \cup Permutations(Drivers) \cup Permutations(Rows) \cup Permutations(Slots)
=============================================================================
