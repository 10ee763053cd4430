------------------------------ MODULE MCPickup ------------------------------
(* Pickup for TLC: nothing in it tells one member of the guild from another. *)
EXTENDS Pickup

Symmetry == Permutations(People)
=============================================================================
