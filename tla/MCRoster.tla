------------------------------ MODULE MCRoster ------------------------------
(* Roster for TLC: no action or property tells the people apart, so their    *)
(* permutations are symmetries.                                              *)
EXTENDS Roster, TLC

Symmetry == Permutations(People)
=============================================================================
