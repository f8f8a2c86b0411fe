-------------------------- MODULE MCAccountErasure --------------------------
(* Instances of AccountErasure for TLC: the requests of a person are alike. *)
EXTENDS AccountErasure, TLC

Symmetry == Permutations(Sessions)
=============================================================================
