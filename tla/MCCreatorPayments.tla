-------------------------- MODULE MCCreatorPayments --------------------------
(* Small instances of CreatorPayments for TLC: one payment of any kind, as *)
(* payments do not touch each other.                                       *)
EXTENDS CreatorPayments, TLC

Symmetry == Permutations(Workers)
=============================================================================
