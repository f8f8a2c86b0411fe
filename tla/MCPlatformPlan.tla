--------------------------- MODULE MCPlatformPlan ---------------------------
(* Small instances of PlatformPlan for TLC. *)
EXTENDS PlatformPlan, TLC

Symmetry == Permutations(Actors)
=============================================================================
