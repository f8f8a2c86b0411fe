--------------------------- MODULE MCContentFiles ---------------------------
(* A small instance of ContentFiles for TLC. *)
EXTENDS ContentFiles
=============================================================================
