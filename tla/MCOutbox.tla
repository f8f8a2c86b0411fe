------------------------------ MODULE MCOutbox ------------------------------
(* Small instances of Outbox for TLC. *)
EXTENDS Outbox

(* Every event goes under one id, as all deletions of an account do. *)
CONSTANT id
OneId == [e \in Events |-> id]
=============================================================================
