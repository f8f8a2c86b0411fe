--------------------------- MODULE MCWebhookInbox ---------------------------
(* Small instances of WebhookInbox for TLC. *)
EXTENDS WebhookInbox, TLC

(* Deliveries are interchangeable, and so are runs of the job. *)
Symmetry == Permutations(Workers) \union Permutations(Reconcilers)
=============================================================================
