---------------------------- MODULE PaymentBooks ----------------------------
(***************************************************************************)
(* What the books promise about a payment to whoever reads them, the       *)
(* creator's balance first: every move of an entry has its reason at       *)
(* Stripe, and what was bought opens with the entry and shuts only after   *)
(* the money went back.  Which notices say so, in which order and handled  *)
(* by whom, is left out.                                                   *)
(***************************************************************************)
CONSTANTS Payments

VARIABLES
    paid,      \* Stripe: payments the buyer made
    returned,  \* Stripe: payments refunded in full
    dispute,   \* Stripe: "none", "open", "won" or "lost"
    entry,     \* the books: "none" or a status of Transaction
    opened     \* payments whose buyer can open what they bought

vars == <<paid, returned, dispute, entry, opened>>

Init ==
    /\ paid = {}
    /\ returned = {}
    /\ dispute = [p \in Payments |-> "none"]
    /\ entry = [p \in Payments |-> "none"]
    /\ opened = {}

-----------------------------------------------------------------------------
(* At Stripe. *)
Pay(p) ==
    /\ p \notin paid
    /\ paid' = paid \union {p}
    /\ UNCHANGED <<returned, dispute, entry, opened>>

Refund(p) ==
    /\ p \in paid \ returned
    /\ dispute[p] \in {"none", "won"}
    /\ returned' = returned \union {p}
    /\ UNCHANGED <<paid, dispute, entry, opened>>

Dispute(p) ==
    /\ p \in paid
    /\ \/ dispute[p] = "none" /\ dispute' = [dispute EXCEPT ![p] = "open"]
       \/ dispute[p] = "open" /\ \E s \in {"won", "lost"} : dispute' = [dispute EXCEPT ![p] = s]
    /\ UNCHANGED <<paid, returned, entry, opened>>

-----------------------------------------------------------------------------
(* In the books. *)
Move(p, from, to) == entry[p] \in from /\ entry' = [entry EXCEPT ![p] = to]

Stripe == <<paid, returned, dispute>>

(* The creator earned it, and what was bought, if it opens at all, opens. *)
Earn(p) ==
    /\ p \in paid
    /\ Move(p, {"none"}, "COMPLETED")
    /\ opened' \in {opened, opened \union {p}}
    /\ UNCHANGED Stripe

(* It is kept aside, to go back to the buyer. *)
Hold(p) ==
    /\ p \in paid
    /\ Move(p, {"none"}, "PENDING")
    /\ UNCHANGED <<Stripe, opened>>

(* It is withheld because of a dispute, perhaps one decided meanwhile. *)
Contest(p) ==
    /\ dispute[p] # "none"
    /\ Move(p, {"COMPLETED"}, "DISPUTED")
    /\ UNCHANGED <<Stripe, opened>>

Win(p) ==
    /\ dispute[p] = "won"
    /\ Move(p, {"DISPUTED"}, "COMPLETED")
    /\ UNCHANGED <<Stripe, opened>>

Return(p) ==
    /\ p \in returned \/ dispute[p] = "lost"
    /\ Move(p, {"PENDING", "COMPLETED", "DISPUTED"}, "REFUNDED")
    /\ UNCHANGED <<Stripe, opened>>

Shut(p) ==
    /\ entry[p] = "REFUNDED"
    /\ opened' = opened \ {p}
    /\ UNCHANGED <<Stripe, entry>>

Next == \E p \in Payments :
    \/ Pay(p) \/ Refund(p) \/ Dispute(p)
    \/ Earn(p) \/ Hold(p) \/ Contest(p) \/ Win(p) \/ Return(p) \/ Shut(p)

Spec == Init /\ [][Next]_vars
=============================================================================
