--------------------------- MODULE CreatorPayments ---------------------------
(***************************************************************************)
(* What Stripe's notices about one-time payments do to the payment, to     *)
(* what the buyer bought and to the mirror of a dispute                    *)
(* (monetization-webhook.service.ts, dispatched by payments.service.ts).   *)
(*                                                                         *)
(* A worker runs the handler of one notice; WebhookInbox says when: one    *)
(* worker per notice within its lease, again when the handler failed or    *)
(* its process died, and in any order with the handlers of other notices.  *)
(* Each await of a handler is a step of its own.                           *)
(***************************************************************************)
EXTENDS Integers

CONSTANTS
    Workers,    \* handlers in progress at once
    Payments,   \* payment intents
    Kinds,      \* what the payments are for, of AllKinds
    Amount,     \* price of a payment, in units a refund may split
    MaxFaults   \* bound: crashes and failed calls

AllKinds == {"PROMOTION", "UNLOCK", "MESSAGE", "TIP"}

ASSUME PaymentsAssumption ==
    /\ Kinds \subseteq AllKinds
    /\ Amount \in Nat \ {0}
    /\ MaxFaults \in Nat

VARIABLES
    inOrder,    \* whether a payment's notices happen to be handled in Stripe's order
    kind,       \* Stripe: the type in the metadata of each checkout
    checkout,   \* Stripe: a payment's checkout is open, paid or expired
    refundedAt, \* Stripe: total refunded of each payment
    disputeAt,  \* Stripe: state of each payment's dispute
    settled,    \* Stripe: payments whose fee was brought down to what is due
    made,       \* Stripe: notices made so far, counted where order matters
    mail,       \* Stripe: notices not handled yet, with their position
    status,     \* Transaction.status, or "none"
    refunded,   \* Transaction.refundedCents
    unlocked,   \* payments whose post, story or message the buyer can open
    promotion,  \* Promotion.status of a promotion's checkout: ACTIVE is also
                \* PAUSED; ENDED is COMPLETED, CANCELLED or REJECTED
    alive,      \* payments whose message is not deleted
    mirror,     \* PaymentDispute.status, or "none"
    pc,         \* where a worker's handler stands
    task,       \* the notice it handles
    seen,       \* the rows it read, as they were
    faults      \* faults so far

stripeVars == <<inOrder, kind, checkout, refundedAt, disputeAt, settled, made, mail>>
dbVars     == <<status, refunded, unlocked, promotion, alive, mirror>>
workVars   == <<pc, task, seen>>
vars       == <<stripeVars, dbVars, workVars, faults>>

Held     == {"needs_response"}
Inquiry  == {"warning_needs_response", "warning_closed"}
Closed   == {"won", "lost", "warning_closed"}
Disputes == {"none"} \union Held \union Inquiry \union Closed
TxStates == {"none", "PENDING", "COMPLETED", "DISPUTED", "REFUNDED"}
PCs      == {"idle", "start", "settle", "record", "findTx", "createTx", "giveBack",
             "markRefunded", "readTx", "writeTx", "revoke", "upsert", "readMirror",
             "readDisputed", "applyDispute", "finish"}

NoTask == [pay |-> "none", what |-> "none", val |-> "none", pos |-> 0]
NothingSeen == [status |-> "none", refunded |-> 0, dispute |-> "none"]

Init ==
    /\ inOrder \in BOOLEAN
    /\ kind \in [Payments -> Kinds]
    /\ checkout = [p \in Payments |-> "open"]
    /\ refundedAt = [p \in Payments |-> 0]
    /\ disputeAt = [p \in Payments |-> "none"]
    /\ settled = {}
    /\ made = 0
    /\ mail = {}
    /\ status = [p \in Payments |-> "none"]
    /\ refunded = [p \in Payments |-> 0]
    /\ unlocked = {}
    /\ promotion = [p \in Payments |-> "PENDING"]
    /\ alive = Payments
    /\ mirror = [p \in Payments |-> "none"]
    /\ pc = [w \in Workers |-> "idle"]
    /\ task = [w \in Workers |-> NoTask]
    /\ seen = [w \in Workers |-> NothingSeen]
    /\ faults = 0

-----------------------------------------------------------------------------
(* External: what happens at Stripe, and the notice Stripe makes of it.    *)
Make(p, what, val) ==
    /\ mail' = mail \union {[pay |-> p, what |-> what, val |-> val, pos |-> made]}
    /\ made' = IF inOrder THEN made + 1 ELSE 0

(* The buyer pays, or the checkout runs out. *)
CloseCheckout(p) ==
    /\ checkout[p] = "open"
    /\ \E how \in {"paid", "expired"} :
          /\ checkout' = [checkout EXCEPT ![p] = how]
          /\ Make(p, "checkout", how)
    /\ UNCHANGED <<inOrder, kind, refundedAt, disputeAt, settled, dbVars, workVars, faults>>

Refundable(p) == disputeAt[p] \notin Held \union {"lost"} /\ refundedAt[p] < Amount

(* Staff refund a part or the rest of a payment in the Dashboard. *)
StaffRefund(p) ==
    /\ checkout[p] = "paid"
    /\ Refundable(p)
    /\ \E total \in refundedAt[p] + 1 .. Amount :
          /\ refundedAt' = [refundedAt EXCEPT ![p] = total]
          /\ Make(p, "refunded", total)
    /\ UNCHANGED <<inOrder, kind, checkout, disputeAt, settled, dbVars, workVars, faults>>

NextOfDispute(s) ==
    CASE s = "none" -> {"warning_needs_response", "needs_response"}
      [] s = "warning_needs_response" -> {"warning_closed", "needs_response"}
      [] s = "needs_response" -> {"won", "lost"}
      [] OTHER -> {}

(* The bank opens an inquiry or a dispute, or closes it. *)
MoveDispute(p) ==
    /\ checkout[p] = "paid"
    /\ \E s \in NextOfDispute(disputeAt[p]) :
          /\ disputeAt' = [disputeAt EXCEPT ![p] = s]
          /\ Make(p, "dispute", s)
    /\ UNCHANGED <<inOrder, kind, checkout, refundedAt, settled, dbVars, workVars, faults>>

(* The sender deletes the message the checkout is about. *)
DeleteMessage(p) ==
    /\ kind[p] = "MESSAGE"
    /\ p \in alive
    /\ alive' = alive \ {p}
    /\ UNCHANGED <<stripeVars, status, refunded, unlocked, promotion, mirror,
                   workVars, faults>>

(* A promotion ends elsewhere: its owner cancels it, staff reject it, or    *)
(* its time or budget is used up.  What is given back then is a refund at  *)
(* Stripe, a step of its own.                                              *)
EndPromotion(p) ==
    /\ kind[p] = "PROMOTION"
    /\ promotion[p] # "ENDED"
    /\ promotion' = [promotion EXCEPT ![p] = "ENDED"]
    /\ UNCHANGED <<stripeVars, status, refunded, unlocked, alive, mirror, workVars, faults>>

(* Staff approve one, paid or not, whatever became of it; or its owner     *)
(* pauses or resumes it, written by id over a row that was ACTIVE or       *)
(* PAUSED when it was read and may have ended since.                       *)
RestartPromotion(p) ==
    /\ kind[p] = "PROMOTION"
    /\ promotion' = [promotion EXCEPT ![p] = "ACTIVE"]
    /\ UNCHANGED <<stripeVars, status, refunded, unlocked, alive, mirror, workVars, faults>>

-----------------------------------------------------------------------------
(* dispatchStripeEvent: a worker takes a notice no other worker handles.   *)
Take(w, n) ==
    /\ pc[w] = "idle"
    /\ \A v \in Workers : task[v] # n
    /\ inOrder => \A m \in mail : m.pay = n.pay => n.pos <= m.pos
    /\ task' = [task EXCEPT ![w] = n]
    /\ pc' = [pc EXCEPT ![w] =
                CASE n.what = "checkout" -> "start"
                  [] n.what = "refunded" -> "readTx"
                  [] n.what = "dispute"  -> "upsert"]
    /\ seen' = [seen EXCEPT ![w] =
                  [NothingSeen EXCEPT !.dispute =
                     IF n.what = "dispute" THEN mirror[n.pay] ELSE "none"]]
    /\ UNCHANGED <<stripeVars, dbVars, faults>>

Goto(w, l) == pc' = [pc EXCEPT ![w] = l] /\ UNCHANGED <<task, seen>>

Drop(w) ==
    /\ pc' = [pc EXCEPT ![w] = "idle"]
    /\ task' = [task EXCEPT ![w] = NoTask]
    /\ seen' = [seen EXCEPT ![w] = NothingSeen]

(* The handler returns; that its notice is PROCESSED is yet to be written. *)
Done(w) ==
    /\ pc' = [pc EXCEPT ![w] = "finish"]
    /\ seen' = [seen EXCEPT ![w] = NothingSeen]
    /\ UNCHANGED <<task, stripeVars>>

Finish(w) ==
    /\ pc[w] = "finish"
    /\ Drop(w)
    /\ mail' = mail \ {task[w]}
    /\ UNCHANGED <<inOrder, kind, checkout, refundedAt, disputeAt, settled, made, dbVars, faults>>

On(w, l, p) == pc[w] = l /\ task[w].pay = p

(* handleCheckoutSessionExpired *)
Expire(w, p) ==
    /\ On(w, "start", p)
    /\ task[w].val = "expired"
    /\ promotion' = IF kind[p] = "PROMOTION" /\ promotion[p] = "PENDING"
                    THEN [promotion EXCEPT ![p] = "FAILED"] ELSE promotion
    /\ Done(w)
    /\ UNCHANGED <<status, refunded, unlocked, alive, mirror, faults>>

(* The bug of recording a payment without settling its fee. *)
BeginNoFee(w, p) ==
    /\ On(w, "start", p)
    /\ task[w].val = "paid"
    /\ Goto(w, IF kind[p] = "MESSAGE" /\ p \notin alive THEN "findTx" ELSE "record")
    /\ UNCHANGED <<stripeVars, dbVars, faults>>

(* handleCheckoutSessionCompleted: only a message is looked up first. *)
Begin(w, p) ==
    /\ On(w, "start", p)
    /\ task[w].val = "paid"
    /\ Goto(w, CASE kind[p] = "PROMOTION" -> "record"
                 [] kind[p] = "MESSAGE" /\ p \notin alive -> "findTx"
                 [] OTHER -> "settle")
    /\ UNCHANGED <<stripeVars, dbVars, faults>>

(* settleFee: the fee is lowered at Stripe before the payment is recorded. *)
SettleFee(w, p) ==
    /\ On(w, "settle", p)
    /\ settled' = settled \union {p}
    /\ Goto(w, "record")
    /\ UNCHANGED <<inOrder, kind, checkout, refundedAt, disputeAt, made, mail, dbVars, faults>>

Unlocks(p) == kind[p] \in {"UNLOCK", "MESSAGE"}

(* The bug of two writes that are not one transaction. *)
RecordSplit(w, p) ==
    /\ On(w, "record", p)
    /\ status[p] = "none"
    /\ status' \in {status, [status EXCEPT ![p] = "COMPLETED"]}
    /\ unlocked' = IF Unlocks(p) THEN unlocked \union {p} ELSE unlocked
    /\ promotion' = IF kind[p] = "PROMOTION"
                    THEN [promotion EXCEPT ![p] = "ACTIVE"] ELSE promotion
    /\ Done(w)
    /\ UNCHANGED <<refunded, alive, mirror, faults>>

(* One database transaction: what was bought and the payment.  A payment   *)
(* recorded already fails it on the unique stripePaymentIntentId: the      *)
(* handler throws and the notice is left to be tried again.                *)
Record(w, p) ==
    /\ On(w, "record", p)
    /\ status[p] = "none"
    /\ status' = [status EXCEPT ![p] = "COMPLETED"]
    /\ unlocked' = IF Unlocks(p) THEN unlocked \union {p} ELSE unlocked
    /\ promotion' = IF kind[p] = "PROMOTION"
                    THEN [promotion EXCEPT ![p] = "ACTIVE"] ELSE promotion
    /\ Done(w)
    /\ UNCHANGED <<refunded, alive, mirror, faults>>

(* The bug of a promotion started outside the transaction. *)
RecordRefusedLate(w, p) ==
    /\ On(w, "record", p)
    /\ status[p] # "none"
    /\ Drop(w)
    /\ promotion' = IF kind[p] = "PROMOTION"
                    THEN [promotion EXCEPT ![p] = "ACTIVE"] ELSE promotion
    /\ UNCHANGED <<stripeVars, status, refunded, unlocked, alive, mirror, faults>>

RecordRefused(w, p) ==
    /\ On(w, "record", p)
    /\ status[p] # "none"
    /\ Drop(w)
    /\ UNCHANGED <<stripeVars, dbVars, faults>>

-----------------------------------------------------------------------------
(* refundUnlockOfMissingMessage *)
FindTx(w, p) ==
    /\ On(w, "findTx", p)
    /\ \/ /\ status[p] \in {"none", "PENDING"}
          /\ Goto(w, IF status[p] = "none" THEN "createTx" ELSE "giveBack")
          /\ UNCHANGED stripeVars
       \/ status[p] \notin {"none", "PENDING"} /\ Done(w)
    /\ UNCHANGED <<dbVars, faults>>

(* Its create meets the same unique index: no other worker has the notice, *)
(* so the row is still missing here.                                       *)
CreateTx(w, p) ==
    /\ On(w, "createTx", p)
    /\ status' = [status EXCEPT ![p] = "PENDING"]
    /\ Goto(w, "giveBack")
    /\ UNCHANGED <<stripeVars, refunded, unlocked, promotion, alive, mirror, faults>>

(* External: Stripe refunds in full, says it did already, or refuses for   *)
(* good because part of it was refunded or the charge is disputed.         *)
FullRefund(p) ==
    /\ refundedAt[p] = 0
    /\ disputeAt[p] \notin Held \union {"lost"}
    /\ refundedAt' = [refundedAt EXCEPT ![p] = Amount]
    /\ Make(p, "refunded", Amount)
    /\ UNCHANGED <<inOrder, kind, checkout, disputeAt, settled>>

(* The bug of taking every refusal for a refund made before. *)
GiveBackAnyError(w, p) ==
    /\ On(w, "giveBack", p)
    /\ FullRefund(p) \/ UNCHANGED stripeVars
    /\ Goto(w, "markRefunded")
    /\ UNCHANGED <<dbVars, faults>>

GiveBack(w, p) ==
    /\ On(w, "giveBack", p)
    /\ \/ FullRefund(p) /\ Goto(w, "markRefunded")
       \/ refundedAt[p] = Amount /\ Goto(w, "markRefunded") /\ UNCHANGED stripeVars
       \/ ~(refundedAt[p] = Amount) /\ ~(refundedAt[p] = 0 /\ Refundable(p)) /\ Done(w)
    /\ UNCHANGED <<dbVars, faults>>

MarkRefunded(w, p) ==
    /\ On(w, "markRefunded", p)
    /\ status' = [status EXCEPT ![p] = "REFUNDED"]
    /\ Done(w)
    /\ UNCHANGED <<refunded, unlocked, promotion, alive, mirror, faults>>

-----------------------------------------------------------------------------
(* handleChargeRefunded *)
ReadTx(w, p) ==
    /\ On(w, "readTx", p)
    /\ \/ status[p] = "none" /\ Done(w)
       \/ /\ status[p] # "none"
          /\ seen' = [seen EXCEPT ![w].status = status[p], ![w].refunded = refunded[p]]
          /\ pc' = [pc EXCEPT ![w] = "writeTx"]
          /\ UNCHANGED <<task, stripeVars>>
    /\ UNCHANGED <<dbVars, faults>>

(* The bug of an off-by-one in what is a full refund. *)
BecomesRefundedNever(w) == task[w].val > Amount

BecomesRefunded(w) == task[w].val = Amount /\ seen[w].status # "REFUNDED"

(* The bug of adding up totals. *)
NewTotalAdds(w, p) == refunded[p] + task[w].val

(* The total is written when it is above the one read, by id alone. *)
NewTotal(w, p) ==
    IF task[w].val > seen[w].refunded THEN task[w].val ELSE refunded[p]

(* The bug of taking back what was bought for any refund. *)
WriteTxRevokes(w, p) ==
    /\ On(w, "writeTx", p)
    /\ status' = IF BecomesRefunded(w) THEN [status EXCEPT ![p] = "REFUNDED"] ELSE status
    /\ refunded' = [refunded EXCEPT ![p] = NewTotal(w, p)]
    /\ Goto(w, "revoke")
    /\ UNCHANGED <<stripeVars, unlocked, promotion, alive, mirror, faults>>

WriteTx(w, p) ==
    /\ On(w, "writeTx", p)
    /\ status' = IF BecomesRefunded(w) THEN [status EXCEPT ![p] = "REFUNDED"] ELSE status
    /\ refunded' = [refunded EXCEPT ![p] = NewTotal(w, p)]
    /\ IF BecomesRefunded(w) THEN Goto(w, "revoke") /\ UNCHANGED stripeVars ELSE Done(w)
    /\ UNCHANGED <<unlocked, promotion, alive, mirror, faults>>

(* revokeUnlock *)
Revoke(w, p) ==
    /\ On(w, "revoke", p)
    /\ unlocked' = unlocked \ {p}
    /\ Done(w)
    /\ UNCHANGED <<status, refunded, promotion, alive, mirror, faults>>

-----------------------------------------------------------------------------
(* syncDispute: an older notice does not reopen the closed dispute it read *)
(* (the row was read when the notice was taken).                           *)
Stale(w) == seen[w].dispute \in Closed /\ task[w].val \notin Closed

Upsert(w, p) ==
    /\ On(w, "upsert", p)
    /\ mirror' = IF Stale(w) THEN mirror ELSE [mirror EXCEPT ![p] = task[w].val]
    /\ Goto(w, "readMirror")
    /\ UNCHANGED <<stripeVars, status, refunded, unlocked, promotion, alive, faults>>

(* applyDisputeToPayment: the mirrored row, then the payment, are read. *)
ReadMirror(w, p) ==
    /\ On(w, "readMirror", p)
    /\ \/ mirror[p] \in Inquiry /\ Done(w)
       \/ /\ mirror[p] \notin Inquiry
          /\ seen' = [seen EXCEPT ![w].dispute = mirror[p]]
          /\ pc' = [pc EXCEPT ![w] = "readDisputed"]
          /\ UNCHANGED <<task, stripeVars>>
    /\ UNCHANGED <<dbVars, faults>>

ReadDisputed(w, p) ==
    /\ On(w, "readDisputed", p)
    /\ \/ status[p] = "none" /\ Done(w)
       \/ /\ status[p] # "none"
          /\ seen' = [seen EXCEPT ![w].status = status[p]]
          /\ pc' = [pc EXCEPT ![w] = "applyDispute"]
          /\ UNCHANGED <<task, stripeVars>>
    /\ UNCHANGED <<dbVars, faults>>

(* The bug of moving a payment whatever its status. *)
MoveAlways(p, from, to) == status' = [status EXCEPT ![p] = to]

MoveIf(p, from, to) ==
    status' = IF status[p] = from THEN [status EXCEPT ![p] = to] ELSE status

(* Lost writes by id what it decided from the row it read; won and open    *)
(* move the row only from the status they name.                            *)
ApplyDispute(w, p) ==
    /\ On(w, "applyDispute", p)
    /\ \/ seen[w].dispute = "won" /\ MoveIf(p, "DISPUTED", "COMPLETED") /\ Done(w)
       \/ seen[w].dispute \in Held /\ MoveIf(p, "COMPLETED", "DISPUTED") /\ Done(w)
       \/ /\ seen[w].dispute = "lost" /\ seen[w].status # "REFUNDED"
          /\ status' = [status EXCEPT ![p] = "REFUNDED"]
          /\ Goto(w, "revoke")
          /\ UNCHANGED stripeVars
       \/ /\ seen[w].dispute = "lost" /\ seen[w].status = "REFUNDED"
          /\ Done(w)
          /\ UNCHANGED status
    /\ UNCHANGED <<refunded, unlocked, promotion, alive, mirror, faults>>

-----------------------------------------------------------------------------
(* A call of the handler throws or the process dies between two steps: the *)
(* notice stays to be handled again from the start.                        *)
Fail(w) ==
    /\ pc[w] # "idle"
    /\ faults < MaxFaults
    /\ faults' = faults + 1
    /\ Drop(w)
    /\ UNCHANGED <<stripeVars, dbVars>>

Handle(w) ==
    \/ \E n \in mail : Take(w, n)
    \/ Finish(w)
    \/ \E p \in Payments :
          \/ Expire(w, p) \/ Begin(w, p) \/ SettleFee(w, p)
          \/ Record(w, p) \/ RecordRefused(w, p)
          \/ FindTx(w, p) \/ CreateTx(w, p) \/ GiveBack(w, p) \/ MarkRefunded(w, p)
          \/ ReadTx(w, p) \/ WriteTx(w, p) \/ Revoke(w, p)
          \/ Upsert(w, p) \/ ReadMirror(w, p) \/ ReadDisputed(w, p) \/ ApplyDispute(w, p)

Next ==
    \/ \E p \in Payments : CloseCheckout(p) \/ StaffRefund(p) \/ MoveDispute(p)
    \/ \E p \in Payments : DeleteMessage(p) \/ EndPromotion(p) \/ RestartPromotion(p)
    \/ \E w \in Workers : Handle(w) \/ Fail(w)

Spec == Init /\ [][Next]_vars

-----------------------------------------------------------------------------
TypeOK ==
    /\ inOrder \in BOOLEAN
    /\ kind \in [Payments -> Kinds]
    /\ checkout \in [Payments -> {"open", "paid", "expired"}]
    /\ refundedAt \in [Payments -> 0..Amount]
    /\ disputeAt \in [Payments -> Disputes]
    /\ settled \subseteq Payments
    /\ made \in Nat
    /\ \A n \in mail : n.pay \in Payments /\ n.pos <= made
    /\ status \in [Payments -> TxStates]
    /\ refunded \in [Payments -> 0..Amount]
    /\ unlocked \subseteq Payments
    /\ promotion \in [Payments -> {"PENDING", "ACTIVE", "ENDED", "FAILED"}]
    /\ alive \subseteq Payments
    /\ mirror \in [Payments -> Disputes]
    /\ pc \in [Workers -> PCs]
    /\ \A w \in Workers : pc[w] # "idle" => task[w] \in mail
    /\ faults \in Nat

(* A payment is marked REFUNDED only when the buyer has the money back:    *)
(* Stripe refunded all of it or the dispute is lost.                       *)
RefundedIsReal ==
    \A p \in Payments : status[p] = "REFUNDED" =>
        refundedAt[p] = Amount \/ disputeAt[p] = "lost"

(* CircleSfera's records never show more refunded than Stripe gave back.   *)
NeverOverstated == \A p \in Payments : refunded[p] <= refundedAt[p]

(* Whatever is unlocked was paid for and recorded with it; a payment held  *)
(* for a missing message unlocks nothing.                                  *)
UnlockIsPaid ==
    \A p \in unlocked : checkout[p] = "paid" /\ status[p] \notin {"none", "PENDING"}

(* A payment to a creator is recorded as theirs only after its fee was     *)
(* settled: a failure leaves the notice to be tried again rather than a    *)
(* payment recorded with too high a fee.                                   *)
FeeSettledFirst ==
    \A p \in Payments : kind[p] # "PROMOTION" /\ status[p] \in {"COMPLETED", "DISPUTED"}
        => p \in settled

(* No late or repeated notice takes a payment out of REFUNDED.             *)
RefundedIsFinal ==
    [][\A p \in Payments : status[p] = "REFUNDED" => status'[p] = "REFUNDED"]_vars

(* The creator earns nothing from a payment for a missing message: it goes *)
(* from PENDING to REFUNDED and nowhere else.                              *)
PendingNeverEarned ==
    [][\A p \in Payments : status[p] = "PENDING" => status'[p] \in {"PENDING", "REFUNDED"}]_vars

(* A notice that is handled late or again starts no promotion that was     *)
(* paid and has ended since: only people do, staff who approve it or its   *)
(* owner, who pauses or resumes it just as it ends.                        *)
EndedStaysEnded ==
    [][\A p \in Payments :
          promotion[p] = "ENDED" /\ status[p] # "none" /\ promotion'[p] # "ENDED"
              => RestartPromotion(p)]_vars

Quiet == mail = {}

(* With notices handled one after the other in Stripe's order and nothing  *)
(* failing, the records agree with Stripe once every notice is handled.    *)
QuietAgreesWithStripe ==
    Quiet /\ inOrder /\ faults = 0 => \A p \in Payments :
        /\ status[p] = "none" <=> checkout[p] # "paid"
        /\ mirror[p] = disputeAt[p]
        /\ status[p] = "REFUNDED" <=> refundedAt[p] = Amount \/ disputeAt[p] = "lost"
        /\ disputeAt[p] \in Held => status[p] \in {"DISPUTED", "PENDING", "REFUNDED"}
        /\ status[p] = "DISPUTED" => disputeAt[p] \in Held
        /\ p \in unlocked => status[p] \in {"COMPLETED", "DISPUTED"}

(* The payment as its reader sees it: an inquiry is no dispute yet. *)
OpenedDispute(p) ==
    IF disputeAt[p] \in Held THEN "open" ELSE
    IF disputeAt[p] \in {"won", "lost"} THEN disputeAt[p] ELSE "none"

Books == INSTANCE PaymentBooks WITH
    paid <- {p \in Payments : checkout[p] = "paid"},
    returned <- {p \in Payments : refundedAt[p] = Amount},
    dispute <- [p \in Payments |-> OpenedDispute(p)],
    entry <- status,
    opened <- unlocked

(* However the notices are ordered, repeated or broken off, every move of  *)
(* a payment has its reason at Stripe: it is withheld only if a dispute    *)
(* was opened, earned again only if that was won, returned only if the     *)
(* buyer has the money, and what was bought shuts only after that.         *)
KeepsBooks == Books!Spec

(* The comment of handleChargeRefunded: refunded in full, the payment is   *)
(* REFUNDED and the buyer loses what they bought; once every notice of it  *)
(* is handled, a payment on record as REFUNDED unlocks nothing.            *)
FullRefundRevokes ==
    Quiet => \A p \in Payments : status[p] = "REFUNDED" => p \notin unlocked
=============================================================================
