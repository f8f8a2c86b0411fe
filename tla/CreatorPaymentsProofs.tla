------------------------ MODULE CreatorPaymentsProofs ------------------------
(***************************************************************************)
(* Safety of the notices about creator payments for any number of handlers *)
(* at once, payments, parts of a refund and faults.                        *)
(***************************************************************************)
EXTENDS CreatorPayments, TLAPS

Seen == [status : TxStates, refunded : 0..Amount, dispute : Disputes]

AboutCheckout == {"start", "settle", "record", "findTx", "createTx", "giveBack", "markRefunded"}
AboutRefund   == {"readTx", "writeTx", "revoke"}
AboutDispute  == {"upsert", "readMirror", "readDisputed", "applyDispute", "revoke"}

(* The types, with those of the notices and of what a handler remembers. *)
TypeInv ==
    /\ TypeOK
    /\ task = [w \in Workers |-> task[w]]
    /\ seen \in [Workers -> Seen]
    /\ ~inOrder => made = 0

(* A notice says nothing that is not so at Stripe, or was: a total is at   *)
(* most what was given back since, and lost is for ever.                   *)
True(n) ==
    /\ n.pay \in Payments /\ n.pos \in Nat
    /\ n.what = "checkout" => n.val \in {"paid", "expired"} /\ checkout[n.pay] = n.val
    /\ n.what = "refunded" => n.val \in 1..refundedAt[n.pay]
    /\ n.what = "dispute"  => /\ n.val \in Disputes
                              /\ n.val = "lost" => disputeAt[n.pay] = "lost"

(* There is one notice of a checkout. *)
MailInv ==
    /\ \A n \in mail : True(n) /\ n.what \in {"checkout", "refunded", "dispute"}
    /\ \A n, m \in mail : n.what = "checkout" /\ m.what = "checkout" /\ n.pay = m.pay => n = m

(* A handler is in the steps for the kind of notice it has, and no other   *)
(* handler has that notice.                                                *)
TaskInv ==
    /\ \A w \in Workers : pc[w] \in AboutCheckout => task[w].what = "checkout"
    /\ \A w \in Workers : pc[w] \in AboutRefund \ AboutDispute => task[w].what = "refunded"
    /\ \A w \in Workers : pc[w] \in AboutDispute \ AboutRefund => task[w].what = "dispute"
    /\ \A v, w \in Workers : pc[v] # "idle" /\ pc[w] # "idle" /\ task[v] = task[w] => v = w

(* What a handler is about to do to the payment of its notice is still     *)
(* right, although others handled notices of that payment meanwhile.       *)
WorkInv ==
    \A w \in Workers : LET p == task[w].pay IN
        /\ pc[w] \in AboutCheckout \ {"start"} => task[w].val = "paid"
        /\ pc[w] = "record" /\ kind[p] # "PROMOTION" => p \in settled
        /\ pc[w] \in {"findTx", "createTx", "giveBack", "markRefunded"} => kind[p] = "MESSAGE"
        /\ pc[w] = "createTx" => status[p] = "none"
        /\ pc[w] \in {"giveBack", "markRefunded"} => status[p] \in {"PENDING", "REFUNDED"}
        /\ pc[w] = "markRefunded" => refundedAt[p] = Amount
        /\ pc[w] = "writeTx" => status[p] # "none"
        /\ pc[w] = "applyDispute" =>
              /\ status[p] # "none"
              /\ seen[w].dispute = "lost" => disputeAt[p] = "lost"
        /\ pc[w] = "readDisputed" /\ seen[w].dispute = "lost" => disputeAt[p] = "lost"

(* The mirror calls no dispute lost that is not. *)
MirrorInv == \A p \in Payments : mirror[p] = "lost" => disputeAt[p] = "lost"

SafeInv ==
    /\ MirrorInv /\ RefundedIsReal /\ NeverOverstated /\ UnlockIsPaid
    /\ FeeSettledFirst

Inv == TypeInv /\ MailInv /\ TaskInv /\ WorkInv /\ SafeInv

Rank(s) == IF s = "none" THEN 0 ELSE
           IF s = "warning_needs_response" THEN 1 ELSE
           IF s \in Held THEN 2 ELSE 3

(* A dispute only moves on, and no notice comes before the payment. *)
DisputeInv ==
    \A n \in mail :
        /\ n.what = "checkout" \/ checkout[n.pay] = "paid"
        /\ n.what = "dispute" =>
              /\ n.val # "none"
              /\ n.val = disputeAt[n.pay] \/ Rank(n.val) < Rank(disputeAt[n.pay])
              /\ n.val \in Held => disputeAt[n.pay] \in Held \union {"won", "lost"}

(* In Stripe's order a handler has the oldest notice of its payment; that  *)
(* of the checkout comes before any other.                                 *)
OrderInv == inOrder =>
    /\ \A n \in mail : n.pos < made
    /\ \A n, m \in mail : n.pos = m.pos => n = m
    /\ \A w \in Workers : pc[w] # "idle" =>
          \A m \in mail : m.pay = task[w].pay => task[w].pos <= m.pos
    /\ \A n, m \in mail : n.what = "checkout" /\ n.pay = m.pay => n.pos <= m.pos
    /\ \A n, m \in mail : n.what = "dispute" /\ m.what = "dispute" /\ n.pay = m.pay
                            /\ n.pos < m.pos => Rank(n.val) < Rank(m.val)

InTurn == inOrder /\ faults = 0

(* A notice whose handler, if one has it, is still in these steps. *)
StillIn(n, steps) == \A w \in Workers : pc[w] # "idle" /\ task[w] = n => pc[w] \in steps

(* In turn, what a handler read is what is there, and a notice of a        *)
(* dispute is newer than the mirror until it is written to it.             *)
InStep(w) ==
    LET p == task[w].pay IN
    /\ pc[w] \in {"writeTx", "applyDispute"} => seen[w].status = status[p]
    /\ pc[w] = "upsert" => seen[w].dispute = mirror[p]
    /\ pc[w] \in {"readMirror", "readDisputed", "applyDispute"} => mirror[p] = task[w].val
    /\ pc[w] \in {"readDisputed", "applyDispute"} => seen[w].dispute = task[w].val

News(n) ==
    n.what = "dispute" /\ StillIn(n, {"upsert"}) => Rank(mirror[n.pay]) < Rank(n.val)

TurnInv == InTurn =>
    /\ \A w \in Workers : InStep(w)
    /\ \A n \in mail : News(n)

Awaits(p, what, val, steps) ==
    \E n \in mail : n.pay = p /\ n.what = what /\ n.val = val /\ StillIn(n, steps)

Applying == {"upsert", "readMirror", "readDisputed", "applyDispute"}

(* In turn, the records agree with Stripe but for what a notice that is    *)
(* not yet applied will bring.                                             *)
PaidAgrees(p) ==
    /\ status[p] # "none" => checkout[p] = "paid"
    /\ checkout[p] = "paid" =>
          status[p] # "none" \/ Awaits(p, "checkout", "paid", AboutCheckout)

MirrorAgrees(p) ==
    mirror[p] = disputeAt[p] \/ Awaits(p, "dispute", disputeAt[p], {"upsert"})

RefundAgrees(p) ==
    refundedAt[p] = Amount =>
        status[p] = "REFUNDED" \/ Awaits(p, "refunded", Amount, {"readTx", "writeTx"})

DisputeAgrees(p) ==
    /\ disputeAt[p] = "lost" =>
          status[p] = "REFUNDED" \/ Awaits(p, "dispute", "lost", Applying)
    /\ disputeAt[p] \in Held =>
          \/ status[p] \in {"DISPUTED", "PENDING", "REFUNDED"}
          \/ Awaits(p, "dispute", disputeAt[p], Applying)
    /\ status[p] = "DISPUTED" =>
          \/ disputeAt[p] \in Held
          \/ disputeAt[p] \in {"won", "lost"} /\ Awaits(p, "dispute", disputeAt[p], Applying)

UnlockAgrees(p) ==
    p \in unlocked =>
        \/ status[p] \in {"COMPLETED", "DISPUTED"}
        \/ \E w \in Workers : pc[w] = "revoke" /\ task[w].pay = p

Agrees(p) ==
    /\ PaidAgrees(p) /\ MirrorAgrees(p) /\ RefundAgrees(p)
    /\ DisputeAgrees(p) /\ UnlockAgrees(p)

AgreeInv == InTurn => \A p \in Payments : Agrees(p)

-----------------------------------------------------------------------------
(* What a handler remembers is replaced field by field. *)
LEMMA SeenTypes ==
    ASSUME seen \in [Workers -> Seen], NEW w \in Workers, NEW p \in Payments,
           status \in [Payments -> TxStates], refunded \in [Payments -> 0..Amount],
           mirror \in [Payments -> Disputes]
    PROVE  /\ [seen EXCEPT ![w].status = status[p]] \in [Workers -> Seen]
           /\ [seen EXCEPT ![w].status = status[p], ![w].refunded = refunded[p]]
                 \in [Workers -> Seen]
           /\ [seen EXCEPT ![w].dispute = mirror[p]] \in [Workers -> Seen]
  BY DEF Seen

(* A step keeps the types. *)
LEMMA TypeStep == TypeInv /\ MailInv /\ TaskInv /\ [Next]_vars => TypeInv'
  <1> SUFFICES ASSUME TypeInv, MailInv, TaskInv, [Next]_vars PROVE TypeInv'
    OBVIOUS
  <1> USE PaymentsAssumption DEF stripeVars, dbVars, workVars, TypeInv, TypeOK, MailInv, True,
     TaskInv, PCs, TxStates, Disputes, Held, Inquiry, Closed, AboutCheckout, AboutRefund,
     AboutDispute
  <1>0. NothingSeen \in Seen
    BY DEF Seen, NothingSeen
  <1> USE <1>0
  <1>1. ASSUME NEW p \in Payments, CloseCheckout(p) PROVE TypeInv'
    BY <1>1 DEF CloseCheckout, Make
  <1>2. ASSUME NEW p \in Payments, StaffRefund(p) PROVE TypeInv'
    BY <1>2 DEF StaffRefund, Refundable, Make
  <1>3. ASSUME NEW p \in Payments, MoveDispute(p) PROVE TypeInv'
    BY <1>3 DEF MoveDispute, NextOfDispute, Make
  <1>4. ASSUME NEW p \in Payments,
               DeleteMessage(p) \/ EndPromotion(p) \/ RestartPromotion(p)
        PROVE TypeInv'
    BY <1>4 DEF DeleteMessage, EndPromotion, RestartPromotion
  <1>5. ASSUME NEW w \in Workers, NEW n \in mail, Take(w, n) PROVE TypeInv'
    <2>1. [NothingSeen EXCEPT !.dispute =
             IF n.what = "dispute" THEN mirror[n.pay] ELSE "none"] \in Seen
      BY DEF Seen, NothingSeen
    <2> QED
      BY <1>5, <2>1 DEF Take
  <1>6. ASSUME NEW w \in Workers, Finish(w) PROVE TypeInv'
    <2>1. \A v \in Workers : pc'[v] # "idle" => task'[v] \in mail'
      BY <1>6 DEF Finish, Drop
    <2> QED
      BY <1>6, <2>1 DEF Finish, Drop, NoTask
  <1>7. ASSUME NEW w \in Workers, NEW p \in Payments, Expire(w, p) PROVE TypeInv'
    BY <1>7 DEF Expire, Done, On
  <1>8. ASSUME NEW w \in Workers, NEW p \in Payments, Begin(w, p) PROVE TypeInv'
    BY <1>8 DEF Begin, Goto, On
  <1>9. ASSUME NEW w \in Workers, NEW p \in Payments, SettleFee(w, p) PROVE TypeInv'
    BY <1>9 DEF SettleFee, Goto, On
  <1>10. ASSUME NEW w \in Workers, NEW p \in Payments, Record(w, p) PROVE TypeInv'
    BY <1>10 DEF Record, Done, Unlocks, On
  <1>11. ASSUME NEW w \in Workers, NEW p \in Payments, RecordRefused(w, p) PROVE TypeInv'
    BY <1>11 DEF RecordRefused, Drop, On, NoTask
  <1>12. ASSUME NEW w \in Workers, NEW p \in Payments, FindTx(w, p) PROVE TypeInv'
    <2>1. CASE /\ Goto(w, IF status[p] = "none" THEN "createTx" ELSE "giveBack")
               /\ UNCHANGED stripeVars
      BY <1>12, <2>1 DEF FindTx, On, Goto
    <2>2. CASE Done(w)
      BY <1>12, <2>2 DEF FindTx, On, Done
    <2> QED
      BY <1>12, <2>1, <2>2 DEF FindTx
  <1>13. ASSUME NEW w \in Workers, NEW p \in Payments, CreateTx(w, p) PROVE TypeInv'
    BY <1>13 DEF CreateTx, Goto, On
  <1>14. ASSUME NEW w \in Workers, NEW p \in Payments, GiveBack(w, p) PROVE TypeInv'
    <2>1. CASE FullRefund(p) /\ Goto(w, "markRefunded")
      BY <1>14, <2>1 DEF GiveBack, On, FullRefund, Make, Goto
    <2>2. CASE Goto(w, "markRefunded") /\ UNCHANGED stripeVars
      BY <1>14, <2>2 DEF GiveBack, On, Goto
    <2>3. CASE Done(w)
      BY <1>14, <2>3 DEF GiveBack, On, Done
    <2> QED
      BY <1>14, <2>1, <2>2, <2>3 DEF GiveBack
  <1>15. ASSUME NEW w \in Workers, NEW p \in Payments, MarkRefunded(w, p) PROVE TypeInv'
    BY <1>15 DEF MarkRefunded, Done, On
  <1>16. ASSUME NEW w \in Workers, NEW p \in Payments, ReadTx(w, p) PROVE TypeInv'
    <2>1. CASE Done(w)
      BY <1>16, <2>1 DEF ReadTx, On, Done
    <2>2. CASE /\ seen' = [seen EXCEPT ![w].status = status[p], ![w].refunded = refunded[p]]
               /\ pc' = [pc EXCEPT ![w] = "writeTx"]
               /\ UNCHANGED <<task, stripeVars>>
      <3>1. seen' \in [Workers -> Seen]
        BY <2>2, SeenTypes
      <3>2. task[w] \in mail /\ UNCHANGED <<dbVars, faults>>
        BY <1>16 DEF ReadTx, On
      <3>3. pc' = [pc EXCEPT ![w] = "writeTx"] /\ UNCHANGED <<task, stripeVars>>
        BY <2>2
      <3> QED
        BY <3>1, <3>2, <3>3
    <2> QED
      BY <1>16, <2>1, <2>2 DEF ReadTx
  <1>17. ASSUME NEW w \in Workers, NEW p \in Payments, WriteTx(w, p) PROVE TypeInv'
    <2>1. task[w] \in mail /\ task[w].val \in 0..Amount
      BY <1>17 DEF WriteTx, On
    <2>2. NewTotal(w, p) \in 0..Amount
      BY <2>1 DEF NewTotal
    <2>3. status' \in [Payments -> TxStates] /\ refunded' \in [Payments -> 0..Amount]
      BY <1>17, <2>2 DEF WriteTx
    <2>4. CASE Goto(w, "revoke") /\ UNCHANGED stripeVars
      BY <1>17, <2>3, <2>4 DEF WriteTx, On, Goto
    <2>5. CASE Done(w)
      BY <1>17, <2>3, <2>5 DEF WriteTx, On, Done
    <2> QED
      BY <1>17, <2>4, <2>5 DEF WriteTx
  <1>18. ASSUME NEW w \in Workers, NEW p \in Payments, Revoke(w, p) PROVE TypeInv'
    BY <1>18 DEF Revoke, Done, On
  <1>19. ASSUME NEW w \in Workers, NEW p \in Payments, Upsert(w, p) PROVE TypeInv'
    BY <1>19 DEF Upsert, Goto, On
  <1>20. ASSUME NEW w \in Workers, NEW p \in Payments, ReadMirror(w, p) PROVE TypeInv'
    <2>1. CASE Done(w)
      BY <1>20, <2>1 DEF ReadMirror, On, Done
    <2>2. CASE /\ seen' = [seen EXCEPT ![w].dispute = mirror[p]]
               /\ pc' = [pc EXCEPT ![w] = "readDisputed"]
               /\ UNCHANGED <<task, stripeVars>>
      <3>1. seen' \in [Workers -> Seen]
        BY <2>2, SeenTypes
      <3>2. task[w] \in mail /\ UNCHANGED <<dbVars, faults>>
        BY <1>20 DEF ReadMirror, On
      <3>3. pc' = [pc EXCEPT ![w] = "readDisputed"] /\ UNCHANGED <<task, stripeVars>>
        BY <2>2
      <3> QED
        BY <3>1, <3>2, <3>3
    <2> QED
      BY <1>20, <2>1, <2>2 DEF ReadMirror
  <1>21. ASSUME NEW w \in Workers, NEW p \in Payments, ReadDisputed(w, p) PROVE TypeInv'
    <2>1. CASE Done(w)
      BY <1>21, <2>1 DEF ReadDisputed, On, Done
    <2>2. CASE /\ seen' = [seen EXCEPT ![w].status = status[p]]
               /\ pc' = [pc EXCEPT ![w] = "applyDispute"]
               /\ UNCHANGED <<task, stripeVars>>
      <3>1. seen' \in [Workers -> Seen]
        BY <2>2, SeenTypes
      <3>2. task[w] \in mail /\ UNCHANGED <<dbVars, faults>>
        BY <1>21 DEF ReadDisputed, On
      <3>3. pc' = [pc EXCEPT ![w] = "applyDispute"] /\ UNCHANGED <<task, stripeVars>>
        BY <2>2
      <3> QED
        BY <3>1, <3>2, <3>3
    <2> QED
      BY <1>21, <2>1, <2>2 DEF ReadDisputed
  <1>22. ASSUME NEW w \in Workers, NEW p \in Payments, ApplyDispute(w, p) PROVE TypeInv'
    <2>1. status' \in [Payments -> TxStates]
      BY <1>22 DEF ApplyDispute, MoveIf
    <2>2. CASE Goto(w, "revoke") /\ UNCHANGED stripeVars
      BY <1>22, <2>1, <2>2 DEF ApplyDispute, On, Goto
    <2>3. CASE Done(w)
      BY <1>22, <2>1, <2>3 DEF ApplyDispute, On, Done
    <2> QED
      BY <1>22, <2>2, <2>3 DEF ApplyDispute
  <1>23. ASSUME NEW w \in Workers, Fail(w) PROVE TypeInv'
    BY <1>23 DEF Fail, Drop, NoTask
  <1>24. CASE UNCHANGED vars
    BY <1>24 DEF vars
  <1> QED
    BY <1>1, <1>2, <1>3, <1>4, <1>5, <1>6, <1>7, <1>8, <1>9, <1>10, <1>11, <1>12, <1>13, <1>14,
        <1>15, <1>16, <1>17, <1>18, <1>19, <1>20, <1>21, <1>22, <1>23, <1>24
    DEF Next, Handle

(* A step keeps the notices true: Stripe takes nothing back but by a new notice. *)
LEMMA MailStep == TypeInv /\ MailInv /\ TaskInv /\ WorkInv /\ [Next]_vars => MailInv'
  <1> SUFFICES ASSUME TypeInv, MailInv, TaskInv, WorkInv, [Next]_vars PROVE MailInv'
    OBVIOUS
  <1> USE PaymentsAssumption DEF stripeVars, dbVars, workVars, TypeInv, TypeOK, MailInv, True,
     TaskInv, Disputes, Held, Inquiry, Closed, AboutCheckout, AboutRefund, AboutDispute
  <1>1. ASSUME NEW p \in Payments, CloseCheckout(p) PROVE MailInv'
    BY <1>1 DEF CloseCheckout, Make
  <1>2. ASSUME NEW p \in Payments, StaffRefund(p) PROVE MailInv'
    BY <1>2 DEF StaffRefund, Refundable, Make
  <1>3. ASSUME NEW p \in Payments, MoveDispute(p) PROVE MailInv'
    BY <1>3 DEF MoveDispute, NextOfDispute, Make
  <1>4. ASSUME NEW p \in Payments,
               DeleteMessage(p) \/ EndPromotion(p) \/ RestartPromotion(p)
        PROVE MailInv'
    BY <1>4 DEF DeleteMessage, EndPromotion, RestartPromotion
  <1>5. ASSUME NEW w \in Workers, NEW n \in mail, Take(w, n) PROVE MailInv'
    BY <1>5 DEF Take, NothingSeen
  <1>6. ASSUME NEW w \in Workers, Finish(w) PROVE MailInv'
    BY <1>6 DEF Finish, Drop, NoTask, NothingSeen
  <1>7. ASSUME NEW w \in Workers, NEW p \in Payments, Expire(w, p) PROVE MailInv'
    BY <1>7 DEF Expire, Done, On, NothingSeen
  <1>8. ASSUME NEW w \in Workers, NEW p \in Payments, Begin(w, p) PROVE MailInv'
    BY <1>8 DEF Begin, Goto, On
  <1>9. ASSUME NEW w \in Workers, NEW p \in Payments, SettleFee(w, p) PROVE MailInv'
    BY <1>9 DEF SettleFee, Goto, On
  <1>10. ASSUME NEW w \in Workers, NEW p \in Payments, Record(w, p) PROVE MailInv'
    BY <1>10 DEF Record, Done, Unlocks, On, NothingSeen
  <1>11. ASSUME NEW w \in Workers, NEW p \in Payments, RecordRefused(w, p) PROVE MailInv'
    BY <1>11 DEF RecordRefused, Drop, On, NothingSeen, NoTask
  <1>12. ASSUME NEW w \in Workers, NEW p \in Payments, FindTx(w, p) PROVE MailInv'
    BY <1>12 DEF FindTx, Goto, Done, On, NothingSeen
  <1>13. ASSUME NEW w \in Workers, NEW p \in Payments, CreateTx(w, p) PROVE MailInv'
    BY <1>13 DEF CreateTx, Goto, On
  <1>14. ASSUME NEW w \in Workers, NEW p \in Payments, GiveBack(w, p) PROVE MailInv'
    BY <1>14 DEF GiveBack, FullRefund, Make, Goto, Done, On, NothingSeen
  <1>15. ASSUME NEW w \in Workers, NEW p \in Payments, MarkRefunded(w, p) PROVE MailInv'
    BY <1>15 DEF MarkRefunded, Done, On, NothingSeen
  <1>16. ASSUME NEW w \in Workers, NEW p \in Payments, ReadTx(w, p) PROVE MailInv'
    BY <1>16 DEF ReadTx, Done, On, NothingSeen
  <1>17. ASSUME NEW w \in Workers, NEW p \in Payments, WriteTx(w, p) PROVE MailInv'
    BY <1>17 DEF WriteTx, BecomesRefunded, NewTotal, Goto, Done, On, NothingSeen
  <1>18. ASSUME NEW w \in Workers, NEW p \in Payments, Revoke(w, p) PROVE MailInv'
    BY <1>18 DEF Revoke, Done, On, NothingSeen
  <1>19. ASSUME NEW w \in Workers, NEW p \in Payments, Upsert(w, p) PROVE MailInv'
    BY <1>19 DEF Upsert, Goto, On
  <1>20. ASSUME NEW w \in Workers, NEW p \in Payments, ReadMirror(w, p) PROVE MailInv'
    BY <1>20 DEF ReadMirror, Done, On, NothingSeen
  <1>21. ASSUME NEW w \in Workers, NEW p \in Payments, ReadDisputed(w, p) PROVE MailInv'
    BY <1>21 DEF ReadDisputed, Done, On, NothingSeen
  <1>22. ASSUME NEW w \in Workers, NEW p \in Payments, ApplyDispute(w, p) PROVE MailInv'
    BY <1>22 DEF ApplyDispute, MoveIf, Goto, Done, On, NothingSeen
  <1>23. ASSUME NEW w \in Workers, Fail(w) PROVE MailInv'
    BY <1>23 DEF Fail, Drop, NoTask, NothingSeen
  <1>24. CASE UNCHANGED vars
    BY <1>24 DEF vars
  <1> QED
    BY <1>1, <1>2, <1>3, <1>4, <1>5, <1>6, <1>7, <1>8, <1>9, <1>10, <1>11, <1>12, <1>13, <1>14,
        <1>15, <1>16, <1>17, <1>18, <1>19, <1>20, <1>21, <1>22, <1>23, <1>24
    DEF Next, Handle

(* A step keeps every handler in the steps for its own kind of notice. *)
LEMMA TaskStep == TypeInv /\ MailInv /\ TaskInv /\ [Next]_vars => TaskInv'
  <1> SUFFICES ASSUME TypeInv, MailInv, TaskInv, [Next]_vars PROVE TaskInv'
    OBVIOUS
  <1> USE PaymentsAssumption DEF stripeVars, dbVars, workVars, TypeInv, TypeOK, MailInv, TaskInv,
     AboutCheckout, AboutRefund, AboutDispute
  <1>1. ASSUME NEW p \in Payments, CloseCheckout(p) PROVE TaskInv'
    BY <1>1 DEF CloseCheckout, Make
  <1>2. ASSUME NEW p \in Payments, StaffRefund(p) PROVE TaskInv'
    BY <1>2 DEF StaffRefund, Refundable, Make
  <1>3. ASSUME NEW p \in Payments, MoveDispute(p) PROVE TaskInv'
    BY <1>3 DEF MoveDispute, NextOfDispute, Make
  <1>4. ASSUME NEW p \in Payments,
               DeleteMessage(p) \/ EndPromotion(p) \/ RestartPromotion(p)
        PROVE TaskInv'
    BY <1>4 DEF DeleteMessage, EndPromotion, RestartPromotion
  <1>5. ASSUME NEW w \in Workers, NEW n \in mail, Take(w, n) PROVE TaskInv'
    BY <1>5 DEF Take, NothingSeen
  <1>6. ASSUME NEW w \in Workers, Finish(w) PROVE TaskInv'
    BY <1>6 DEF Finish, Drop, NoTask, NothingSeen
  <1>7. ASSUME NEW w \in Workers, NEW p \in Payments, Expire(w, p) PROVE TaskInv'
    BY <1>7 DEF Expire, Done, On, NothingSeen
  <1>8. ASSUME NEW w \in Workers, NEW p \in Payments, Begin(w, p) PROVE TaskInv'
    BY <1>8 DEF Begin, Goto, On
  <1>9. ASSUME NEW w \in Workers, NEW p \in Payments, SettleFee(w, p) PROVE TaskInv'
    BY <1>9 DEF SettleFee, Goto, On
  <1>10. ASSUME NEW w \in Workers, NEW p \in Payments, Record(w, p) PROVE TaskInv'
    BY <1>10 DEF Record, Done, Unlocks, On, NothingSeen
  <1>11. ASSUME NEW w \in Workers, NEW p \in Payments, RecordRefused(w, p) PROVE TaskInv'
    BY <1>11 DEF RecordRefused, Drop, On, NothingSeen, NoTask
  <1>12. ASSUME NEW w \in Workers, NEW p \in Payments, FindTx(w, p) PROVE TaskInv'
    BY <1>12 DEF FindTx, Goto, Done, On, NothingSeen
  <1>13. ASSUME NEW w \in Workers, NEW p \in Payments, CreateTx(w, p) PROVE TaskInv'
    BY <1>13 DEF CreateTx, Goto, On
  <1>14. ASSUME NEW w \in Workers, NEW p \in Payments, GiveBack(w, p) PROVE TaskInv'
    BY <1>14 DEF GiveBack, FullRefund, Make, Goto, Done, On, NothingSeen
  <1>15. ASSUME NEW w \in Workers, NEW p \in Payments, MarkRefunded(w, p) PROVE TaskInv'
    BY <1>15 DEF MarkRefunded, Done, On, NothingSeen
  <1>16. ASSUME NEW w \in Workers, NEW p \in Payments, ReadTx(w, p) PROVE TaskInv'
    BY <1>16 DEF ReadTx, Done, On, NothingSeen
  <1>17. ASSUME NEW w \in Workers, NEW p \in Payments, WriteTx(w, p) PROVE TaskInv'
    BY <1>17 DEF WriteTx, BecomesRefunded, NewTotal, Goto, Done, On, NothingSeen
  <1>18. ASSUME NEW w \in Workers, NEW p \in Payments, Revoke(w, p) PROVE TaskInv'
    BY <1>18 DEF Revoke, Done, On, NothingSeen
  <1>19. ASSUME NEW w \in Workers, NEW p \in Payments, Upsert(w, p) PROVE TaskInv'
    BY <1>19 DEF Upsert, Goto, On
  <1>20. ASSUME NEW w \in Workers, NEW p \in Payments, ReadMirror(w, p) PROVE TaskInv'
    BY <1>20 DEF ReadMirror, Done, On, NothingSeen
  <1>21. ASSUME NEW w \in Workers, NEW p \in Payments, ReadDisputed(w, p) PROVE TaskInv'
    BY <1>21 DEF ReadDisputed, Done, On, NothingSeen
  <1>22. ASSUME NEW w \in Workers, NEW p \in Payments, ApplyDispute(w, p) PROVE TaskInv'
    BY <1>22 DEF ApplyDispute, MoveIf, Goto, Done, On, NothingSeen
  <1>23. ASSUME NEW w \in Workers, Fail(w) PROVE TaskInv'
    BY <1>23 DEF Fail, Drop, NoTask, NothingSeen
  <1>24. CASE UNCHANGED vars
    BY <1>24 DEF vars
  <1> QED
    BY <1>1, <1>2, <1>3, <1>4, <1>5, <1>6, <1>7, <1>8, <1>9, <1>10, <1>11, <1>12, <1>13, <1>14,
        <1>15, <1>16, <1>17, <1>18, <1>19, <1>20, <1>21, <1>22, <1>23, <1>24
    DEF Next, Handle

(* A handler's next write stays right, whatever the others do meanwhile. *)
LEMMA WorkStep == TypeInv /\ MailInv /\ TaskInv /\ WorkInv /\ MirrorInv /\ [Next]_vars => WorkInv'
  <1> SUFFICES ASSUME TypeInv, MailInv, TaskInv, WorkInv, MirrorInv, [Next]_vars PROVE WorkInv'
    OBVIOUS
  <1> USE PaymentsAssumption DEF stripeVars, dbVars, workVars, TypeInv, TypeOK, MailInv, True,
     TaskInv, WorkInv, MirrorInv, Seen, AboutCheckout, AboutRefund, AboutDispute
  <1>1. ASSUME NEW p \in Payments, CloseCheckout(p) PROVE WorkInv'
    BY <1>1 DEF CloseCheckout, Make
  <1>2. ASSUME NEW p \in Payments, StaffRefund(p) PROVE WorkInv'
    BY <1>2 DEF StaffRefund, Refundable, Make
  <1>3. ASSUME NEW p \in Payments, MoveDispute(p) PROVE WorkInv'
    BY <1>3 DEF MoveDispute, NextOfDispute, Make
  <1>4. ASSUME NEW p \in Payments,
               DeleteMessage(p) \/ EndPromotion(p) \/ RestartPromotion(p)
        PROVE WorkInv'
    BY <1>4 DEF DeleteMessage, EndPromotion, RestartPromotion
  <1>5. ASSUME NEW w \in Workers, NEW n \in mail, Take(w, n) PROVE WorkInv'
    BY <1>5 DEF Take, NothingSeen
  <1>6. ASSUME NEW w \in Workers, Finish(w) PROVE WorkInv'
    BY <1>6 DEF Finish, Drop, NoTask, NothingSeen
  <1>7. ASSUME NEW w \in Workers, NEW p \in Payments, Expire(w, p) PROVE WorkInv'
    BY <1>7 DEF Expire, Done, On, NothingSeen
  <1>8. ASSUME NEW w \in Workers, NEW p \in Payments, Begin(w, p) PROVE WorkInv'
    BY <1>8 DEF Begin, Goto, On
  <1>9. ASSUME NEW w \in Workers, NEW p \in Payments, SettleFee(w, p) PROVE WorkInv'
    BY <1>9 DEF SettleFee, Goto, On
  <1>10. ASSUME NEW w \in Workers, NEW p \in Payments, Record(w, p) PROVE WorkInv'
    BY <1>10 DEF Record, Done, Unlocks, On, NothingSeen
  <1>11. ASSUME NEW w \in Workers, NEW p \in Payments, RecordRefused(w, p) PROVE WorkInv'
    BY <1>11 DEF RecordRefused, Drop, On, NothingSeen, NoTask
  <1>12. ASSUME NEW w \in Workers, NEW p \in Payments, FindTx(w, p) PROVE WorkInv'
    BY <1>12 DEF FindTx, Goto, Done, On, NothingSeen
  <1>13. ASSUME NEW w \in Workers, NEW p \in Payments, CreateTx(w, p) PROVE WorkInv'
    BY <1>13 DEF CreateTx, Goto, On
  <1>14. ASSUME NEW w \in Workers, NEW p \in Payments, GiveBack(w, p) PROVE WorkInv'
    BY <1>14 DEF GiveBack, FullRefund, Make, Goto, Done, On, NothingSeen
  <1>15. ASSUME NEW w \in Workers, NEW p \in Payments, MarkRefunded(w, p) PROVE WorkInv'
    BY <1>15 DEF MarkRefunded, Done, On, NothingSeen
  <1>16. ASSUME NEW w \in Workers, NEW p \in Payments, ReadTx(w, p) PROVE WorkInv'
    BY <1>16 DEF ReadTx, Done, On, NothingSeen
  <1>17. ASSUME NEW w \in Workers, NEW p \in Payments, WriteTx(w, p) PROVE WorkInv'
    BY <1>17 DEF WriteTx, BecomesRefunded, NewTotal, Goto, Done, On, NothingSeen
  <1>18. ASSUME NEW w \in Workers, NEW p \in Payments, Revoke(w, p) PROVE WorkInv'
    BY <1>18 DEF Revoke, Done, On, NothingSeen
  <1>19. ASSUME NEW w \in Workers, NEW p \in Payments, Upsert(w, p) PROVE WorkInv'
    BY <1>19 DEF Upsert, Goto, On
  <1>20. ASSUME NEW w \in Workers, NEW p \in Payments, ReadMirror(w, p) PROVE WorkInv'
    <2>1. CASE Done(w)
      BY <1>20, <2>1 DEF ReadMirror, On, Done, NothingSeen
    <2>2. CASE /\ seen' = [seen EXCEPT ![w].dispute = mirror[p]]
               /\ pc' = [pc EXCEPT ![w] = "readDisputed"]
               /\ UNCHANGED <<task, stripeVars>>
      BY <1>20, <2>2 DEF ReadMirror, On
    <2> QED
      BY <1>20, <2>1, <2>2 DEF ReadMirror
  <1>21. ASSUME NEW w \in Workers, NEW p \in Payments, ReadDisputed(w, p) PROVE WorkInv'
    BY <1>21 DEF ReadDisputed, Done, On, NothingSeen
  <1>22. ASSUME NEW w \in Workers, NEW p \in Payments, ApplyDispute(w, p) PROVE WorkInv'
    BY <1>22 DEF ApplyDispute, MoveIf, Goto, Done, On, NothingSeen
  <1>23. ASSUME NEW w \in Workers, Fail(w) PROVE WorkInv'
    BY <1>23 DEF Fail, Drop, NoTask, NothingSeen
  <1>24. CASE UNCHANGED vars
    BY <1>24 DEF vars
  <1> QED
    BY <1>1, <1>2, <1>3, <1>4, <1>5, <1>6, <1>7, <1>8, <1>9, <1>10, <1>11, <1>12, <1>13, <1>14,
        <1>15, <1>16, <1>17, <1>18, <1>19, <1>20, <1>21, <1>22, <1>23, <1>24
    DEF Next, Handle

(* A step keeps what the records promise. *)
LEMMA SafeStep == TypeInv /\ MailInv /\ TaskInv /\ WorkInv /\ SafeInv /\ [Next]_vars => SafeInv'
  <1> SUFFICES ASSUME TypeInv, MailInv, TaskInv, WorkInv, SafeInv, [Next]_vars PROVE SafeInv'
    OBVIOUS
  <1> USE PaymentsAssumption DEF stripeVars, dbVars, workVars, TypeInv, TypeOK, MailInv, True,
     TaskInv, WorkInv, SafeInv, MirrorInv, RefundedIsReal, NeverOverstated, UnlockIsPaid,
     FeeSettledFirst, AboutCheckout, AboutRefund, AboutDispute
  <1>1. ASSUME NEW p \in Payments, CloseCheckout(p) PROVE SafeInv'
    BY <1>1 DEF CloseCheckout, Make
  <1>2. ASSUME NEW p \in Payments, StaffRefund(p) PROVE SafeInv'
    BY <1>2 DEF StaffRefund, Refundable, Make
  <1>3. ASSUME NEW p \in Payments, MoveDispute(p) PROVE SafeInv'
    BY <1>3 DEF MoveDispute, NextOfDispute, Make
  <1>4. ASSUME NEW p \in Payments,
               DeleteMessage(p) \/ EndPromotion(p) \/ RestartPromotion(p)
        PROVE SafeInv'
    BY <1>4 DEF DeleteMessage, EndPromotion, RestartPromotion
  <1>5. ASSUME NEW w \in Workers, NEW n \in mail, Take(w, n) PROVE SafeInv'
    BY <1>5 DEF Take, NothingSeen
  <1>6. ASSUME NEW w \in Workers, Finish(w) PROVE SafeInv'
    BY <1>6 DEF Finish, Drop, NoTask, NothingSeen
  <1>7. ASSUME NEW w \in Workers, NEW p \in Payments, Expire(w, p) PROVE SafeInv'
    BY <1>7 DEF Expire, Done, On, NothingSeen
  <1>8. ASSUME NEW w \in Workers, NEW p \in Payments, Begin(w, p) PROVE SafeInv'
    BY <1>8 DEF Begin, Goto, On
  <1>9. ASSUME NEW w \in Workers, NEW p \in Payments, SettleFee(w, p) PROVE SafeInv'
    BY <1>9 DEF SettleFee, Goto, On
  <1>10. ASSUME NEW w \in Workers, NEW p \in Payments, Record(w, p) PROVE SafeInv'
    BY <1>10 DEF Record, Done, Unlocks, On, NothingSeen
  <1>11. ASSUME NEW w \in Workers, NEW p \in Payments, RecordRefused(w, p) PROVE SafeInv'
    BY <1>11 DEF RecordRefused, Drop, On, NothingSeen, NoTask
  <1>12. ASSUME NEW w \in Workers, NEW p \in Payments, FindTx(w, p) PROVE SafeInv'
    BY <1>12 DEF FindTx, Goto, Done, On, NothingSeen
  <1>13. ASSUME NEW w \in Workers, NEW p \in Payments, CreateTx(w, p) PROVE SafeInv'
    BY <1>13 DEF CreateTx, Goto, On
  <1>14. ASSUME NEW w \in Workers, NEW p \in Payments, GiveBack(w, p) PROVE SafeInv'
    BY <1>14 DEF GiveBack, FullRefund, Make, Goto, Done, On, NothingSeen
  <1>15. ASSUME NEW w \in Workers, NEW p \in Payments, MarkRefunded(w, p) PROVE SafeInv'
    BY <1>15 DEF MarkRefunded, Done, On, NothingSeen
  <1>16. ASSUME NEW w \in Workers, NEW p \in Payments, ReadTx(w, p) PROVE SafeInv'
    BY <1>16 DEF ReadTx, Done, On, NothingSeen
  <1>17. ASSUME NEW w \in Workers, NEW p \in Payments, WriteTx(w, p) PROVE SafeInv'
    <2>1. /\ task[w] \in mail /\ task[w].val \in 1..refundedAt[p]
          /\ status[p] # "none"
      BY <1>17 DEF WriteTx, On
    <2>2. /\ BecomesRefunded(w) => refundedAt[p] = Amount
          /\ NewTotal(w, p) <= refundedAt[p]
      BY <2>1 DEF BecomesRefunded, NewTotal
    <2>3. RefundedIsReal' /\ NeverOverstated'
      BY <1>17, <2>2 DEF WriteTx, Goto, Done
    <2>4. UnlockIsPaid' /\ FeeSettledFirst' /\ MirrorInv'
      BY <1>17, <2>1 DEF WriteTx, Goto, Done
    <2> QED
      BY <2>3, <2>4
  <1>18. ASSUME NEW w \in Workers, NEW p \in Payments, Revoke(w, p) PROVE SafeInv'
    BY <1>18 DEF Revoke, Done, On, NothingSeen
  <1>19. ASSUME NEW w \in Workers, NEW p \in Payments, Upsert(w, p) PROVE SafeInv'
    BY <1>19 DEF Upsert, Goto, On
  <1>20. ASSUME NEW w \in Workers, NEW p \in Payments, ReadMirror(w, p) PROVE SafeInv'
    BY <1>20 DEF ReadMirror, Done, On, NothingSeen
  <1>21. ASSUME NEW w \in Workers, NEW p \in Payments, ReadDisputed(w, p) PROVE SafeInv'
    BY <1>21 DEF ReadDisputed, Done, On, NothingSeen
  <1>22. ASSUME NEW w \in Workers, NEW p \in Payments, ApplyDispute(w, p) PROVE SafeInv'
    BY <1>22 DEF ApplyDispute, MoveIf, Goto, Done, On, NothingSeen
  <1>23. ASSUME NEW w \in Workers, Fail(w) PROVE SafeInv'
    BY <1>23 DEF Fail, Drop, NoTask, NothingSeen
  <1>24. CASE UNCHANGED vars
    BY <1>24 DEF vars
  <1> QED
    BY <1>1, <1>2, <1>3, <1>4, <1>5, <1>6, <1>7, <1>8, <1>9, <1>10, <1>11, <1>12, <1>13, <1>14,
        <1>15, <1>16, <1>17, <1>18, <1>19, <1>20, <1>21, <1>22, <1>23, <1>24
    DEF Next, Handle

(* A dispute moves on from whatever its notices say. *)
LEMMA DisputeStep ==
    TypeInv /\ MailInv /\ TaskInv /\ WorkInv /\ DisputeInv /\ [Next]_vars => DisputeInv'
  <1> SUFFICES ASSUME TypeInv, MailInv, TaskInv, WorkInv, DisputeInv, [Next]_vars PROVE DisputeInv'
    OBVIOUS
  <1> USE PaymentsAssumption DEF stripeVars, dbVars, workVars, TypeInv, TypeOK, MailInv, True,
     TaskInv, WorkInv, AboutCheckout, AboutRefund, AboutDispute, DisputeInv, Rank, Held,
     Disputes, Inquiry, Closed
  <1>1. ASSUME NEW p \in Payments, CloseCheckout(p) PROVE DisputeInv'
    BY <1>1 DEF CloseCheckout, Make
  <1>2. ASSUME NEW p \in Payments, StaffRefund(p) PROVE DisputeInv'
    BY <1>2 DEF StaffRefund, Refundable, Make
  <1>3. ASSUME NEW p \in Payments, MoveDispute(p) PROVE DisputeInv'
    BY <1>3 DEF MoveDispute, NextOfDispute, Make
  <1>4. ASSUME NEW p \in Payments,
               DeleteMessage(p) \/ EndPromotion(p) \/ RestartPromotion(p)
        PROVE DisputeInv'
    BY <1>4 DEF DeleteMessage, EndPromotion, RestartPromotion
  <1>5. ASSUME NEW w \in Workers, NEW n \in mail, Take(w, n) PROVE DisputeInv'
    BY <1>5 DEF Take, NothingSeen
  <1>6. ASSUME NEW w \in Workers, Finish(w) PROVE DisputeInv'
    BY <1>6 DEF Finish, Drop, NoTask, NothingSeen
  <1>7. ASSUME NEW w \in Workers, NEW p \in Payments, Expire(w, p) PROVE DisputeInv'
    BY <1>7 DEF Expire, Done, On, NothingSeen
  <1>8. ASSUME NEW w \in Workers, NEW p \in Payments, Begin(w, p) PROVE DisputeInv'
    BY <1>8 DEF Begin, Goto, On
  <1>9. ASSUME NEW w \in Workers, NEW p \in Payments, SettleFee(w, p) PROVE DisputeInv'
    BY <1>9 DEF SettleFee, Goto, On
  <1>10. ASSUME NEW w \in Workers, NEW p \in Payments, Record(w, p) PROVE DisputeInv'
    BY <1>10 DEF Record, Done, Unlocks, On, NothingSeen
  <1>11. ASSUME NEW w \in Workers, NEW p \in Payments, RecordRefused(w, p) PROVE DisputeInv'
    BY <1>11 DEF RecordRefused, Drop, On, NothingSeen, NoTask
  <1>12. ASSUME NEW w \in Workers, NEW p \in Payments, FindTx(w, p) PROVE DisputeInv'
    BY <1>12 DEF FindTx, Goto, Done, On, NothingSeen
  <1>13. ASSUME NEW w \in Workers, NEW p \in Payments, CreateTx(w, p) PROVE DisputeInv'
    BY <1>13 DEF CreateTx, Goto, On
  <1>14. ASSUME NEW w \in Workers, NEW p \in Payments, GiveBack(w, p) PROVE DisputeInv'
    BY <1>14 DEF GiveBack, FullRefund, Make, Goto, Done, On, NothingSeen
  <1>15. ASSUME NEW w \in Workers, NEW p \in Payments, MarkRefunded(w, p) PROVE DisputeInv'
    BY <1>15 DEF MarkRefunded, Done, On, NothingSeen
  <1>16. ASSUME NEW w \in Workers, NEW p \in Payments, ReadTx(w, p) PROVE DisputeInv'
    BY <1>16 DEF ReadTx, Done, On, NothingSeen
  <1>17. ASSUME NEW w \in Workers, NEW p \in Payments, WriteTx(w, p) PROVE DisputeInv'
    BY <1>17 DEF WriteTx, BecomesRefunded, NewTotal, Goto, Done, On, NothingSeen
  <1>18. ASSUME NEW w \in Workers, NEW p \in Payments, Revoke(w, p) PROVE DisputeInv'
    BY <1>18 DEF Revoke, Done, On, NothingSeen
  <1>19. ASSUME NEW w \in Workers, NEW p \in Payments, Upsert(w, p) PROVE DisputeInv'
    BY <1>19 DEF Upsert, Goto, On
  <1>20. ASSUME NEW w \in Workers, NEW p \in Payments, ReadMirror(w, p) PROVE DisputeInv'
    BY <1>20 DEF ReadMirror, Done, On, NothingSeen
  <1>21. ASSUME NEW w \in Workers, NEW p \in Payments, ReadDisputed(w, p) PROVE DisputeInv'
    BY <1>21 DEF ReadDisputed, Done, On, NothingSeen
  <1>22. ASSUME NEW w \in Workers, NEW p \in Payments, ApplyDispute(w, p) PROVE DisputeInv'
    BY <1>22 DEF ApplyDispute, MoveIf, Goto, Done, On, NothingSeen
  <1>23. ASSUME NEW w \in Workers, Fail(w) PROVE DisputeInv'
    BY <1>23 DEF Fail, Drop, NoTask, NothingSeen
  <1>24. CASE UNCHANGED vars
    BY <1>24 DEF vars
  <1> QED
    BY <1>1, <1>2, <1>3, <1>4, <1>5, <1>6, <1>7, <1>8, <1>9, <1>10, <1>11, <1>12, <1>13, <1>14,
        <1>15, <1>16, <1>17, <1>18, <1>19, <1>20, <1>21, <1>22, <1>23, <1>24
    DEF Next, Handle

(* In Stripe's order a handler keeps the oldest notice of its payment. *)
LEMMA OrderStep ==
    TypeInv /\ MailInv /\ TaskInv /\ WorkInv /\ DisputeInv /\ OrderInv /\ [Next]_vars => OrderInv'
  <1> SUFFICES ASSUME TypeInv, MailInv, TaskInv, WorkInv, DisputeInv, OrderInv, [Next]_vars
               PROVE  OrderInv'
    OBVIOUS
  <1> USE PaymentsAssumption DEF stripeVars, dbVars, workVars, TypeInv, TypeOK, MailInv, True,
     TaskInv, WorkInv, AboutCheckout, AboutRefund, AboutDispute, DisputeInv, OrderInv, Rank, Held
  <1>0. ASSUME UNCHANGED <<inOrder, mail, made, task>>,
              \A v \in Workers : pc'[v] # "idle" => pc[v] # "idle"
       PROVE  OrderInv'
    BY <1>0
  <1>1. ASSUME NEW p \in Payments, CloseCheckout(p) PROVE OrderInv'
    BY <1>1 DEF CloseCheckout, Make
  <1>2. ASSUME NEW p \in Payments, StaffRefund(p) PROVE OrderInv'
    BY <1>2 DEF StaffRefund, Refundable, Make
  <1>3. ASSUME NEW p \in Payments, MoveDispute(p) PROVE OrderInv'
    BY <1>3 DEF MoveDispute, NextOfDispute, Make
  <1>4. ASSUME NEW p \in Payments,
               DeleteMessage(p) \/ EndPromotion(p) \/ RestartPromotion(p)
        PROVE OrderInv'
    <2>1. UNCHANGED <<inOrder, mail, made, task, pc>>
      BY <1>4 DEF DeleteMessage, EndPromotion, RestartPromotion
    <2> QED
      BY <2>1, <1>0
  <1>5. ASSUME NEW w \in Workers, NEW n \in mail, Take(w, n) PROVE OrderInv'
    BY <1>5 DEF Take, NothingSeen
  <1>6. ASSUME NEW w \in Workers, Finish(w) PROVE OrderInv'
    BY <1>6 DEF Finish, Drop, NoTask, NothingSeen
  <1>7. ASSUME NEW w \in Workers, NEW p \in Payments, Expire(w, p) PROVE OrderInv'
    BY <1>7 DEF Expire, Done, On, NothingSeen
  <1>8. ASSUME NEW w \in Workers, NEW p \in Payments, Begin(w, p) PROVE OrderInv'
    BY <1>8 DEF Begin, Goto, On
  <1>9. ASSUME NEW w \in Workers, NEW p \in Payments, SettleFee(w, p) PROVE OrderInv'
    BY <1>9 DEF SettleFee, Goto, On
  <1>10. ASSUME NEW w \in Workers, NEW p \in Payments, Record(w, p) PROVE OrderInv'
    BY <1>10 DEF Record, Done, Unlocks, On, NothingSeen
  <1>11. ASSUME NEW w \in Workers, NEW p \in Payments, RecordRefused(w, p) PROVE OrderInv'
    BY <1>11 DEF RecordRefused, Drop, On, NothingSeen, NoTask
  <1>12. ASSUME NEW w \in Workers, NEW p \in Payments, FindTx(w, p) PROVE OrderInv'
    <2>1. UNCHANGED <<inOrder, mail, made, task>>
      BY <1>12 DEF FindTx, Goto, Done
    <2>2. \A v \in Workers : pc'[v] # "idle" => pc[v] # "idle"
      BY <1>12 DEF FindTx, Goto, Done, On
    <2> QED
      BY <1>0, <2>1, <2>2
  <1>13. ASSUME NEW w \in Workers, NEW p \in Payments, CreateTx(w, p) PROVE OrderInv'
    BY <1>13 DEF CreateTx, Goto, On
  <1>14. ASSUME NEW w \in Workers, NEW p \in Payments, GiveBack(w, p) PROVE OrderInv'
    <2>1. CASE FullRefund(p) /\ Goto(w, "markRefunded")
      BY <1>14, <2>1 DEF GiveBack, FullRefund, Make, Goto, On
    <2>2. CASE Goto(w, "markRefunded") /\ UNCHANGED stripeVars
      BY <1>14, <2>2, <1>0 DEF GiveBack, Goto, On
    <2>3. CASE Done(w)
      BY <1>14, <2>3, <1>0 DEF GiveBack, Done, On
    <2> QED
      BY <1>14, <2>1, <2>2, <2>3 DEF GiveBack
  <1>15. ASSUME NEW w \in Workers, NEW p \in Payments, MarkRefunded(w, p) PROVE OrderInv'
    BY <1>15 DEF MarkRefunded, Done, On, NothingSeen
  <1>16. ASSUME NEW w \in Workers, NEW p \in Payments, ReadTx(w, p) PROVE OrderInv'
    <2>1. UNCHANGED <<inOrder, mail, made, task>>
      BY <1>16 DEF ReadTx, Done
    <2>2. \A v \in Workers : pc'[v] # "idle" => pc[v] # "idle"
      BY <1>16 DEF ReadTx, Done, On
    <2> QED
      BY <1>0, <2>1, <2>2
  <1>17. ASSUME NEW w \in Workers, NEW p \in Payments, WriteTx(w, p) PROVE OrderInv'
    <2>1. UNCHANGED <<inOrder, mail, made, task>>
      BY <1>17 DEF WriteTx, Goto, Done
    <2>2. \A v \in Workers : pc'[v] # "idle" => pc[v] # "idle"
      BY <1>17 DEF WriteTx, Goto, Done, On
    <2> QED
      BY <1>0, <2>1, <2>2
  <1>18. ASSUME NEW w \in Workers, NEW p \in Payments, Revoke(w, p) PROVE OrderInv'
    BY <1>18 DEF Revoke, Done, On, NothingSeen
  <1>19. ASSUME NEW w \in Workers, NEW p \in Payments, Upsert(w, p) PROVE OrderInv'
    BY <1>19 DEF Upsert, Goto, On
  <1>20. ASSUME NEW w \in Workers, NEW p \in Payments, ReadMirror(w, p) PROVE OrderInv'
    <2>1. UNCHANGED <<inOrder, mail, made, task>>
      BY <1>20 DEF ReadMirror, Done
    <2>2. \A v \in Workers : pc'[v] # "idle" => pc[v] # "idle"
      BY <1>20 DEF ReadMirror, Done, On
    <2> QED
      BY <1>0, <2>1, <2>2
  <1>21. ASSUME NEW w \in Workers, NEW p \in Payments, ReadDisputed(w, p) PROVE OrderInv'
    <2>1. UNCHANGED <<inOrder, mail, made, task>>
      BY <1>21 DEF ReadDisputed, Done
    <2>2. \A v \in Workers : pc'[v] # "idle" => pc[v] # "idle"
      BY <1>21 DEF ReadDisputed, Done, On
    <2> QED
      BY <1>0, <2>1, <2>2
  <1>22. ASSUME NEW w \in Workers, NEW p \in Payments, ApplyDispute(w, p) PROVE OrderInv'
    <2>1. UNCHANGED <<inOrder, mail, made, task>>
      BY <1>22 DEF ApplyDispute, MoveIf, Goto, Done
    <2>2. \A v \in Workers : pc'[v] # "idle" => pc[v] # "idle"
      BY <1>22 DEF ApplyDispute, MoveIf, Goto, Done, On
    <2> QED
      BY <1>0, <2>1, <2>2
  <1>23. ASSUME NEW w \in Workers, Fail(w) PROVE OrderInv'
    BY <1>23 DEF Fail, Drop, NoTask, NothingSeen
  <1>24. CASE UNCHANGED vars
    BY <1>24 DEF vars
  <1> QED
    BY <1>1, <1>2, <1>3, <1>4, <1>5, <1>6, <1>7, <1>8, <1>9, <1>10, <1>11, <1>12, <1>13, <1>14,
        <1>15, <1>16, <1>17, <1>18, <1>19, <1>20, <1>21, <1>22, <1>23, <1>24
    DEF Next, Handle

(* In Stripe's order a payment has one handler at a time. *)
LEMMA OneAtATime ==
    ASSUME TypeInv, MailInv, TaskInv, OrderInv, inOrder, NEW v \in Workers, NEW w \in Workers,
           pc[v] # "idle", pc[w] # "idle", task[v].pay = task[w].pay
    PROVE  v = w
  <1>1. task[v] \in mail /\ task[w] \in mail
    BY DEF TypeInv, TypeOK
  <1>2. task[v].pos <= task[w].pos /\ task[w].pos <= task[v].pos
    BY <1>1 DEF OrderInv
  <1>3. task[v].pos = task[w].pos
    BY <1>1, <1>2 DEF MailInv, True
  <1> QED
    BY <1>1, <1>3 DEF OrderInv, TaskInv

(* Whether notices come in order is fixed, and faults only add up. *)
LEMMA StepOfOrder == [Next]_vars => inOrder' = inOrder /\ (faults' = faults \/ faults' = faults + 1)
  <1> SUFFICES ASSUME [Next]_vars
               PROVE  inOrder' = inOrder /\ (faults' = faults \/ faults' = faults + 1)
    OBVIOUS
  <1>1. ASSUME NEW p \in Payments,
               CloseCheckout(p) \/ StaffRefund(p) \/ MoveDispute(p) \/ DeleteMessage(p)
               \/ EndPromotion(p) \/ RestartPromotion(p)
        PROVE  inOrder' = inOrder /\ faults' = faults
    BY <1>1 DEF CloseCheckout, StaffRefund, MoveDispute, DeleteMessage,
       EndPromotion, RestartPromotion, stripeVars
  <1>2. ASSUME NEW w \in Workers, Handle(w) PROVE inOrder' = inOrder /\ faults' = faults
    BY <1>2 DEF Handle, Take, Finish, Expire, Begin, SettleFee, Record, RecordRefused, FindTx,
       CreateTx, GiveBack, FullRefund, MarkRefunded, ReadTx, WriteTx, Revoke, Upsert, ReadMirror,
       ReadDisputed, ApplyDispute, Done, stripeVars
  <1>3. ASSUME NEW w \in Workers, Fail(w) PROVE inOrder' = inOrder /\ faults' = faults + 1
    BY <1>3 DEF Fail, stripeVars
  <1>4. CASE UNCHANGED vars
    BY <1>4 DEF vars, stripeVars
  <1> QED
    BY <1>1, <1>2, <1>3, <1>4 DEF Next

(* In turn, what a handler read is still there when it acts on it. *)
LEMMA TurnStep ==
    TypeInv /\ MailInv /\ TaskInv /\ WorkInv /\ DisputeInv /\ OrderInv /\ TurnInv /\ AgreeInv /\
       [Next]_vars => TurnInv'
  <1> SUFFICES ASSUME TypeInv, MailInv, TaskInv, WorkInv, DisputeInv, OrderInv, TurnInv, AgreeInv,
                      [Next]_vars
               PROVE  TurnInv'
    OBVIOUS
  <1>i. SUFFICES ASSUME InTurn' PROVE TurnInv'
    BY DEF TurnInv
  <1>t. InTurn
    <2>1. inOrder' = inOrder /\ (faults' = faults \/ faults' = faults + 1)
      BY StepOfOrder
    <2> QED
      BY <1>i, <2>1 DEF InTurn, TypeInv, TypeOK
  <1>u. \A v, w \in Workers :
           pc[v] # "idle" /\ pc[w] # "idle" /\ task[v].pay = task[w].pay => v = w
    BY <1>t, OneAtATime DEF InTurn
  <1>n. ASSUME UNCHANGED <<mail, mirror, task>>,
               \A v \in Workers : pc'[v] = pc[v] \/ pc'[v] \notin {"idle", "upsert"}
        PROVE  \A n \in mail' : News(n)'
    BY <1>n, <1>t DEF TurnInv, News, StillIn
  <1>a. \A q \in Payments : Agrees(q)
    BY <1>t DEF AgreeInv
  <1> USE <1>i, <1>t, <1>u, PaymentsAssumption DEF stripeVars, dbVars, workVars, TypeInv, TypeOK,
     MailInv, True, TaskInv, WorkInv, AboutCheckout, AboutRefund, AboutDispute, DisputeInv,
     InTurn, TurnInv, InStep, News, StillIn, Rank, Held, Inquiry, Closed, Stale, OrderInv,
     Disputes
  <1>1. ASSUME NEW p \in Payments, CloseCheckout(p) PROVE TurnInv'
    BY <1>1 DEF CloseCheckout, Make
  <1>2. ASSUME NEW p \in Payments, StaffRefund(p) PROVE TurnInv'
    BY <1>2 DEF StaffRefund, Refundable, Make
  <1>3. ASSUME NEW p \in Payments, MoveDispute(p) PROVE TurnInv'
    <2>1. PICK s \in NextOfDispute(disputeAt[p]) :
             /\ disputeAt' = [disputeAt EXCEPT ![p] = s]
             /\ Make(p, "dispute", s)
      BY <1>3 DEF MoveDispute
    <2>2. \A v \in Workers : InStep(v)'
      BY <1>3 DEF MoveDispute
    <2>3. ASSUME NEW n \in mail PROVE News(n)'
      BY <1>3 DEF MoveDispute
    <2>8. PICK new : new = [pay |-> p, what |-> "dispute", val |-> s, pos |-> made]
      OBVIOUS
    <2>4. Rank(disputeAt[p]) < Rank(s)
      BY <2>1 DEF NextOfDispute
    <2>5. Rank(mirror[p]) <= Rank(disputeAt[p])
      BY <1>3, <1>a DEF MoveDispute, Agrees, MirrorAgrees, Awaits
    <2>6. News(new)'
      BY <1>3, <2>8, <2>4, <2>5 DEF MoveDispute
    <2>7. mail' = mail \union {new}
      BY <2>1, <2>8 DEF Make
    <2> HIDE DEF News, InStep
    <2> QED
      BY <2>2, <2>3, <2>6, <2>7
  <1>4. ASSUME NEW p \in Payments,
               DeleteMessage(p) \/ EndPromotion(p) \/ RestartPromotion(p)
        PROVE TurnInv'
    BY <1>4 DEF DeleteMessage, EndPromotion, RestartPromotion
  <1>5. ASSUME NEW w \in Workers, NEW n \in mail, Take(w, n) PROVE TurnInv'
    BY <1>5 DEF Take, NothingSeen
  <1>6. ASSUME NEW w \in Workers, Finish(w) PROVE TurnInv'
    BY <1>6 DEF Finish, Drop, NoTask, NothingSeen
  <1>7. ASSUME NEW w \in Workers, NEW p \in Payments, Expire(w, p) PROVE TurnInv'
    BY <1>7 DEF Expire, Done, On, NothingSeen
  <1>8. ASSUME NEW w \in Workers, NEW p \in Payments, Begin(w, p) PROVE TurnInv'
    BY <1>8 DEF Begin, Goto, On
  <1>9. ASSUME NEW w \in Workers, NEW p \in Payments, SettleFee(w, p) PROVE TurnInv'
    BY <1>9 DEF SettleFee, Goto, On
  <1>10. ASSUME NEW w \in Workers, NEW p \in Payments, Record(w, p) PROVE TurnInv'
    BY <1>10, SMTT(20) DEF Record, Done, Unlocks, On, NothingSeen
  <1>11. ASSUME NEW w \in Workers, NEW p \in Payments, RecordRefused(w, p) PROVE TurnInv'
    BY <1>11 DEF RecordRefused, Drop, On, NothingSeen, NoTask
  <1>12. ASSUME NEW w \in Workers, NEW p \in Payments, FindTx(w, p) PROVE TurnInv'
    BY <1>12 DEF FindTx, Goto, Done, On, NothingSeen
  <1>13. ASSUME NEW w \in Workers, NEW p \in Payments, CreateTx(w, p) PROVE TurnInv'
    BY <1>13 DEF CreateTx, Goto, On
  <1>14. ASSUME NEW w \in Workers, NEW p \in Payments, GiveBack(w, p) PROVE TurnInv'
    BY <1>14 DEF GiveBack, FullRefund, Make, Goto, Done, On, NothingSeen
  <1>15. ASSUME NEW w \in Workers, NEW p \in Payments, MarkRefunded(w, p) PROVE TurnInv'
    BY <1>15 DEF MarkRefunded, Done, On, NothingSeen
  <1>16. ASSUME NEW w \in Workers, NEW p \in Payments, ReadTx(w, p) PROVE TurnInv'
    <2>1. CASE Done(w)
      <3>1. \A v \in Workers : InStep(v)'
        BY <1>16, <2>1 DEF ReadTx, On, Done, NothingSeen
      <3>2. /\ UNCHANGED <<mail, mirror, task>>
            /\ \A v \in Workers : pc'[v] = pc[v] \/ pc'[v] \notin {"idle", "upsert"}
        BY <1>16, <2>1 DEF ReadTx, Done
      <3> QED
        BY <3>1, <3>2, <1>n
    <2>2. CASE /\ seen' = [seen EXCEPT ![w].status = status[p], ![w].refunded = refunded[p]]
               /\ pc' = [pc EXCEPT ![w] = "writeTx"]
               /\ UNCHANGED <<task, stripeVars>>
      <3>1. \A v \in Workers : InStep(v)'
        <4> SUFFICES ASSUME NEW v \in Workers PROVE InStep(v)'
          OBVIOUS
        <4>1. CASE v = w
          BY <1>16, <2>2, <4>1 DEF ReadTx, On
        <4>2. CASE v # w
          BY <1>16, <2>2, <4>2 DEF ReadTx, On
        <4> QED
          BY <4>1, <4>2
      <3>2. /\ UNCHANGED <<mail, mirror, task>>
            /\ \A v \in Workers : pc'[v] = pc[v] \/ pc'[v] \notin {"idle", "upsert"}
        BY <1>16, <2>2 DEF ReadTx
      <3> QED
        BY <3>1, <3>2, <1>n
    <2> QED
      BY <1>16, <2>1, <2>2 DEF ReadTx
  <1>17. ASSUME NEW w \in Workers, NEW p \in Payments, WriteTx(w, p) PROVE TurnInv'
    BY <1>17, SMTT(20) DEF WriteTx, BecomesRefunded, NewTotal, Goto, Done, On, NothingSeen
  <1>18. ASSUME NEW w \in Workers, NEW p \in Payments, Revoke(w, p) PROVE TurnInv'
    BY <1>18 DEF Revoke, Done, On, NothingSeen
  <1>19. ASSUME NEW w \in Workers, NEW p \in Payments, Upsert(w, p) PROVE TurnInv'
    <2>1. /\ UNCHANGED <<mail, status, task, seen>> /\ task[w] \in mail /\ task[w].what = "dispute"
          /\ pc' = [pc EXCEPT ![w] = "readMirror"]
      BY <1>19 DEF Upsert, Goto, On
    <2>2. News(task[w]) /\ StillIn(task[w], {"upsert"})
      BY <1>19, <2>1 DEF Upsert, On
    <2>3. ~Stale(w)
      BY <1>19, <2>1, <2>2 DEF Upsert, On
    <2>4. mirror' = [mirror EXCEPT ![p] = task[w].val]
      BY <1>19, <2>3 DEF Upsert
    <2>5. ASSUME NEW v \in Workers PROVE InStep(v)'
      <3>1. CASE v = w
        BY <1>19, <2>1, <2>4, <3>1 DEF Upsert, On
      <3>2. CASE v # w /\ pc[v] # "idle"
        <4>1. task[v].pay # p
          BY <1>19, <3>2 DEF Upsert, On
        <4> QED
          BY <2>1, <2>4, <3>2, <4>1
      <3>3. CASE pc[v] = "idle"
        BY <1>19, <2>1, <3>3 DEF Upsert, On
      <3> QED
        BY <3>1, <3>2, <3>3
    <2>6. ASSUME NEW n \in mail PROVE News(n)'
      <3>1. CASE n.pay # p
        BY <2>1, <2>4, <3>1
      <3>2. CASE n = task[w]
        BY <2>1, <3>2
      <3>3. CASE n.pay = p /\ n # task[w]
        <4>1. task[w].pay = p /\ task[w].pos <= n.pos /\ task[w].pos # n.pos
          BY <1>19, <2>1, <3>3 DEF Upsert, On
        <4>2. task[w].pos \in Nat /\ n.pos \in Nat
          BY <2>1
        <4>3. task[w].pos < n.pos
          BY <4>1, <4>2
        <4> QED
          BY <2>1, <2>4, <3>3, <4>1, <4>3
      <3> QED
        BY <3>1, <3>2, <3>3
    <2> QED
      BY <2>1, <2>5, <2>6
  <1>20. ASSUME NEW w \in Workers, NEW p \in Payments, ReadMirror(w, p) PROVE TurnInv'
    <2>1. CASE Done(w)
      <3>1. \A v \in Workers : InStep(v)'
        BY <1>20, <2>1 DEF ReadMirror, On, Done, NothingSeen
      <3>2. /\ UNCHANGED <<mail, mirror, task>>
            /\ \A v \in Workers : pc'[v] = pc[v] \/ pc'[v] \notin {"idle", "upsert"}
        BY <1>20, <2>1 DEF ReadMirror, Done
      <3> QED
        BY <3>1, <3>2, <1>n
    <2>2. CASE /\ seen' = [seen EXCEPT ![w].dispute = mirror[p]]
               /\ pc' = [pc EXCEPT ![w] = "readDisputed"]
               /\ UNCHANGED <<task, stripeVars>>
      <3>1. \A v \in Workers : InStep(v)'
        <4> SUFFICES ASSUME NEW v \in Workers PROVE InStep(v)'
          OBVIOUS
        <4>1. CASE v = w
          BY <1>20, <2>2, <4>1 DEF ReadMirror, On
        <4>2. CASE v # w
          BY <1>20, <2>2, <4>2 DEF ReadMirror, On
        <4> QED
          BY <4>1, <4>2
      <3>2. /\ UNCHANGED <<mail, mirror, task>>
            /\ \A v \in Workers : pc'[v] = pc[v] \/ pc'[v] \notin {"idle", "upsert"}
        BY <1>20, <2>2 DEF ReadMirror
      <3> QED
        BY <3>1, <3>2, <1>n
    <2> QED
      BY <1>20, <2>1, <2>2 DEF ReadMirror
  <1>21. ASSUME NEW w \in Workers, NEW p \in Payments, ReadDisputed(w, p) PROVE TurnInv'
    <2>1. CASE Done(w)
      <3>1. \A v \in Workers : InStep(v)'
        BY <1>21, <2>1 DEF ReadDisputed, On, Done, NothingSeen
      <3>2. /\ UNCHANGED <<mail, mirror, task>>
            /\ \A v \in Workers : pc'[v] = pc[v] \/ pc'[v] \notin {"idle", "upsert"}
        BY <1>21, <2>1 DEF ReadDisputed, Done
      <3> QED
        BY <3>1, <3>2, <1>n
    <2>2. CASE /\ seen' = [seen EXCEPT ![w].status = status[p]]
               /\ pc' = [pc EXCEPT ![w] = "applyDispute"]
               /\ UNCHANGED <<task, stripeVars>>
      <3>1. \A v \in Workers : InStep(v)'
        <4> SUFFICES ASSUME NEW v \in Workers PROVE InStep(v)'
          OBVIOUS
        <4>1. CASE v = w
          BY <1>21, <2>2, <4>1 DEF ReadDisputed, On
        <4>2. CASE v # w
          BY <1>21, <2>2, <4>2 DEF ReadDisputed, On
        <4> QED
          BY <4>1, <4>2
      <3>2. /\ UNCHANGED <<mail, mirror, task>>
            /\ \A v \in Workers : pc'[v] = pc[v] \/ pc'[v] \notin {"idle", "upsert"}
        BY <1>21, <2>2 DEF ReadDisputed
      <3> QED
        BY <3>1, <3>2, <1>n
    <2> QED
      BY <1>21, <2>1, <2>2 DEF ReadDisputed
  <1>22. ASSUME NEW w \in Workers, NEW p \in Payments, ApplyDispute(w, p) PROVE TurnInv'
    BY <1>22, SMTT(20) DEF ApplyDispute, MoveIf, Goto, Done, On, NothingSeen
  <1>23. ASSUME NEW w \in Workers, Fail(w) PROVE TurnInv'
    BY <1>23 DEF Fail, Drop, NoTask, NothingSeen
  <1>24. CASE UNCHANGED vars
    BY <1>24 DEF vars
  <1> QED
    BY <1>1, <1>2, <1>3, <1>4, <1>5, <1>6, <1>7, <1>8, <1>9, <1>10, <1>11, <1>12, <1>13, <1>14,
        <1>15, <1>16, <1>17, <1>18, <1>19, <1>20, <1>21, <1>22, <1>23, <1>24
    DEF Next, Handle

(* In turn, a step leaves the records in agreement but for what the notices bring. *)
LEMMA AgreeStep ==
    TypeInv /\ MailInv /\ TaskInv /\ WorkInv /\ SafeInv /\ DisputeInv /\ OrderInv /\ TurnInv /\
       AgreeInv /\ [Next]_vars => AgreeInv'
  <1> SUFFICES ASSUME TypeInv, MailInv, TaskInv, WorkInv, SafeInv, DisputeInv, OrderInv, TurnInv,
                      AgreeInv, [Next]_vars
               PROVE  AgreeInv'
    OBVIOUS
  <1>i. SUFFICES ASSUME InTurn' PROVE AgreeInv'
    BY DEF AgreeInv
  <1>t. InTurn
    <2>1. inOrder' = inOrder /\ (faults' = faults \/ faults' = faults + 1)
      BY StepOfOrder
    <2> QED
      BY <1>i, <2>1 DEF InTurn, TypeInv, TypeOK
  <1>u. \A v, w \in Workers :
           pc[v] # "idle" /\ pc[w] # "idle" /\ task[v].pay = task[w].pay => v = w
    BY <1>t, OneAtATime DEF InTurn
  <1>a. \A q \in Payments : Agrees(q)
    BY <1>t DEF AgreeInv
  <1>q. SUFFICES ASSUME NEW q \in Payments PROVE Agrees(q)'
    BY DEF AgreeInv
  <1>b. /\ PaidAgrees(q) /\ MirrorAgrees(q) /\ RefundAgrees(q)
        /\ DisputeAgrees(q) /\ UnlockAgrees(q)
    BY <1>a DEF Agrees
  <1>w. /\ \A w \in Workers : InStep(w)
        /\ \A n \in mail : News(n)
    BY <1>t DEF TurnInv
  <1>s. RefundedIsReal /\ UnlockIsPaid
    BY DEF SafeInv
  <1>f. ASSUME NEW n, n \notin mail, UNCHANGED <<pc, task>>, NEW steps PROVE StillIn(n, steps)'
    BY <1>f DEF StillIn, TypeInv, TypeOK
  <1>g. ASSUME NEW n, n.pos = made PROVE n \notin mail
    BY <1>g, <1>t DEF InTurn, OrderInv, TypeInv, TypeOK, MailInv, True
  <1>k. ASSUME NEW n, NEW steps, NEW w \in Workers, n # task[w], UNCHANGED task,
               \A v \in Workers \ {w} : pc'[v] = pc[v], StillIn(n, steps)
        PROVE  StillIn(n, steps)'
    BY <1>k DEF StillIn
  <1>p. ASSUME NEW w \in Workers, pc[w] # "idle", task[w].what # "checkout"
        PROVE  status[task[w].pay] # "none"
    <2>1. task[w] \in mail /\ task[w].pay \in Payments
      BY <1>p DEF TypeInv, TypeOK, MailInv, True
    <2>2. PaidAgrees(task[w].pay) /\ checkout[task[w].pay] = "paid"
      BY <1>a, <1>p, <2>1 DEF Agrees, DisputeInv
    <2>3. ASSUME NEW n \in mail, n.pay = task[w].pay, n.what = "checkout" PROVE FALSE
      <3>1. n.pos <= task[w].pos /\ task[w].pos <= n.pos
        BY <1>p, <1>t, <2>1, <2>3 DEF OrderInv, InTurn
      <3>2. n.pos \in Nat /\ task[w].pos \in Nat
        BY <2>1 DEF MailInv, True
      <3>3. n.pos = task[w].pos
        BY <3>1, <3>2
      <3> QED
        BY <1>p, <1>t, <2>1, <2>3, <3>3 DEF OrderInv, InTurn
    <2> QED
      BY <2>2, <2>3 DEF PaidAgrees, Awaits
  <1> USE <1>i, <1>t, <1>u, <1>b, <1>w, <1>s, PaymentsAssumption DEF stripeVars, dbVars, workVars,
     TypeInv, TypeOK, MailInv, True, TaskInv, WorkInv, AboutCheckout, AboutRefund, AboutDispute,
     DisputeInv, InTurn, InStep, StillIn, Rank, Held, Inquiry, Closed, Stale, OrderInv, Disputes,
     Awaits, Applying, UnlockIsPaid
  <1>1. ASSUME NEW p \in Payments, CloseCheckout(p) PROVE Agrees(q)'
    <2>1. PaidAgrees(q)'
      <3>1. PICK how \in {"paid", "expired"} :
               /\ checkout' = [checkout EXCEPT ![p] = how]
               /\ Make(p, "checkout", how)
        BY <1>1 DEF CloseCheckout
      <3>2. PICK new : new = [pay |-> p, what |-> "checkout", val |-> how, pos |-> made]
        OBVIOUS
      <3>3. new \in mail' /\ new \notin mail
        BY <3>1, <3>2 DEF Make
      <3>4. StillIn(new, AboutCheckout)'
        BY <1>1, <1>f, <3>3 DEF CloseCheckout
      <3>5. UNCHANGED <<status, pc, task>> /\ mail \subseteq mail'
        BY <1>1, <3>1 DEF CloseCheckout, Make
      <3>6. CASE p = q
        BY <1>1, <3>1, <3>2, <3>3, <3>4, <3>5, <3>6 DEF PaidAgrees, CloseCheckout
      <3>7. CASE p # q
        BY <3>1, <3>5, <3>7 DEF PaidAgrees
      <3> QED
        BY <3>6, <3>7
    <2>2. MirrorAgrees(q)'
      BY <1>1 DEF CloseCheckout, Make, MirrorAgrees
    <2>3. RefundAgrees(q)'
      BY <1>1 DEF CloseCheckout, Make, RefundAgrees
    <2>4. DisputeAgrees(q)'
      BY <1>1 DEF CloseCheckout, Make, DisputeAgrees
    <2>5. UnlockAgrees(q)'
      BY <1>1 DEF CloseCheckout, Make, UnlockAgrees
    <2> QED
      BY <2>1, <2>2, <2>3, <2>4, <2>5 DEF Agrees
  <1>2. ASSUME NEW p \in Payments, StaffRefund(p) PROVE Agrees(q)'
    <2>1. PaidAgrees(q)'
      BY <1>2 DEF StaffRefund, Refundable, Make, PaidAgrees
    <2>2. MirrorAgrees(q)'
      BY <1>2 DEF StaffRefund, Refundable, Make, MirrorAgrees
    <2>3. RefundAgrees(q)'
      <3>1. PICK total \in refundedAt[p] + 1 .. Amount :
               /\ refundedAt' = [refundedAt EXCEPT ![p] = total]
               /\ Make(p, "refunded", total)
        BY <1>2 DEF StaffRefund
      <3>2. PICK new : new = [pay |-> p, what |-> "refunded", val |-> total, pos |-> made]
        OBVIOUS
      <3>3. new \in mail' /\ new \notin mail
        BY <1>g, <3>1, <3>2 DEF Make
      <3>4. StillIn(new, {"readTx", "writeTx"})'
        BY <1>2, <1>f, <3>3 DEF StaffRefund
      <3>5. UNCHANGED <<status, pc, task>> /\ mail \subseteq mail'
        BY <1>2, <3>1 DEF StaffRefund, Make
      <3>6. CASE p = q
        BY <3>1, <3>2, <3>3, <3>4, <3>5, <3>6 DEF RefundAgrees
      <3>7. CASE p # q
        BY <3>1, <3>5, <3>7 DEF RefundAgrees
      <3> QED
        BY <3>6, <3>7
    <2>4. DisputeAgrees(q)'
      BY <1>2 DEF StaffRefund, Refundable, Make, DisputeAgrees
    <2>5. UnlockAgrees(q)'
      BY <1>2 DEF StaffRefund, Refundable, Make, UnlockAgrees
    <2> QED
      BY <2>1, <2>2, <2>3, <2>4, <2>5 DEF Agrees
  <1>3. ASSUME NEW p \in Payments, MoveDispute(p) PROVE Agrees(q)'
    <2>1. PaidAgrees(q)'
      BY <1>3 DEF MoveDispute, NextOfDispute, Make, PaidAgrees
    <2>2. MirrorAgrees(q)'
      <3>1. PICK s \in NextOfDispute(disputeAt[p]) :
               /\ disputeAt' = [disputeAt EXCEPT ![p] = s]
               /\ Make(p, "dispute", s)
        BY <1>3 DEF MoveDispute
      <3>2. PICK new : new = [pay |-> p, what |-> "dispute", val |-> s, pos |-> made]
        OBVIOUS
      <3>3. new \in mail' /\ new \notin mail
        BY <1>g, <3>1, <3>2 DEF Make
      <3>4. StillIn(new, {"upsert"})' /\ StillIn(new, Applying)'
        BY <1>3, <1>f, <3>3 DEF MoveDispute
      <3>5. UNCHANGED <<status, mirror, pc, task>> /\ mail \subseteq mail'
        BY <1>3, <3>1 DEF MoveDispute, Make
      <3>6. CASE p = q
        BY <3>1, <3>2, <3>3, <3>4, <3>5, <3>6 DEF MirrorAgrees
      <3>7. CASE p # q
        BY <3>1, <3>5, <3>7 DEF MirrorAgrees
      <3> QED
        BY <3>6, <3>7
    <2>3. RefundAgrees(q)'
      BY <1>3 DEF MoveDispute, NextOfDispute, Make, RefundAgrees
    <2>4. DisputeAgrees(q)'
      <3>1. PICK s \in NextOfDispute(disputeAt[p]) :
               /\ disputeAt' = [disputeAt EXCEPT ![p] = s]
               /\ Make(p, "dispute", s)
        BY <1>3 DEF MoveDispute
      <3>2. PICK new : new = [pay |-> p, what |-> "dispute", val |-> s, pos |-> made]
        OBVIOUS
      <3>3. new \in mail' /\ new \notin mail
        BY <1>g, <3>1, <3>2 DEF Make
      <3>4. StillIn(new, {"upsert"})' /\ StillIn(new, Applying)'
        BY <1>3, <1>f, <3>3 DEF MoveDispute
      <3>5. UNCHANGED <<status, mirror, pc, task>> /\ mail \subseteq mail'
        BY <1>3, <3>1 DEF MoveDispute, Make
      <3>6. CASE p = q
        <4>1. Awaits(q, "dispute", s, Applying)' /\ disputeAt'[q] = s /\ status'[q] = status[q]
          BY <3>1, <3>2, <3>3, <3>4, <3>5, <3>6
        <4>2. status[q] = "DISPUTED" => s \in {"won", "lost"}
          BY <3>1, <3>6 DEF DisputeAgrees, NextOfDispute
        <4> QED
          BY <4>1, <4>2 DEF DisputeAgrees
      <3>7. CASE p # q
        BY <3>1, <3>5, <3>7 DEF DisputeAgrees
      <3> QED
        BY <3>6, <3>7
    <2>5. UnlockAgrees(q)'
      BY <1>3 DEF MoveDispute, NextOfDispute, Make, UnlockAgrees
    <2> QED
      BY <2>1, <2>2, <2>3, <2>4, <2>5 DEF Agrees
  <1>4. ASSUME NEW p \in Payments,
               DeleteMessage(p) \/ EndPromotion(p) \/ RestartPromotion(p)
        PROVE Agrees(q)'
    <2>1. UNCHANGED <<stripeVars, status, refunded, unlocked, mirror, workVars>>
      BY <1>4 DEF DeleteMessage, EndPromotion, RestartPromotion
    <2>2. PaidAgrees(q)'
      BY <2>1 DEF PaidAgrees
    <2>3. MirrorAgrees(q)'
      BY <2>1 DEF MirrorAgrees
    <2>4. RefundAgrees(q)'
      BY <2>1 DEF RefundAgrees
    <2>5. DisputeAgrees(q)'
      BY <2>1 DEF DisputeAgrees
    <2>6. UnlockAgrees(q)'
      BY <2>1 DEF UnlockAgrees
    <2> QED
      BY <2>2, <2>3, <2>4, <2>5, <2>6 DEF Agrees
  <1>5. ASSUME NEW w \in Workers, NEW n \in mail, Take(w, n) PROVE Agrees(q)'
    <2>1. PaidAgrees(q)'
      BY <1>5 DEF Take, NothingSeen, PaidAgrees
    <2>2. MirrorAgrees(q)'
      BY <1>5 DEF Take, NothingSeen, MirrorAgrees
    <2>3. RefundAgrees(q)'
      BY <1>5 DEF Take, NothingSeen, RefundAgrees
    <2>4. DisputeAgrees(q)'
      BY <1>5 DEF Take, NothingSeen, DisputeAgrees
    <2>5. UnlockAgrees(q)'
      BY <1>5 DEF Take, NothingSeen, UnlockAgrees
    <2> QED
      BY <2>1, <2>2, <2>3, <2>4, <2>5 DEF Agrees
  <1>6. ASSUME NEW w \in Workers, Finish(w) PROVE Agrees(q)'
    <2>1. PaidAgrees(q)'
      BY <1>6 DEF Finish, Drop, NoTask, NothingSeen, PaidAgrees
    <2>2. MirrorAgrees(q)'
      BY <1>6 DEF Finish, Drop, NoTask, NothingSeen, MirrorAgrees
    <2>3. RefundAgrees(q)'
      BY <1>6 DEF Finish, Drop, NoTask, NothingSeen, RefundAgrees
    <2>4. DisputeAgrees(q)'
      BY <1>6 DEF Finish, Drop, NoTask, NothingSeen, DisputeAgrees
    <2>5. UnlockAgrees(q)'
      <3>1. \A v \in Workers : pc[v] = "revoke" => pc'[v] = "revoke" /\ task'[v] = task[v]
        BY <1>6 DEF Finish, Drop
      <3> QED
        BY <1>6, <3>1 DEF Finish, UnlockAgrees
    <2> QED
      BY <2>1, <2>2, <2>3, <2>4, <2>5 DEF Agrees
  <1>7. ASSUME NEW w \in Workers, NEW p \in Payments, Expire(w, p) PROVE Agrees(q)'
    BY <1>7, SMTT(20) DEF Expire, Done, On, NothingSeen, Agrees, PaidAgrees, MirrorAgrees,
       RefundAgrees, DisputeAgrees, UnlockAgrees
  <1>8. ASSUME NEW w \in Workers, NEW p \in Payments, Begin(w, p) PROVE Agrees(q)'
    BY <1>8 DEF Begin, Goto, On, Agrees, PaidAgrees, MirrorAgrees, RefundAgrees, DisputeAgrees,
       UnlockAgrees
  <1>9. ASSUME NEW w \in Workers, NEW p \in Payments, SettleFee(w, p) PROVE Agrees(q)'
    BY <1>9 DEF SettleFee, Goto, On, Agrees, PaidAgrees, MirrorAgrees, RefundAgrees, DisputeAgrees,
       UnlockAgrees
  <1>10. ASSUME NEW w \in Workers, NEW p \in Payments, Record(w, p) PROVE Agrees(q)'
    <2>1. PaidAgrees(q)'
      BY <1>10, SMTT(20) DEF Record, Done, Unlocks, On, NothingSeen, NoTask, PaidAgrees
    <2>2. MirrorAgrees(q)'
      BY <1>10 DEF Record, Done, Unlocks, On, NothingSeen, NoTask, MirrorAgrees
    <2>3. RefundAgrees(q)'
      BY <1>10 DEF Record, Done, Unlocks, On, NothingSeen, NoTask, RefundAgrees
    <2>4. DisputeAgrees(q)'
      BY <1>10 DEF Record, Done, Unlocks, On, NothingSeen, NoTask, DisputeAgrees
    <2>5. UnlockAgrees(q)'
      <3>1. /\ status' = [status EXCEPT ![p] = "COMPLETED"] /\ unlocked' \subseteq unlocked \union {p}
            /\ pc[w] = "record" /\ UNCHANGED task /\ \A v \in Workers \ {w} : pc'[v] = pc[v]
        BY <1>10 DEF Record, Done, On
      <3> QED
        BY <3>1 DEF UnlockAgrees
    <2> QED
      BY <2>1, <2>2, <2>3, <2>4, <2>5 DEF Agrees
  <1>11. ASSUME NEW w \in Workers, NEW p \in Payments, RecordRefused(w, p) PROVE Agrees(q)'
    <2>1. PaidAgrees(q)'
      BY <1>11 DEF RecordRefused, Drop, On, NothingSeen, NoTask, PaidAgrees
    <2>2. MirrorAgrees(q)'
      BY <1>11 DEF RecordRefused, Drop, On, NothingSeen, NoTask, MirrorAgrees
    <2>3. RefundAgrees(q)'
      BY <1>11 DEF RecordRefused, Drop, On, NothingSeen, NoTask, RefundAgrees
    <2>4. DisputeAgrees(q)'
      BY <1>11 DEF RecordRefused, Drop, On, NothingSeen, NoTask, DisputeAgrees
    <2>5. UnlockAgrees(q)'
      <3>1. \A v \in Workers : pc[v] = "revoke" => pc'[v] = "revoke" /\ task'[v] = task[v]
        BY <1>11 DEF RecordRefused, Drop, On
      <3> QED
        BY <1>11, <3>1 DEF RecordRefused, UnlockAgrees
    <2> QED
      BY <2>1, <2>2, <2>3, <2>4, <2>5 DEF Agrees
  <1>12. ASSUME NEW w \in Workers, NEW p \in Payments, FindTx(w, p) PROVE Agrees(q)'
    BY <1>12, SMTT(20) DEF FindTx, Goto, Done, On, NothingSeen, Agrees, PaidAgrees, MirrorAgrees,
       RefundAgrees, DisputeAgrees, UnlockAgrees
  <1>13. ASSUME NEW w \in Workers, NEW p \in Payments, CreateTx(w, p) PROVE Agrees(q)'
    BY <1>13, SMTT(20) DEF CreateTx, Goto, On, Agrees, PaidAgrees, MirrorAgrees, RefundAgrees,
       DisputeAgrees, UnlockAgrees
  <1>14. ASSUME NEW w \in Workers, NEW p \in Payments, GiveBack(w, p) PROVE Agrees(q)'
    <2>1. PaidAgrees(q)'
      BY <1>14, SMTT(20) DEF GiveBack, FullRefund, Make, Goto, Done, On, NothingSeen, NoTask,
         PaidAgrees
    <2>2. MirrorAgrees(q)'
      BY <1>14, SMTT(20) DEF GiveBack, FullRefund, Make, Goto, Done, On, NothingSeen, NoTask,
         MirrorAgrees
    <2>3. RefundAgrees(q)'
      <3>1. \A n \in mail : n.what = "refunded" => n # task[w]
        BY <1>14 DEF GiveBack, On
      <3>2. CASE FullRefund(p) /\ Goto(w, "markRefunded")
        <4>1. PICK new : new = [pay |-> p, what |-> "refunded", val |-> Amount, pos |-> made]
          OBVIOUS
        <4>2. new \in mail' /\ new \notin mail /\ mail \subseteq mail'
          BY <1>g, <3>2, <4>1 DEF FullRefund, Make
        <4>6. \A v \in Workers : pc'[v] # "idle" => task'[v] \in mail
          BY <1>14, <3>2 DEF GiveBack, Goto, On
        <4>3. StillIn(new, {"readTx", "writeTx"})'
          BY <4>2, <4>6
        <4>4. CASE p = q
          BY <4>1, <4>2, <4>3, <4>4 DEF RefundAgrees
        <4>5. CASE p # q
          BY <1>14, <3>1, <3>2, <4>2, <4>5, <1>k DEF RefundAgrees, GiveBack, FullRefund, Goto, On
        <4> QED
          BY <4>4, <4>5
      <3>3. CASE Goto(w, "markRefunded") /\ UNCHANGED stripeVars
        BY <1>14, <3>1, <3>3 DEF RefundAgrees, GiveBack, Goto, On
      <3>4. CASE Done(w)
        BY <1>14, <3>1, <3>4 DEF RefundAgrees, GiveBack, Done, On
      <3> QED
        BY <1>14, <3>2, <3>3, <3>4 DEF GiveBack
    <2>4. DisputeAgrees(q)'
      BY <1>14, SMTT(20) DEF GiveBack, FullRefund, Make, Goto, Done, On, NothingSeen, NoTask,
         DisputeAgrees
    <2>5. UnlockAgrees(q)'
      BY <1>14 DEF GiveBack, FullRefund, Make, Goto, Done, On, NothingSeen, NoTask, UnlockAgrees
    <2> QED
      BY <2>1, <2>2, <2>3, <2>4, <2>5 DEF Agrees
  <1>15. ASSUME NEW w \in Workers, NEW p \in Payments, MarkRefunded(w, p) PROVE Agrees(q)'
    BY <1>15, SMTT(20) DEF MarkRefunded, Done, On, NothingSeen, Agrees, PaidAgrees, MirrorAgrees,
       RefundAgrees, DisputeAgrees, UnlockAgrees
  <1>16. ASSUME NEW w \in Workers, NEW p \in Payments, ReadTx(w, p) PROVE Agrees(q)'
    <2>1. PaidAgrees(q)'
      BY <1>16, SMTT(20) DEF ReadTx, Done, On, NothingSeen, NoTask, PaidAgrees
    <2>2. MirrorAgrees(q)'
      BY <1>16, SMTT(20) DEF ReadTx, Done, On, NothingSeen, NoTask, MirrorAgrees
    <2>3. RefundAgrees(q)'
      <3>1. /\ UNCHANGED <<mail, refundedAt, status, task>>
            /\ pc' = [pc EXCEPT ![w] = "writeTx"]
        BY <1>16, <1>p DEF ReadTx, On, Done
      <3> QED
        BY <1>16, <3>1 DEF RefundAgrees, ReadTx, On
    <2>4. DisputeAgrees(q)'
      BY <1>16, SMTT(20) DEF ReadTx, Done, On, NothingSeen, NoTask, DisputeAgrees
    <2>5. UnlockAgrees(q)'
      BY <1>16 DEF ReadTx, Done, On, NothingSeen, NoTask, UnlockAgrees
    <2> QED
      BY <2>1, <2>2, <2>3, <2>4, <2>5 DEF Agrees
  <1>17. ASSUME NEW w \in Workers, NEW p \in Payments, WriteTx(w, p) PROVE Agrees(q)'
    <2>1. PaidAgrees(q)'
      BY <1>17 DEF WriteTx, BecomesRefunded, NewTotal, Goto, Done, On, NothingSeen, NoTask,
         PaidAgrees
    <2>2. MirrorAgrees(q)'
      BY <1>17 DEF WriteTx, BecomesRefunded, NewTotal, Goto, Done, On, NothingSeen, NoTask,
         MirrorAgrees
    <2>3. RefundAgrees(q)'
      BY <1>17, SMTT(20) DEF WriteTx, BecomesRefunded, NewTotal, Goto, Done, On, NothingSeen,
         NoTask, RefundAgrees
    <2>4. DisputeAgrees(q)'
      <3>1. \A n \in mail : n.what = "dispute" => n # task[w]
        BY <1>17 DEF WriteTx, On
      <3>2. /\ UNCHANGED <<mail, disputeAt, task>>
            /\ \A v \in Workers \ {w} : pc'[v] = pc[v]
        BY <1>17 DEF WriteTx, Goto, Done
      <3>3. \A n \in mail : n.what = "dispute" /\ StillIn(n, Applying) => StillIn(n, Applying)'
        BY <3>1, <3>2
      <3>4. status'[q] \in {status[q], "REFUNDED"}
        BY <1>17 DEF WriteTx
      <3> HIDE DEF StillIn
      <3> QED
        BY <3>2, <3>3, <3>4 DEF DisputeAgrees
    <2>5. UnlockAgrees(q)'
      BY <1>17 DEF WriteTx, BecomesRefunded, NewTotal, Goto, Done, On, NothingSeen, NoTask,
         UnlockAgrees
    <2> QED
      BY <2>1, <2>2, <2>3, <2>4, <2>5 DEF Agrees
  <1>18. ASSUME NEW w \in Workers, NEW p \in Payments, Revoke(w, p) PROVE Agrees(q)'
    BY <1>18, SMTT(20) DEF Revoke, Done, On, NothingSeen, Agrees, PaidAgrees, MirrorAgrees,
       RefundAgrees, DisputeAgrees, UnlockAgrees
  <1>19. ASSUME NEW w \in Workers, NEW p \in Payments, Upsert(w, p) PROVE Agrees(q)'
    <2>1. PaidAgrees(q)'
      BY <1>19 DEF Upsert, Goto, On, NothingSeen, NoTask, PaidAgrees
    <2>2. MirrorAgrees(q)'
      <3>1. /\ UNCHANGED <<mail, disputeAt, task>> /\ task[w] \in mail /\ task[w].what = "dispute"
            /\ task[w].pay = p /\ pc' = [pc EXCEPT ![w] = "readMirror"]
        BY <1>19 DEF Upsert, Goto, On
      <3>2. Rank(mirror[p]) < Rank(task[w].val)
        BY <1>19, <3>1 DEF Upsert, On, News
      <3>3. mirror' = [mirror EXCEPT ![p] = task[w].val]
        BY <1>19, <3>1, <3>2 DEF Upsert, On
      <3>4. \A n \in mail : n # task[w] /\ StillIn(n, {"upsert"}) => StillIn(n, {"upsert"})'
        BY <3>1
      <3>5. CASE p = q /\ task[w].val # disputeAt[q]
        <4>1. mirror[q] # disputeAt[q]
          BY <3>1, <3>2, <3>5
        <4>2. PICK n \in mail : n.pay = q /\ n.what = "dispute" /\ n.val = disputeAt[q]
                                /\ StillIn(n, {"upsert"})
          BY <4>1 DEF MirrorAgrees
        <4> QED
          BY <3>1, <3>4, <3>5, <4>2 DEF MirrorAgrees
      <3>6. CASE p = q /\ task[w].val = disputeAt[q]
        BY <3>1, <3>3, <3>6 DEF MirrorAgrees
      <3>7. CASE p # q
        BY <3>1, <3>3, <3>4, <3>7 DEF MirrorAgrees
      <3> QED
        BY <3>5, <3>6, <3>7
    <2>3. RefundAgrees(q)'
      BY <1>19 DEF Upsert, Goto, On, NothingSeen, NoTask, RefundAgrees
    <2>4. DisputeAgrees(q)'
      BY <1>19 DEF Upsert, Goto, On, NothingSeen, NoTask, DisputeAgrees
    <2>5. UnlockAgrees(q)'
      BY <1>19 DEF Upsert, Goto, On, NothingSeen, NoTask, UnlockAgrees
    <2> QED
      BY <2>1, <2>2, <2>3, <2>4, <2>5 DEF Agrees
  <1>20. ASSUME NEW w \in Workers, NEW p \in Payments, ReadMirror(w, p) PROVE Agrees(q)'
    <2>1. PaidAgrees(q)'
      BY <1>20 DEF ReadMirror, Done, On, NothingSeen, NoTask, PaidAgrees
    <2>2. MirrorAgrees(q)'
      BY <1>20 DEF ReadMirror, Done, On, NothingSeen, NoTask, MirrorAgrees
    <2>3. RefundAgrees(q)'
      BY <1>20 DEF ReadMirror, Done, On, NothingSeen, NoTask, RefundAgrees
    <2>4. DisputeAgrees(q)'
      <3>1. UNCHANGED <<mail, disputeAt, status, task>> /\ \A v \in Workers \ {w} : pc'[v] = pc[v]
        BY <1>20 DEF ReadMirror, Done
      <3>2. mirror[p] = task[w].val /\ pc[w] = "readMirror" /\ task[w] \in mail
        BY <1>20 DEF ReadMirror, On
      <3>3. pc'[w] \in Applying \/ task[w].val \in Inquiry
        BY <1>20, <3>2 DEF ReadMirror, Done
      <3>4. \A n \in mail : n.val \in {"won", "lost"} \union Held /\ StillIn(n, Applying)
               => StillIn(n, Applying)'
        BY <3>1, <3>3
      <3> HIDE DEF StillIn
      <3> QED
        BY <3>1, <3>3, <3>4 DEF DisputeAgrees
    <2>5. UnlockAgrees(q)'
      BY <1>20 DEF ReadMirror, Done, On, NothingSeen, NoTask, UnlockAgrees
    <2> QED
      BY <2>1, <2>2, <2>3, <2>4, <2>5 DEF Agrees
  <1>21. ASSUME NEW w \in Workers, NEW p \in Payments, ReadDisputed(w, p) PROVE Agrees(q)'
    <2>1. PaidAgrees(q)'
      BY <1>21 DEF ReadDisputed, Done, On, NothingSeen, NoTask, PaidAgrees
    <2>2. MirrorAgrees(q)'
      BY <1>21, SMTT(20) DEF ReadDisputed, Done, On, NothingSeen, NoTask, MirrorAgrees
    <2>3. RefundAgrees(q)'
      BY <1>21 DEF ReadDisputed, Done, On, NothingSeen, NoTask, RefundAgrees
    <2>4. DisputeAgrees(q)'
      <3>1. UNCHANGED <<mail, disputeAt, status, task>> /\ pc' = [pc EXCEPT ![w] = "applyDispute"]
        BY <1>21, <1>p DEF ReadDisputed, Done, On
      <3>3. pc[w] = "readDisputed"
        BY <1>21 DEF ReadDisputed, On
      <3>4. \A n \in mail : StillIn(n, Applying) => StillIn(n, Applying)'
        BY <3>1, <3>3
      <3> HIDE DEF StillIn
      <3> QED
        BY <3>1, <3>3, <3>4 DEF DisputeAgrees
    <2>5. UnlockAgrees(q)'
      BY <1>21 DEF ReadDisputed, Done, On, NothingSeen, NoTask, UnlockAgrees
    <2> QED
      BY <2>1, <2>2, <2>3, <2>4, <2>5 DEF Agrees
  <1>22. ASSUME NEW w \in Workers, NEW p \in Payments, ApplyDispute(w, p) PROVE Agrees(q)'
    <2>1. PaidAgrees(q)'
      BY <1>22 DEF ApplyDispute, MoveIf, Goto, Done, On, NothingSeen, NoTask, PaidAgrees
    <2>2. MirrorAgrees(q)'
      BY <1>22 DEF ApplyDispute, MoveIf, Goto, Done, On, NothingSeen, NoTask, MirrorAgrees
    <2>3. RefundAgrees(q)'
      BY <1>22 DEF ApplyDispute, MoveIf, Goto, Done, On, NothingSeen, NoTask, RefundAgrees
    <2>4. DisputeAgrees(q)'
      <3>1. /\ pc[w] = "applyDispute" /\ task[w].pay = p /\ task[w] \in mail
            /\ task[w].what = "dispute" /\ status[p] # "none"
            /\ mirror[p] = task[w].val /\ seen[w].dispute = task[w].val /\ seen[w].status = status[p]
        BY <1>22, <1>p DEF ApplyDispute, On
      <3>2. UNCHANGED <<mail, disputeAt, task>> /\ \A v \in Workers \ {w} : pc'[v] = pc[v]
        BY <1>22 DEF ApplyDispute, Goto, Done
      <3>3. \A n \in mail : n # task[w] /\ StillIn(n, Applying) => StillIn(n, Applying)'
        BY <3>2
      <3>4. CASE p # q
        <4>1. status'[q] = status[q]
          BY <1>22, <3>4 DEF ApplyDispute, MoveIf
        <4> HIDE DEF StillIn
        <4> QED
          BY <3>1, <3>2, <3>3, <3>4, <4>1 DEF DisputeAgrees
      <3>5. CASE p = q /\ task[w].val = "won"
        <4>1. status'[q] = IF status[q] = "DISPUTED" THEN "COMPLETED" ELSE status[q]
          BY <1>22, <3>1, <3>5 DEF ApplyDispute, MoveIf
        <4>2. disputeAt[q] \notin Held
          BY <3>1, <3>5
        <4> HIDE DEF StillIn
        <4> QED
          BY <3>1, <3>2, <3>3, <3>5, <4>1, <4>2 DEF DisputeAgrees
      <3>6. CASE p = q /\ task[w].val \in Held
        <4>1. status'[q] = IF status[q] = "COMPLETED" THEN "DISPUTED" ELSE status[q]
          BY <1>22, <3>1, <3>6 DEF ApplyDispute, MoveIf
        <4>2. status[q] \in {"PENDING", "COMPLETED", "DISPUTED", "REFUNDED"}
          BY <3>1, <3>6 DEF TxStates
        <4>3. disputeAt[q] \notin Held =>
                 disputeAt[q] \in {"won", "lost"} /\ Awaits(q, "dispute", disputeAt[q], {"upsert"})
          BY <3>1, <3>6 DEF MirrorAgrees
        <4>4. \A n \in mail : StillIn(n, {"upsert"}) => StillIn(n, Applying) /\ n # task[w]
          BY <3>1
        <4> HIDE DEF StillIn
        <4>5. disputeAt[q] \notin Held => Awaits(q, "dispute", disputeAt[q], Applying)'
          BY <3>2, <3>3, <4>3, <4>4
        <4>6. disputeAt'[q] = disputeAt[q] /\ "lost" \notin Held
          BY <3>2
        <4> QED
          BY <3>2, <4>1, <4>2, <4>3, <4>5, <4>6 DEF DisputeAgrees
      <3>7. CASE p = q /\ task[w].val = "lost"
        <4>1. status'[q] = "REFUNDED"
          BY <1>22, <3>1, <3>7 DEF ApplyDispute
        <4> QED
          BY <4>1 DEF DisputeAgrees
      <3> QED
        BY <1>22, <3>1, <3>4, <3>5, <3>6, <3>7 DEF ApplyDispute
    <2>5. UnlockAgrees(q)'
      BY <1>22 DEF ApplyDispute, MoveIf, Goto, Done, On, NothingSeen, NoTask, UnlockAgrees
    <2> QED
      BY <2>1, <2>2, <2>3, <2>4, <2>5 DEF Agrees
  <1>23. ASSUME NEW w \in Workers, Fail(w) PROVE Agrees(q)'
    BY <1>23 DEF Fail, Drop, NoTask, NothingSeen
  <1>24. CASE UNCHANGED vars
    BY <1>24 DEF vars, Agrees, PaidAgrees, MirrorAgrees, RefundAgrees, DisputeAgrees, UnlockAgrees
  <1> QED
    BY <1>1, <1>2, <1>3, <1>4, <1>5, <1>6, <1>7, <1>8, <1>9, <1>10, <1>11, <1>12, <1>13, <1>14,
        <1>15, <1>16, <1>17, <1>18, <1>19, <1>20, <1>21, <1>22, <1>23, <1>24
    DEF Next, Handle


-----------------------------------------------------------------------------
FullInv == Inv /\ DisputeInv /\ OrderInv /\ TurnInv /\ AgreeInv

(* At the start there is no payment, no notice and no handler. *)
LEMMA InitFull == Init => FullInv
  <1> SUFFICES ASSUME Init PROVE FullInv
    OBVIOUS
  <1> USE PaymentsAssumption DEF Init
  <1>1. TypeInv
    BY DEF TypeInv, TypeOK, Seen, NothingSeen, TxStates, Disputes, PCs
  <1>2. MailInv /\ TaskInv /\ WorkInv /\ DisputeInv /\ OrderInv
    BY DEF MailInv, TaskInv, WorkInv, DisputeInv, OrderInv, AboutCheckout, AboutRefund, AboutDispute
  <1>3. SafeInv
    BY DEF SafeInv, MirrorInv, RefundedIsReal, NeverOverstated, UnlockIsPaid, FeeSettledFirst
  <1>4. TurnInv
    BY DEF TurnInv, InStep, News
  <1>5. AgreeInv
    BY DEF AgreeInv, Agrees, PaidAgrees, MirrorAgrees, RefundAgrees, DisputeAgrees, UnlockAgrees,
       Held
  <1> QED
    BY <1>1, <1>2, <1>3, <1>4, <1>5 DEF FullInv, Inv

(* The whole is inductive. *)
LEMMA FullStep == FullInv /\ [Next]_vars => FullInv'
  BY TypeStep, MailStep, TaskStep, WorkStep, SafeStep, DisputeStep, OrderStep, TurnStep, AgreeStep
  DEF FullInv, Inv, SafeInv

(* Every reachable state satisfies it. *)
LEMMA FullCorrect == Spec => []FullInv
  BY InitFull, FullStep, PTL DEF Spec

(* Type correctness. *)
THEOREM TypeCorrect == Spec => []TypeOK
  <1>1. FullInv => TypeOK
    BY DEF FullInv, Inv, TypeInv
  <1> QED
    BY <1>1, FullCorrect, PTL

(* A payment marked REFUNDED was refunded in full or its dispute is lost, whatever
   notices are lost, repeated or reordered. *)
THEOREM RefundedStaysReal == Spec => []RefundedIsReal
  <1>1. FullInv => RefundedIsReal
    BY DEF FullInv, Inv, SafeInv
  <1> QED
    BY <1>1, FullCorrect, PTL

(* The recorded refund is never above what Stripe gave back. *)
THEOREM RefundsNeverOverstated == Spec => []NeverOverstated
  <1>1. FullInv => NeverOverstated
    BY DEF FullInv, Inv, SafeInv
  <1> QED
    BY <1>1, FullCorrect, PTL

(* What is unlocked was paid and recorded, never a payment for a missing message. *)
THEOREM UnlocksArePaid == Spec => []UnlockIsPaid
  <1>1. FullInv => UnlockIsPaid
    BY DEF FullInv, Inv, SafeInv
  <1> QED
    BY <1>1, FullCorrect, PTL

(* No payment is on record as a creator's before its fee was settled. *)
THEOREM FeesSettledFirst == Spec => []FeeSettledFirst
  <1>1. FullInv => FeeSettledFirst
    BY DEF FullInv, Inv, SafeInv
  <1> QED
    BY <1>1, FullCorrect, PTL

(* A step leaves the status of a payment, or moves it on. *)
LEMMA StatusStep ==
    FullInv /\ [Next]_vars => \A p \in Payments :
        /\ status[p] = "REFUNDED" => status'[p] = "REFUNDED"
        /\ status[p] = "PENDING" => status'[p] \in {"PENDING", "REFUNDED"}
  <1> SUFFICES ASSUME FullInv, [Next]_vars
               PROVE  \A p \in Payments :
                         /\ status[p] = "REFUNDED" => status'[p] = "REFUNDED"
                         /\ status[p] = "PENDING" => status'[p] \in {"PENDING", "REFUNDED"}
    OBVIOUS
  <1> USE DEF dbVars
  <1>t. TypeOK /\ WorkInv
    BY DEF FullInv, Inv, TypeInv
  <1>s. status \in [Payments -> TxStates]
    BY <1>t DEF TypeOK
  <1>1. ASSUME NEW q \in Payments,
               CloseCheckout(q) \/ StaffRefund(q) \/ MoveDispute(q) \/ DeleteMessage(q)
               \/ EndPromotion(q) \/ RestartPromotion(q)
        PROVE  UNCHANGED status
    BY <1>1 DEF CloseCheckout, StaffRefund, MoveDispute, DeleteMessage,
       EndPromotion, RestartPromotion
  <1>2. ASSUME NEW w \in Workers, NEW q \in Payments, Record(w, q)
        PROVE  status[q] = "none" /\ status' = [status EXCEPT ![q] = "COMPLETED"]
    BY <1>2 DEF Record
  <1>3. ASSUME NEW w \in Workers, NEW q \in Payments, CreateTx(w, q)
        PROVE  status[q] = "none" /\ status' = [status EXCEPT ![q] = "PENDING"]
    BY <1>3, <1>t DEF CreateTx, On, WorkInv
  <1>4. ASSUME NEW w \in Workers, NEW q \in Payments,
               MarkRefunded(w, q) \/ WriteTx(w, q) \/ ApplyDispute(w, q)
        PROVE  \/ status' = [status EXCEPT ![q] = "REFUNDED"]
               \/ UNCHANGED status
               \/ status[q] = "DISPUTED" /\ status' = [status EXCEPT ![q] = "COMPLETED"]
               \/ status[q] = "COMPLETED" /\ status' = [status EXCEPT ![q] = "DISPUTED"]
    BY <1>4 DEF MarkRefunded, WriteTx, ApplyDispute, MoveIf
  <1>5. ASSUME NEW w \in Workers, NEW q \in Payments,
               \/ Expire(w, q) \/ Begin(w, q) \/ SettleFee(w, q) \/ RecordRefused(w, q)
               \/ FindTx(w, q) \/ GiveBack(w, q) \/ ReadTx(w, q) \/ Revoke(w, q)
               \/ Upsert(w, q) \/ ReadMirror(w, q) \/ ReadDisputed(w, q)
        PROVE  UNCHANGED status
    BY <1>5 DEF Expire, Begin, SettleFee, RecordRefused, FindTx, GiveBack, ReadTx, Revoke, Upsert,
       ReadMirror, ReadDisputed
  <1>6. ASSUME NEW w \in Workers, Finish(w) \/ Fail(w) \/ \E n \in mail : Take(w, n)
        PROVE  UNCHANGED status
    BY <1>6 DEF Finish, Fail, Take
  <1>7. CASE UNCHANGED vars
    BY <1>7 DEF vars
  <1>8. CASE \E w \in Workers, q \in Payments :
                Record(w, q) \/ CreateTx(w, q) \/ MarkRefunded(w, q) \/ WriteTx(w, q)
                \/ ApplyDispute(w, q)
    BY <1>8, <1>s, <1>2, <1>3, <1>4
  <1>9. CASE UNCHANGED status
    BY <1>9
  <1> QED
    BY <1>1, <1>5, <1>6, <1>7, <1>8, <1>9 DEF Next, Handle

(* No notice takes a payment out of REFUNDED, however late its handler acts. *)
THEOREM RefundedForGood == Spec => RefundedIsFinal
  <1>1. FullInv /\ [Next]_vars
           => [\A p \in Payments : status[p] = "REFUNDED" => status'[p] = "REFUNDED"]_vars
    BY StatusStep
  <1> QED
    BY <1>1, FullCorrect, PTL DEF Spec, RefundedIsFinal

(* A payment for a missing message goes from PENDING to REFUNDED only. *)
THEOREM PendingEarnsNothing == Spec => PendingNeverEarned
  <1>1. FullInv /\ [Next]_vars
           => [\A p \in Payments :
                  status[p] = "PENDING" => status'[p] \in {"PENDING", "REFUNDED"}]_vars
    BY StatusStep
  <1> QED
    BY <1>1, FullCorrect, PTL DEF Spec, PendingNeverEarned

(* A step of a handler leaves a promotion that has ended, once it was paid. *)
LEMMA EndedStep ==
    ASSUME FullInv, [Next]_vars, NEW p \in Payments,
           promotion[p] = "ENDED", status[p] # "none", promotion'[p] # "ENDED"
    PROVE  RestartPromotion(p)
  <1> USE DEF dbVars
  <1>t. promotion \in [Payments -> {"PENDING", "ACTIVE", "ENDED", "FAILED"}]
    BY DEF FullInv, Inv, TypeInv, TypeOK
  <1>1. ASSUME NEW q \in Payments,
               CloseCheckout(q) \/ StaffRefund(q) \/ MoveDispute(q) \/ DeleteMessage(q)
        PROVE  UNCHANGED promotion
    BY <1>1 DEF CloseCheckout, StaffRefund, MoveDispute, DeleteMessage
  <1>2. ASSUME NEW q \in Payments, EndPromotion(q)
        PROVE  promotion' = [promotion EXCEPT ![q] = "ENDED"]
    BY <1>2 DEF EndPromotion
  <1>3. ASSUME NEW q \in Payments, RestartPromotion(q)
        PROVE  promotion' = [promotion EXCEPT ![q] = "ACTIVE"]
    BY <1>3 DEF RestartPromotion
  <1>4. ASSUME NEW w \in Workers, NEW q \in Payments, Record(w, q)
        PROVE  /\ status[q] = "none"
               /\ \/ promotion' = [promotion EXCEPT ![q] = "ACTIVE"]
                  \/ UNCHANGED promotion
    BY <1>4 DEF Record
  <1>5. ASSUME NEW w \in Workers, NEW q \in Payments, Expire(w, q)
        PROVE  \/ promotion[q] = "PENDING" /\ promotion' = [promotion EXCEPT ![q] = "FAILED"]
               \/ UNCHANGED promotion
    BY <1>5 DEF Expire
  <1>6. ASSUME NEW w \in Workers, NEW q \in Payments,
               \/ Begin(w, q) \/ SettleFee(w, q) \/ RecordRefused(w, q) \/ FindTx(w, q)
               \/ CreateTx(w, q) \/ GiveBack(w, q) \/ MarkRefunded(w, q) \/ ReadTx(w, q)
               \/ WriteTx(w, q) \/ Revoke(w, q) \/ Upsert(w, q) \/ ReadMirror(w, q)
               \/ ReadDisputed(w, q) \/ ApplyDispute(w, q)
        PROVE  UNCHANGED promotion
    BY <1>6 DEF Begin, SettleFee, RecordRefused, FindTx, CreateTx, GiveBack, MarkRefunded, ReadTx,
       WriteTx, Revoke, Upsert, ReadMirror, ReadDisputed, ApplyDispute
  <1>7. ASSUME NEW w \in Workers, Finish(w) \/ Fail(w) \/ \E n \in mail : Take(w, n)
        PROVE  UNCHANGED promotion
    BY <1>7 DEF Finish, Fail, Take
  <1>8. CASE UNCHANGED vars
    BY <1>8 DEF vars
  <1>9. CASE \E q \in Payments : EndPromotion(q)
    BY <1>9, <1>2, <1>t
  <1>10. CASE \E q \in Payments : RestartPromotion(q)
    BY <1>10, <1>3, <1>t
  <1>11. CASE \E w \in Workers, q \in Payments : Record(w, q) \/ Expire(w, q)
    BY <1>11, <1>4, <1>5, <1>t
  <1> QED
    BY <1>1, <1>6, <1>7, <1>8, <1>9, <1>10, <1>11 DEF Next, Handle

(* A checkout notice that is handled late or again starts no promotion that was paid and
   has ended since: only staff or its owner do. *)
THEOREM EndedPromotionsStayEnded == Spec => EndedStaysEnded
  <1>1. FullInv /\ [Next]_vars
           => [\A p \in Payments :
                  promotion[p] = "ENDED" /\ status[p] # "none" /\ promotion'[p] # "ENDED"
                      => RestartPromotion(p)]_vars
    BY EndedStep
  <1> QED
    BY <1>1, FullCorrect, PTL DEF Spec, EndedStaysEnded

(* In Stripe's order and with no fault, the records agree with Stripe whenever every
   notice is handled. *)
THEOREM RecordsAgree == Spec => []QuietAgreesWithStripe
  <1>1. FullInv => QuietAgreesWithStripe
    <2> SUFFICES ASSUME FullInv, mail = {}, inOrder, faults = 0, NEW p \in Payments
                 PROVE  /\ status[p] = "none" <=> checkout[p] # "paid"
                        /\ mirror[p] = disputeAt[p]
                        /\ status[p] = "REFUNDED" <=> refundedAt[p] = Amount \/ disputeAt[p] = "lost"
                        /\ disputeAt[p] \in Held => status[p] \in {"DISPUTED", "PENDING", "REFUNDED"}
                        /\ status[p] = "DISPUTED" => disputeAt[p] \in Held
                        /\ p \in unlocked => status[p] \in {"COMPLETED", "DISPUTED"}
      BY DEF QuietAgreesWithStripe, Quiet
    <2>1. \A w \in Workers : pc[w] = "idle"
      BY DEF FullInv, Inv, TypeInv, TypeOK
    <2>2. \A what, val, steps : ~Awaits(p, what, val, steps)
      BY DEF Awaits
    <2>3. Agrees(p) /\ RefundedIsReal
      BY DEF FullInv, Inv, SafeInv, AgreeInv, InTurn
    <2> HIDE DEF Awaits
    <2> QED
      BY <2>1, <2>2, <2>3 DEF Agrees, PaidAgrees, MirrorAgrees, RefundAgrees, DisputeAgrees,
         UnlockAgrees, RefundedIsReal
  <1> QED
    BY <1>1, FullCorrect, PTL

-----------------------------------------------------------------------------
(* Word of a dispute, whenever it was read: one said to be open was opened *)
(* at Stripe, one said to be won is won there.                             *)
Says(s, p) ==
    /\ s \in Held => disputeAt[p] \in Held \union {"won", "lost"}
    /\ s = "won" => disputeAt[p] = "won"

(* What the moves of the books rest on besides FullInv. *)
BooksInv ==
    /\ \A p \in Payments : Says(mirror[p], p)
    /\ \A w \in Workers :
          /\ pc[w] \in {"readDisputed", "applyDispute"} => Says(seen[w].dispute, task[w].pay)
          /\ pc[w] = "revoke" => status[task[w].pay] = "REFUNDED"

(* A dispute that was opened, or won, stays so. *)
LEMMA WordStays ==
    ASSUME TypeInv, [Next]_vars, NEW s, NEW p \in Payments, Says(s, p)
    PROVE  Says(s, p)'
  <1> USE DEF Says, TypeInv, TypeOK, stripeVars
  <1>1. ASSUME NEW q \in Payments, MoveDispute(q) PROVE Says(s, p)'
    BY <1>1 DEF MoveDispute, NextOfDispute, Held
  <1>2. ASSUME UNCHANGED disputeAt PROVE Says(s, p)'
    BY <1>2
  <1>3. ASSUME NEW q \in Payments, CloseCheckout(q) \/ StaffRefund(q) \/ DeleteMessage(q)
               \/ EndPromotion(q) \/ RestartPromotion(q)
        PROVE  UNCHANGED disputeAt
    BY <1>3 DEF CloseCheckout, StaffRefund, DeleteMessage, EndPromotion, RestartPromotion
  <1>4. ASSUME NEW w \in Workers, Handle(w) \/ Fail(w) PROVE UNCHANGED disputeAt
    BY <1>4 DEF Handle, Fail, Take, Finish, Expire, Begin, SettleFee, Record, RecordRefused,
       FindTx, CreateTx, GiveBack, FullRefund, MarkRefunded, ReadTx, WriteTx, Revoke, Upsert,
       ReadMirror, ReadDisputed, ApplyDispute, Goto, Done
  <1>5. CASE UNCHANGED vars
    BY <1>5, <1>2 DEF vars
  <1> QED
    BY <1>1, <1>2, <1>3, <1>4, <1>5 DEF Next

LEMMA BooksStep == FullInv /\ BooksInv /\ [Next]_vars => BooksInv'
  <1> SUFFICES ASSUME FullInv, BooksInv, [Next]_vars PROVE BooksInv'
    OBVIOUS
  <1>a. TypeInv /\ TypeInv' /\ MailInv /\ TaskInv /\ DisputeInv
    BY FullStep DEF FullInv, Inv
  <1>b. \A s : \A p \in Payments : Says(s, p) => Says(s, p)'
    BY <1>a, WordStays
  <1>c. \A p \in Payments : status[p] = "REFUNDED" => status'[p] = "REFUNDED"
    BY StatusStep
  <1>d. \A w \in Workers : pc[w] # "idle" => task[w] \in mail /\ task[w].pay \in Payments
    BY <1>a DEF TypeInv, TypeOK
  <1>1. \A p \in Payments : Says(mirror[p], p)'
    <2>1. CASE UNCHANGED mirror
      BY <2>1, <1>b DEF BooksInv, Says
    <2>2. ASSUME NEW w \in Workers, NEW q \in Payments, Upsert(w, q)
          PROVE  \A p \in Payments : Says(mirror[p], p)'
      <3>1. Says(task[w].val, q)
        BY <2>2, <1>a, <1>d DEF Upsert, On, TaskInv, AboutDispute, AboutRefund, DisputeInv, Says,
           Held, Rank, TypeInv, TypeOK, Disputes, Closed, Inquiry
      <3>2. \A p \in Payments : mirror'[p] = mirror[p] \/ (p = q /\ mirror'[p] = task[w].val)
        <4>1. mirror \in [Payments -> Disputes]
          BY <1>a DEF TypeInv, TypeOK
        <4>2. mirror' = mirror \/ mirror' = [mirror EXCEPT ![q] = task[w].val]
          BY <2>2 DEF Upsert
        <4> QED
          BY <4>1, <4>2
      <3> QED
        BY <3>1, <3>2, <1>b DEF BooksInv, Says
    <2>3. ASSUME NEW q \in Payments,
                 CloseCheckout(q) \/ StaffRefund(q) \/ MoveDispute(q) \/ DeleteMessage(q)
               \/ EndPromotion(q) \/ RestartPromotion(q)
          PROVE  UNCHANGED mirror
      BY <2>3 DEF CloseCheckout, StaffRefund, MoveDispute, DeleteMessage,
         EndPromotion, RestartPromotion, dbVars
    <2>4. ASSUME NEW w \in Workers, NEW q \in Payments,
                 \/ Expire(w, q) \/ Begin(w, q) \/ SettleFee(w, q) \/ Record(w, q)
                 \/ RecordRefused(w, q) \/ FindTx(w, q) \/ CreateTx(w, q) \/ GiveBack(w, q)
                 \/ MarkRefunded(w, q) \/ ReadTx(w, q) \/ WriteTx(w, q) \/ Revoke(w, q)
                 \/ ReadMirror(w, q) \/ ReadDisputed(w, q) \/ ApplyDispute(w, q)
          PROVE  UNCHANGED mirror
      BY <2>4 DEF Expire, Begin, SettleFee, Record, RecordRefused, FindTx, CreateTx, GiveBack,
         MarkRefunded, ReadTx, WriteTx, Revoke, ReadMirror, ReadDisputed, ApplyDispute, dbVars
    <2>5. ASSUME NEW w \in Workers, Finish(w) \/ Fail(w) \/ \E n \in mail : Take(w, n)
          PROVE  UNCHANGED mirror
      BY <2>5 DEF Finish, Fail, Take, dbVars
    <2>6. CASE UNCHANGED vars
      BY <2>6, <2>1 DEF vars, dbVars
    <2> QED
      BY <2>1, <2>2, <2>3, <2>4, <2>5, <2>6 DEF Next, Handle
  <1>2. ASSUME NEW w \in Workers, pc'[w] \in {"readDisputed", "applyDispute", "revoke"}
        PROVE  /\ pc[w] # "idle" /\ task'[w] = task[w]
               /\ \/ pc'[w] = pc[w] /\ seen'[w] = seen[w]
                  \/ pc'[w] = "readDisputed" /\ seen'[w].dispute = mirror[task[w].pay]
                  \/ /\ pc[w] = "readDisputed" /\ pc'[w] = "applyDispute"
                     /\ seen'[w].dispute = seen[w].dispute
                  \/ pc'[w] = "revoke" /\ status'[task[w].pay] = "REFUNDED"
    <2>t. /\ pc \in [Workers -> PCs] /\ seen \in [Workers -> Seen]
          /\ task = [v \in Workers |-> task[v]] /\ status \in [Payments -> TxStates]
      BY <1>a DEF TypeInv, TypeOK
    <2> USE <1>2, <2>t DEF Seen, workVars
    <2>1. ASSUME NEW v \in Workers, NEW q \in Payments, WriteTx(v, q) \/ ApplyDispute(v, q)
          PROVE  /\ UNCHANGED task /\ task[v].pay = q /\ pc[v] # "idle"
                 /\ \/ pc' = [pc EXCEPT ![v] = "finish"] /\ seen' = [seen EXCEPT ![v] = NothingSeen]
                    \/ /\ pc' = [pc EXCEPT ![v] = "revoke"] /\ UNCHANGED seen
                       /\ status' = [status EXCEPT ![q] = "REFUNDED"]
      BY <2>1 DEF WriteTx, ApplyDispute, Goto, Done, On
    <2>2. ASSUME NEW v \in Workers, NEW q \in Payments, ReadMirror(v, q) \/ ReadDisputed(v, q)
          PROVE  /\ UNCHANGED task /\ task[v].pay = q
                 /\ \/ pc' = [pc EXCEPT ![v] = "finish"] /\ seen' = [seen EXCEPT ![v] = NothingSeen]
                    \/ /\ pc[v] = "readMirror" /\ pc' = [pc EXCEPT ![v] = "readDisputed"]
                       /\ seen' = [seen EXCEPT ![v].dispute = mirror[q]]
                    \/ /\ pc[v] = "readDisputed" /\ pc' = [pc EXCEPT ![v] = "applyDispute"]
                       /\ seen' = [seen EXCEPT ![v].status = status[q]]
      BY <2>2 DEF ReadMirror, ReadDisputed, Done, On
    <2>3. ASSUME NEW v \in Workers, NEW q \in Payments,
                 \/ Expire(v, q) \/ Begin(v, q) \/ SettleFee(v, q) \/ Record(v, q)
                 \/ RecordRefused(v, q) \/ FindTx(v, q) \/ CreateTx(v, q) \/ GiveBack(v, q)
                 \/ MarkRefunded(v, q) \/ ReadTx(v, q) \/ Revoke(v, q) \/ Upsert(v, q)
          PROVE  w # v /\ pc'[w] = pc[w] /\ task'[w] = task[w] /\ seen'[w] = seen[w]
      BY <2>3 DEF Expire, Begin, SettleFee, Record, RecordRefused, FindTx, CreateTx, GiveBack,
         MarkRefunded, ReadTx, Revoke, Upsert, Goto, Done, Drop, On
    <2>4. ASSUME NEW v \in Workers, Finish(v) \/ Fail(v) \/ \E n \in mail : Take(v, n)
          PROVE  w # v /\ pc'[w] = pc[w] /\ task'[w] = task[w] /\ seen'[w] = seen[w]
      <3>1. CASE Finish(v) \/ Fail(v)
        BY <3>1 DEF Finish, Fail, Drop
      <3>2. ASSUME NEW n \in mail, Take(v, n)
            PROVE  \E l \in {"start", "readTx", "upsert"} : pc' = [pc EXCEPT ![v] = l]
        BY <3>2, <1>a DEF Take, MailInv
      <3>3. ASSUME NEW n \in mail, Take(v, n)
            PROVE  w # v /\ pc'[w] = pc[w] /\ task'[w] = task[w] /\ seen'[w] = seen[w]
        <4>1. PICK l \in {"start", "readTx", "upsert"} : pc' = [pc EXCEPT ![v] = l]
          BY <3>2, <3>3
        <4>2. w # v
          BY <4>1
        <4>3. \E s : seen' = [seen EXCEPT ![v] = s]
          BY <3>3 DEF Take
        <4>4. task' = [task EXCEPT ![v] = n]
          BY <3>3 DEF Take
        <4> QED
          BY <4>1, <4>2, <4>3, <4>4
      <3> QED
        BY <2>4, <3>1, <3>3
    <2>5. CASE UNCHANGED workVars
      BY <2>5
    <2>6. ASSUME NEW v \in Workers, NEW q \in Payments, WriteTx(v, q) \/ ApplyDispute(v, q)
          PROVE  \/ pc'[w] = pc[w] /\ task'[w] = task[w] /\ seen'[w] = seen[w]
                 \/ /\ pc[w] # "idle" /\ pc'[w] = "revoke" /\ task'[w] = task[w]
                    /\ status'[task[w].pay] = "REFUNDED"
      BY <2>1, <2>6
    <2>7. ASSUME NEW v \in Workers, NEW q \in Payments, ReadMirror(v, q) \/ ReadDisputed(v, q)
          PROVE  /\ task'[w] = task[w]
                 /\ \/ pc'[w] = pc[w] /\ seen'[w] = seen[w]
                    \/ /\ pc[w] = "readMirror" /\ pc'[w] = "readDisputed"
                       /\ seen'[w].dispute = mirror[task[w].pay]
                    \/ /\ pc[w] = "readDisputed" /\ pc'[w] = "applyDispute"
                       /\ seen'[w].dispute = seen[w].dispute
      BY <2>2, <2>7
    <2>8. \/ UNCHANGED workVars
          \/ \E v \in Workers : Finish(v) \/ Fail(v) \/ \E n \in mail : Take(v, n)
          \/ \E v \in Workers, q \in Payments :
                \/ Expire(v, q) \/ Begin(v, q) \/ SettleFee(v, q) \/ Record(v, q)
                \/ RecordRefused(v, q) \/ FindTx(v, q) \/ CreateTx(v, q) \/ GiveBack(v, q)
                \/ MarkRefunded(v, q) \/ ReadTx(v, q) \/ Revoke(v, q) \/ Upsert(v, q)
                \/ WriteTx(v, q) \/ ApplyDispute(v, q) \/ ReadMirror(v, q) \/ ReadDisputed(v, q)
      BY DEF Next, Handle, vars, CloseCheckout, StaffRefund, MoveDispute, DeleteMessage,
         EndPromotion, RestartPromotion
    <2> QED
      BY <2>3, <2>4, <2>5, <2>6, <2>7, <2>8
  <1>3. ASSUME NEW w \in Workers, pc'[w] \in {"readDisputed", "applyDispute"}
        PROVE  Says(seen[w].dispute, task[w].pay)'
    BY <1>2, <1>3, <1>b, <1>d DEF BooksInv, Says
  <1>4. ASSUME NEW w \in Workers, pc'[w] = "revoke"
        PROVE  status'[task'[w].pay] = "REFUNDED"
    BY <1>2, <1>4, <1>c, <1>d DEF BooksInv
  <1> QED
    BY <1>1, <1>3, <1>4 DEF BooksInv

(* What stands in the books after an action depends on these variables only. *)
BooksView == <<checkout, refundedAt, disputeAt, status, unlocked>>

(* A step is a move of the books, with its reason, or does not touch them. *)
LEMMA BookedStep ==
    FullInv /\ BooksInv /\ [Next]_vars => [Books!Next]_(Books!vars)
  <1> DEFINE Paid == {p \in Payments : checkout[p] = "paid"}
             Returned == {p \in Payments : refundedAt[p] = Amount}
             Disputed == [p \in Payments |-> OpenedDispute(p)]
             Stays == UNCHANGED <<Paid, Returned, Disputed, status, unlocked>>
  <1> SUFFICES ASSUME FullInv, BooksInv, [Next]_vars
               PROVE  Books!Next \/ Stays
    BY DEF Books!vars
  <1>t. TypeInv /\ MailInv /\ TaskInv /\ WorkInv /\ DisputeInv
    BY DEF FullInv, Inv
  <1>s. /\ checkout \in [Payments -> {"open", "paid", "expired"}]
        /\ refundedAt \in [Payments -> 0..Amount]
        /\ disputeAt \in [Payments -> Disputes]
        /\ status \in [Payments -> TxStates]
    BY <1>t DEF TypeInv, TypeOK
  <1>w. \A w \in Workers : pc[w] # "idle" => task[w] \in mail /\ True(task[w])
    BY <1>t DEF TypeInv, TypeOK, MailInv
  <1>0. ASSUME UNCHANGED BooksView PROVE Stays
    BY <1>0 DEF BooksView, OpenedDispute
  <1>1. ASSUME NEW p \in Payments, CloseCheckout(p) PROVE Books!Next \/ Stays
    <2>1. UNCHANGED <<refundedAt, disputeAt, status, unlocked>>
      BY <1>1 DEF CloseCheckout, dbVars
    <2>2. UNCHANGED <<Returned, Disputed>>
      BY <2>1 DEF OpenedDispute
    <2>3. p \notin Paid /\ (Paid' = Paid \/ Paid' = Paid \union {p})
      BY <1>1, <1>s DEF CloseCheckout
    <2> QED
      BY <2>1, <2>2, <2>3 DEF Books!Next, Books!Pay
  <1>2. ASSUME NEW p \in Payments, StaffRefund(p) PROVE Books!Next \/ Stays
    <2>1. UNCHANGED <<checkout, disputeAt, status, unlocked>>
      BY <1>2 DEF StaffRefund, dbVars
    <2>2. UNCHANGED <<Paid, Disputed>>
      BY <2>1 DEF OpenedDispute
    <2>3. p \in Paid \ Returned /\ Disputed[p] \in {"none", "won"}
      BY <1>2, <1>s, PaymentsAssumption DEF StaffRefund, Refundable, OpenedDispute
    <2>4. Returned' = Returned \/ Returned' = Returned \union {p}
      BY <1>2, <1>s, PaymentsAssumption DEF StaffRefund, Refundable
    <2> HIDE DEF Paid, Returned, Disputed
    <2> QED
      BY <2>1, <2>2, <2>3, <2>4 DEF Books!Next, Books!Refund, Paid, Returned, Disputed
  <1>3. ASSUME NEW p \in Payments, MoveDispute(p) PROVE Books!Next \/ Stays
    <2>1. UNCHANGED <<checkout, refundedAt, status, unlocked>>
      BY <1>3 DEF MoveDispute, dbVars
    <2>2. UNCHANGED <<Paid, Returned>>
      BY <2>1
    <2>3. p \in Paid
      BY <1>3 DEF MoveDispute
    <2>4. PICK s \in NextOfDispute(disputeAt[p]) : disputeAt' = [disputeAt EXCEPT ![p] = s]
      BY <1>3 DEF MoveDispute
    <2>5. Disputed' = [Disputed EXCEPT ![p] = OpenedDispute(p)']
      BY <2>4, <1>s DEF OpenedDispute
    <2>6. \/ OpenedDispute(p)' = OpenedDispute(p)
          \/ OpenedDispute(p) = "none" /\ OpenedDispute(p)' = "open"
          \/ OpenedDispute(p) = "open" /\ OpenedDispute(p)' \in {"won", "lost"}
      BY <2>4, <1>s DEF NextOfDispute, OpenedDispute, Held
    <2>7. CASE OpenedDispute(p)' = OpenedDispute(p)
      <3>1. Disputed' = Disputed
        BY <2>5, <2>7
      <3> QED
        BY <3>1, <2>1, <2>2
    <2>8. CASE OpenedDispute(p)' # OpenedDispute(p)
      BY <2>1, <2>2, <2>3, <2>5, <2>6, <2>8 DEF Books!Next, Books!Dispute
    <2> QED
      BY <2>7, <2>8
  <1>4. ASSUME NEW w \in Workers, NEW p \in Payments, GiveBack(w, p) PROVE Books!Next \/ Stays
    <2>1. UNCHANGED <<checkout, disputeAt, status, unlocked>>
      BY <1>4 DEF GiveBack, FullRefund, Done, dbVars, stripeVars
    <2>2. UNCHANGED <<Paid, Disputed>>
      BY <2>1 DEF OpenedDispute
    <2>3. CASE UNCHANGED refundedAt
      BY <2>3, <2>1, <1>0 DEF BooksView
    <2>4. CASE FullRefund(p)
      <3>1. p \in Paid \ Returned /\ Disputed[p] \in {"none", "won"}
        BY <1>4, <2>4, <1>t, <1>w, <1>s, PaymentsAssumption DEF GiveBack, FullRefund, On, OpenedDispute,
           WorkInv, TaskInv, AboutCheckout, True
      <3>2. Returned' = Returned \union {p}
        BY <2>4, <1>s, PaymentsAssumption DEF FullRefund
      <3> QED
        BY <2>1, <2>2, <3>1, <3>2 DEF Books!Next, Books!Refund
    <2> QED
      BY <1>4, <2>3, <2>4 DEF GiveBack, Done, stripeVars
  <1>5. ASSUME UNCHANGED <<checkout, refundedAt, disputeAt>>
        PROVE  UNCHANGED <<Paid, Returned, Disputed>>
    BY <1>5 DEF OpenedDispute
  <1>6. ASSUME NEW w \in Workers, NEW p \in Payments, Record(w, p) \/ CreateTx(w, p)
        PROVE  Books!Next
    <2>1. p \in Paid /\ status[p] = "none"
      BY <1>6, <1>t, <1>w DEF Record, CreateTx, On, TaskInv, WorkInv, AboutCheckout, True
    <2>2. UNCHANGED <<Paid, Returned, Disputed>>
      BY <1>6, <1>5 DEF Record, CreateTx, Done, Goto, stripeVars
    <2>3. CASE Record(w, p)
      <3>1. /\ status' = [status EXCEPT ![p] = "COMPLETED"]
            /\ unlocked' \in {unlocked, unlocked \union {p}}
        BY <2>3 DEF Record
      <3> QED
        BY <2>1, <2>2, <3>1 DEF Books!Next, Books!Earn, Books!Move, Books!Stripe
    <2>4. CASE CreateTx(w, p)
      <3>1. status' = [status EXCEPT ![p] = "PENDING"] /\ UNCHANGED unlocked
        BY <2>4 DEF CreateTx
      <3> QED
        BY <2>1, <2>2, <3>1 DEF Books!Next, Books!Hold, Books!Move, Books!Stripe
    <2> QED
      BY <1>6, <2>3, <2>4
  <1>7. ASSUME NEW w \in Workers, NEW p \in Payments,
               MarkRefunded(w, p) \/ WriteTx(w, p) \/ ApplyDispute(w, p)
        PROVE  Books!Next \/ Stays
    <2>1. UNCHANGED <<Paid, Returned, Disputed>> /\ UNCHANGED unlocked
      BY <1>7, <1>5 DEF MarkRefunded, WriteTx, ApplyDispute, Done, Goto, stripeVars
    <2>2. \/ UNCHANGED status
          \/ /\ status' = [status EXCEPT ![p] = "REFUNDED"]
             /\ status[p] # "none" /\ (refundedAt[p] = Amount \/ disputeAt[p] = "lost")
          \/ /\ status[p] = "DISPUTED" /\ status' = [status EXCEPT ![p] = "COMPLETED"]
             /\ disputeAt[p] = "won"
          \/ /\ status[p] = "COMPLETED" /\ status' = [status EXCEPT ![p] = "DISPUTED"]
             /\ disputeAt[p] \in Held \union {"won", "lost"}
      <3>1. CASE MarkRefunded(w, p)
        BY <3>1, <1>t DEF MarkRefunded, On, WorkInv
      <3>2. CASE WriteTx(w, p)
        BY <3>2, <1>t, <1>w, <1>s, PaymentsAssumption DEF WriteTx, BecomesRefunded, On, WorkInv,
           TaskInv, AboutRefund, AboutDispute, True
      <3>3. CASE ApplyDispute(w, p)
        BY <3>3, <1>t, <1>s DEF ApplyDispute, MoveIf, On, WorkInv, BooksInv, Says
      <3> QED
        BY <1>7, <3>1, <3>2, <3>3
    <2>3. CASE UNCHANGED status
      BY <2>1, <2>3
    <2>4. CASE /\ status' = [status EXCEPT ![p] = "REFUNDED"]
               /\ status[p] # "none" /\ (refundedAt[p] = Amount \/ disputeAt[p] = "lost")
      <3>1. p \in Returned \/ Disputed[p] = "lost"
        BY <2>4 DEF OpenedDispute, Held
      <3>2. CASE status[p] = "REFUNDED"
        BY <2>1, <2>4, <3>2, <1>s
      <3>3. CASE status[p] \in {"PENDING", "COMPLETED", "DISPUTED"}
        BY <2>1, <2>4, <3>1, <3>3 DEF Books!Next, Books!Return, Books!Move, Books!Stripe
      <3> QED
        BY <2>4, <3>2, <3>3, <1>s DEF TxStates
    <2>5. CASE /\ status[p] = "DISPUTED" /\ status' = [status EXCEPT ![p] = "COMPLETED"]
               /\ disputeAt[p] = "won"
      <3>1. Disputed[p] = "won"
        BY <2>5 DEF OpenedDispute, Held
      <3> QED
        BY <2>1, <2>5, <3>1 DEF Books!Next, Books!Win, Books!Move, Books!Stripe
    <2>6. CASE /\ status[p] = "COMPLETED" /\ status' = [status EXCEPT ![p] = "DISPUTED"]
               /\ disputeAt[p] \in Held \union {"won", "lost"}
      <3>1. Disputed[p] # "none"
        BY <2>6 DEF OpenedDispute, Held
      <3> QED
        BY <2>1, <2>6, <3>1 DEF Books!Next, Books!Contest, Books!Move, Books!Stripe
    <2> QED
      BY <2>2, <2>3, <2>4, <2>5, <2>6
  <1>8. ASSUME NEW w \in Workers, NEW p \in Payments, Revoke(w, p) PROVE Books!Next
    <2>1. UNCHANGED <<Paid, Returned, Disputed>> /\ UNCHANGED status
      BY <1>8, <1>5 DEF Revoke, Done, stripeVars
    <2>2. status[p] = "REFUNDED" /\ unlocked' = unlocked \ {p}
      BY <1>8 DEF Revoke, On, BooksInv
    <2> QED
      BY <2>1, <2>2 DEF Books!Next, Books!Shut, Books!Stripe
  <1>9. ASSUME NEW w \in Workers, NEW p \in Payments,
               \/ Expire(w, p) \/ Begin(w, p) \/ SettleFee(w, p) \/ RecordRefused(w, p)
               \/ FindTx(w, p) \/ ReadTx(w, p) \/ Upsert(w, p) \/ ReadMirror(w, p)
               \/ ReadDisputed(w, p)
        PROVE  UNCHANGED BooksView
    BY <1>9 DEF Expire, Begin, SettleFee, RecordRefused, FindTx, ReadTx, Upsert, ReadMirror,
       ReadDisputed, Done, Goto, BooksView, stripeVars, dbVars
  <1>10. ASSUME NEW w \in Workers, Finish(w) \/ Fail(w) \/ \E n \in mail : Take(w, n)
         PROVE  UNCHANGED BooksView
    BY <1>10 DEF Finish, Fail, Take, BooksView, stripeVars, dbVars
  <1>11. ASSUME NEW p \in Payments,
               DeleteMessage(p) \/ EndPromotion(p) \/ RestartPromotion(p)
        PROVE UNCHANGED BooksView
    BY <1>11 DEF DeleteMessage, EndPromotion, RestartPromotion, BooksView, stripeVars
  <1>12. CASE UNCHANGED vars
    BY <1>12, <1>0 DEF vars, stripeVars, dbVars, BooksView
  <1> HIDE DEF Stays
  <1> QED
    BY <1>0, <1>1, <1>2, <1>3, <1>4, <1>6, <1>7, <1>8, <1>9, <1>10, <1>11, <1>12 DEF Next, Handle

(* The handlers keep the books as PaymentBooks promises, for any number of handlers,
   payments, notices and faults. *)
THEOREM PaymentsKeepBooks == Spec => KeepsBooks
  <1>1. Init => FullInv /\ BooksInv
    BY InitFull DEF Init, BooksInv, Says, Held
  <1>2. Init => Books!Init
    BY PaymentsAssumption DEF Init, Books!Init, OpenedDispute, Held
  <1> QED
    BY <1>1, <1>2, FullStep, BooksStep, BookedStep, PTL DEF Spec, KeepsBooks, Books!Spec
=============================================================================
