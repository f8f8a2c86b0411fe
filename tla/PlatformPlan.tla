---------------------------- MODULE PlatformPlan ----------------------------
(***************************************************************************)
(* The paid plan of one Profile (payments.service.ts): the checkout, the   *)
(* cancellation and resumption the person asks for, what Stripe's notices  *)
(* do to the mirrored rows, and the level and team that follow from them   *)
(* (syncUserTier of users.service.ts, team-plan.ts).                       *)
(*                                                                         *)
(* Subscriptions at Stripe change on their own and by these calls; each    *)
(* change makes a notice.  WebhookInbox says when a notice is handled: by  *)
(* one worker at a time, again when its handler failed or its process      *)
(* died, in any order.  Each await is a step.  Plans of different Profiles *)
(* share nothing, so one Profile is modelled.                              *)
(***************************************************************************)
EXTENDS Integers, FiniteSets

CONSTANTS
    Actors,      \* requests and webhook handlers in progress at once
    Subs,        \* subscriptions, each of a plan and billing cycle of its own
    TeamPlans,   \* those of them of a Business plan, on a Business Profile
    NoSub,
    MaxEvents    \* bound: changes made at Stripe from outside, cancellations
                 \* and resumptions asked for, crashes and failed calls

ASSUME PlanAssumption ==
    /\ IsFiniteSet(Actors) /\ NoSub \notin Subs /\ TeamPlans \subseteq Subs
    /\ MaxEvents \in Nat

VARIABLES
    session,    \* Stripe: the checkout session of each intent
    state,      \* Stripe: the status of each subscription
    atEnd,      \* Stripe: those that end with the period paid
    mail,       \* Stripe: how many notices of each kind are not handled yet
    status,     \* PlatformSubscription.status, or "none"
    cancelled,  \* rows with cancelAtPeriodEnd
    newer,      \* rows by updatedAt: pairs of a row and an older one
    level,      \* Profile.verificationLevel, as the plan that gives it
    team,       \* the members of the Profile are ACTIVE, not PAUSED
    pc, op, on, \* where an actor stands, what it does and to which one
    seen,       \* the subscription as it was read from Stripe
    todo,       \* enforceSingleActivePlatformPlan: rows still to cancel
    target,     \* syncUserTier and followTeamPlan: what was read is due
    events,     \* how many of the events MaxEvents bounds there were
    dunned,     \* history: a renewal was refused
    overlapped, \* history: two actors were under way at once
    misled      \* history: a notice of a failed payment came too late

stripeVars == <<session, state, atEnd, mail>>
rowVars    == <<status, cancelled, newer>>
tierVars   == <<level, team>>
actorVars  == <<pc, op, on, seen, todo, target>>
histVars   == <<dunned, overlapped, misled>>
vars == <<stripeVars, rowVars, tierVars, actorVars, events, histVars>>

Notices == {"checkout", "change", "unpaid"}
Live    == {"active", "past_due"}
PCs     == {"idle", "open", "readSub", "findOthers", "cancelOthers", "rowOther",
            "reread", "apply", "unpaid", "tier", "level", "team", "members", "finish",
            "stripeCancel", "markCancelled", "stripeResume", "markResumed"}
NothingSeen == [state |-> "none", atEnd |-> FALSE]

Init ==
    /\ session = [s \in Subs |-> "none"]
    /\ state = [s \in Subs |-> "none"]
    /\ atEnd = {}
    /\ mail = [s \in Subs |-> [n \in Notices |-> 0]]
    /\ status = [s \in Subs |-> "none"]
    /\ cancelled = {}
    /\ newer = {}
    /\ level = NoSub
    /\ team = FALSE
    /\ pc = [a \in Actors |-> "idle"]
    /\ op = [a \in Actors |-> "none"]
    /\ on = [a \in Actors |-> NoSub]
    /\ seen = [a \in Actors |-> NothingSeen]
    /\ todo = [a \in Actors |-> {}]
    /\ target = [a \in Actors |-> NoSub]
    /\ events = 0
    /\ dunned = FALSE /\ overlapped = FALSE /\ misled = FALSE

Notify(s, kinds) ==
    mail' = [mail EXCEPT ![s] = [n \in Notices |-> IF n \in kinds THEN @[n] + 1 ELSE @[n]]]

-----------------------------------------------------------------------------
Event == events < MaxEvents /\ events' = events + 1

(* External: what happens at Stripe. *)
Change(s, to, ends, kinds) ==
    /\ state' = [state EXCEPT ![s] = to]
    /\ atEnd' = IF ends THEN atEnd \union {s} ELSE atEnd \ {s}
    /\ Notify(s, kinds)
    /\ Event
    /\ UNCHANGED <<session, rowVars, tierVars, actorVars, overlapped, misled>>

Pay(s) ==
    /\ session[s] = "open"
    /\ session' = [session EXCEPT ![s] = "paid"]
    /\ state' = [state EXCEPT ![s] = "active"]
    /\ Notify(s, {"checkout"})
    /\ UNCHANGED <<atEnd, rowVars, tierVars, actorVars, events, histVars>>

RenewalFails(s) ==
    /\ state[s] = "active"
    /\ Change(s, "past_due", s \in atEnd, {"change", "unpaid"})
    /\ dunned' = TRUE

RenewalPaid(s) ==
    /\ state[s] = "past_due"
    /\ Change(s, "active", s \in atEnd, {"change"})
    /\ UNCHANGED dunned

(* Its period or its dunning is over, or it is ended in the Dashboard. *)
End(s) ==
    /\ state[s] \in Live
    /\ Change(s, "canceled", s \in atEnd, {"change"})
    /\ UNCHANGED dunned

(* The person cancels or resumes it in Stripe's billing portal. *)
Portal(s) ==
    /\ state[s] \in Live
    /\ Change(s, state[s], s \notin atEnd, {"change"})
    /\ UNCHANGED dunned

-----------------------------------------------------------------------------
Begin(a, what, s, l) ==
    /\ pc[a] = "idle"
    /\ pc' = [pc EXCEPT ![a] = l]
    /\ op' = [op EXCEPT ![a] = what]
    /\ on' = [on EXCEPT ![a] = s]
    /\ overlapped' = (overlapped \/ \E b \in Actors : pc[b] # "idle")
    /\ UNCHANGED <<seen, todo, target, dunned, misled>>

Goto(a, l) == pc' = [pc EXCEPT ![a] = l] /\ UNCHANGED <<op, on>>

Drop(a) ==
    /\ pc' = [pc EXCEPT ![a] = "idle"]
    /\ op' = [op EXCEPT ![a] = "none"]
    /\ on' = [on EXCEPT ![a] = NoSub]
    /\ seen' = [seen EXCEPT ![a] = NothingSeen]
    /\ todo' = [todo EXCEPT ![a] = {}]
    /\ target' = [target EXCEPT ![a] = NoSub]

(* The handler of a notice is through; a request has answered. *)
Done(a) ==
    IF op[a] \in Notices THEN Goto(a, "finish") /\ UNCHANGED <<seen, todo, target>>
                         ELSE Drop(a)

Active(s) == status[s] = "ACTIVE"

(* A row is written: it is the newest. *)
Touch(s) ==
    newer' = {p \in newer : s \notin {p[1], p[2]}} \union {<<s, o>> : o \in Subs \ {s}}

(* The bug of an index that is not there. *)
NoIndex(s, st) == FALSE

(* platform_subscriptions_one_active_per_profile *)
IndexRefuses(s, st) == st = "ACTIVE" /\ \E o \in Subs \ {s} : Active(o)

MapStripeStatus(st) ==
    CASE st = "active" -> "ACTIVE"
      [] st = "past_due" -> "PAST_DUE"
      [] st = "canceled" -> "CANCELLED"

(* The bug of an update that leaves updatedAt. *)
WriteRowUndated(s, st, ends) ==
    /\ status' = [status EXCEPT ![s] = st]
    /\ cancelled' = IF ends THEN cancelled \union {s} ELSE cancelled \ {s}
    /\ UNCHANGED newer

WriteRow(s, st, ends) ==
    /\ status' = [status EXCEPT ![s] = st]
    /\ cancelled' = IF ends THEN cancelled \union {s} ELSE cancelled \ {s}
    /\ Touch(s)

-----------------------------------------------------------------------------
(* createCheckout: only a mirrored active plan stands in the way, as it    *)
(* was read before the session is opened.  One intent has one session.     *)
CreateCheckout(a, s) ==
    /\ session[s] = "none"
    /\ \A o \in Subs : ~Active(o)
    /\ Begin(a, "buy", s, "open")
    /\ UNCHANGED <<stripeVars, rowVars, tierVars, events>>

OpenSession(a) ==
    /\ pc[a] = "open"
    /\ session' = [session EXCEPT ![on[a]] = IF @ = "none" THEN "open" ELSE @]
    /\ Drop(a)
    /\ UNCHANGED <<state, atEnd, mail, rowVars, tierVars, events, histVars>>

(* The newest row of a status asked for. *)
Newest(s, in) ==
    /\ status[s] \in in
    /\ \A o \in Subs \ {s} : status[o] \in in => <<s, o>> \in newer

Request(a, what, s, l) ==
    /\ Event
    /\ Begin(a, what, s, l)
    /\ UNCHANGED <<stripeVars, rowVars, tierVars>>

(* cancelPlan, resumePlan: the row is read, Stripe is asked, the row is    *)
(* written.                                                                *)
CancelPlan(a, s) ==
    /\ Newest(s, {"ACTIVE", "PAST_DUE"})
    /\ s \notin cancelled
    /\ Request(a, "cancel", s, "stripeCancel")

ResumePlan(a, s) ==
    /\ Newest(s, {"ACTIVE"})
    /\ s \in cancelled
    /\ Request(a, "resume", s, "stripeResume")

(* Stripe changes it, or refuses because it has ended: then the row takes  *)
(* its state from Stripe (refusedByProvider).                              *)
AskStripe(a) ==
    LET s == on[a]
        ends == pc[a] = "stripeCancel" IN
    /\ pc[a] \in {"stripeCancel", "stripeResume"}
    /\ IF state[s] \in Live
       THEN /\ atEnd' = IF ends THEN atEnd \union {s} ELSE atEnd \ {s}
            /\ Notify(s, IF ends = (s \in atEnd) THEN {} ELSE {"change"})
            /\ Goto(a, IF ends THEN "markCancelled" ELSE "markResumed")
       ELSE Goto(a, "reread") /\ UNCHANGED <<atEnd, mail>>
    /\ UNCHANGED <<session, state, rowVars, tierVars, seen, todo, target,
                   events, histVars>>

(* The row is written by id; one that is resumed already is left alone. *)
MarkRow(a) ==
    LET s == on[a]
        ends == pc[a] = "markCancelled" IN
    /\ pc[a] \in {"markCancelled", "markResumed"}
    /\ IF ends \/ s \in cancelled THEN WriteRow(s, status[s], ends) ELSE UNCHANGED rowVars
    /\ Drop(a)
    /\ UNCHANGED <<stripeVars, tierVars, events, histVars>>

-----------------------------------------------------------------------------
(* dispatchStripeEvent *)
Take(a, s, n) ==
    /\ Cardinality({b \in Actors : op[b] = n /\ on[b] = s}) < mail[s][n]
    /\ Begin(a, n, s, CASE n = "checkout" -> "readSub"
                        [] n = "change"   -> "reread"
                        [] n = "unpaid"   -> "unpaid")
    /\ UNCHANGED <<stripeVars, rowVars, tierVars, events>>

Finish(a) ==
    /\ pc[a] = "finish"
    /\ mail' = [mail EXCEPT ![on[a]][op[a]] = @ - 1]
    /\ Drop(a)
    /\ UNCHANGED <<session, state, atEnd, rowVars, tierVars, events, histVars>>

(* getSubscription of a checkout, currentSubscription of a notice or of a  *)
(* refused request.                                                        *)
ReadSub(a) ==
    /\ pc[a] \in {"readSub", "reread"}
    /\ seen' = [seen EXCEPT ![a] = [state |-> state[on[a]], atEnd |-> on[a] \in atEnd]]
    /\ Goto(a, IF pc[a] = "readSub" THEN "findOthers" ELSE "apply")
    /\ UNCHANGED <<stripeVars, rowVars, tierVars, todo, target, events, histVars>>

(* enforceSingleActivePlatformPlan *)
FindOthers(a) ==
    /\ pc[a] = "findOthers"
    /\ todo' = [todo EXCEPT ![a] = {o \in Subs \ {on[a]} : Active(o)}]
    /\ Goto(a, "cancelOthers")
    /\ UNCHANGED <<stripeVars, rowVars, tierVars, seen, target, events, histVars>>

(* Stripe ends the other plan and its row follows; a plan Stripe will not  *)
(* end (it has ended) keeps its row.                                       *)
CancelOther(a, o) ==
    /\ pc[a] = "cancelOthers"
    /\ o \in todo[a]
    /\ IF state[o] \in Live
       THEN /\ state' = [state EXCEPT ![o] = "canceled"]
            /\ Notify(o, {"change"})
            /\ Goto(a, "rowOther")
            /\ target' = [target EXCEPT ![a] = o]
            /\ UNCHANGED todo
       ELSE /\ todo' = [todo EXCEPT ![a] = @ \ {o}]
            /\ UNCHANGED <<state, mail, pc, op, on, target>>
    /\ UNCHANGED <<session, atEnd, rowVars, tierVars, seen, events, histVars>>

(* The call fails for any other reason: the error is logged. *)
CancelOtherFails(a, o) ==
    /\ pc[a] = "cancelOthers"
    /\ o \in todo[a]
    /\ Event
    /\ todo' = [todo EXCEPT ![a] = @ \ {o}]
    /\ UNCHANGED <<stripeVars, rowVars, tierVars, pc, op, on, seen, target, histVars>>

RowOther(a) ==
    /\ pc[a] = "rowOther"
    /\ WriteRow(target[a], "CANCELLED", FALSE)
    /\ todo' = [todo EXCEPT ![a] = @ \ {target[a]}]
    /\ target' = [target EXCEPT ![a] = NoSub]
    /\ Goto(a, "cancelOthers")
    /\ UNCHANGED <<stripeVars, tierVars, seen, events, histVars>>

(* The upsert of a checkout, once the others are cancelled, and the update *)
(* of applyStripeSubscription, which finds no row before the checkout is   *)
(* recorded.  The index may refuse either: the handler throws.             *)
Upsert(a) ==
    LET s == on[a]
        st == MapStripeStatus(seen[a].state) IN
    /\ \/ pc[a] = "cancelOthers" /\ todo[a] = {}
       \/ pc[a] = "apply" /\ status[s] # "none"
    /\ IF IndexRefuses(s, st)
       THEN Drop(a) /\ UNCHANGED rowVars
       ELSE /\ WriteRow(s, st, seen[a].atEnd)
            /\ Goto(a, "tier")
            /\ UNCHANGED <<seen, todo, target>>
    /\ UNCHANGED <<stripeVars, tierVars, events, histVars>>

NoRow(a) ==
    /\ pc[a] \in {"apply", "unpaid"}
    /\ status[on[a]] = "none"
    /\ Done(a)
    /\ UNCHANGED <<stripeVars, rowVars, tierVars, events, histVars>>

(* invoice.payment_failed *)
MarkUnpaid(a) ==
    LET s == on[a] IN
    /\ pc[a] = "unpaid"
    /\ status[s] # "none"
    /\ WriteRow(s, "PAST_DUE", s \in cancelled)
    /\ misled' = (misled \/ state[s] # "past_due")
    /\ Goto(a, "tier")
    /\ UNCHANGED <<stripeVars, tierVars, seen, todo, target, events, dunned, overlapped>>

-----------------------------------------------------------------------------
(* The plan that gives the level: the index leaves at most one active. *)
Tier == IF \E s \in Subs : Active(s) THEN CHOOSE s \in Subs : Active(s) ELSE NoSub

(* The bug of never taking a level away. *)
ReadTierUpOnly(a) ==
    /\ pc[a] = "tier"
    /\ target' = [target EXCEPT ![a] = Tier]
    /\ Goto(a, IF Tier \in {level, NoSub} THEN "team" ELSE "level")
    /\ UNCHANGED <<stripeVars, rowVars, tierVars, seen, todo, events, histVars>>

(* syncUserTier reads the level and the rows; the level it decides is      *)
(* written later, when it is not the one read.                             *)
ReadTier(a) ==
    /\ pc[a] = "tier"
    /\ target' = [target EXCEPT ![a] = Tier]
    /\ Goto(a, IF level = Tier THEN "team" ELSE "level")
    /\ UNCHANGED <<stripeVars, rowVars, tierVars, seen, todo, events, histVars>>

WriteLevel(a) ==
    /\ pc[a] = "level"
    /\ level' = target[a]
    /\ Goto(a, "team")
    /\ UNCHANGED <<stripeVars, rowVars, team, seen, todo, target, events, histVars>>

(* followTeamPlan *)
ReadTeam(a) ==
    /\ pc[a] = "team"
    /\ target' = [target EXCEPT ![a] = level]
    /\ Goto(a, "members")
    /\ UNCHANGED <<stripeVars, rowVars, tierVars, seen, todo, events, histVars>>

MoveMembers(a) ==
    /\ pc[a] = "members"
    /\ team' = (target[a] \in TeamPlans)
    /\ Done(a)
    /\ UNCHANGED <<stripeVars, rowVars, level, events, histVars>>

(* The bug of a notice that counts as handled although its handler threw. *)
FailDropsNotice(a) ==
    /\ pc[a] # "idle"
    /\ Event
    /\ mail' = IF op[a] \in Notices THEN [mail EXCEPT ![on[a]][op[a]] = @ - 1] ELSE mail
    /\ Drop(a)
    /\ UNCHANGED <<session, state, atEnd, rowVars, tierVars, histVars>>

(* A call throws or the process dies: a notice stays to be handled again,  *)
(* a request is not repeated.                                              *)
Fail(a) ==
    /\ pc[a] # "idle"
    /\ Event
    /\ Drop(a)
    /\ UNCHANGED <<stripeVars, rowVars, tierVars, histVars>>

Work(a) ==
    \/ OpenSession(a) \/ AskStripe(a) \/ MarkRow(a) \/ Finish(a)
    \/ ReadSub(a) \/ FindOthers(a) \/ RowOther(a) \/ Upsert(a) \/ NoRow(a) \/ MarkUnpaid(a)
    \/ ReadTier(a) \/ WriteLevel(a) \/ ReadTeam(a) \/ MoveMembers(a)
    \/ \E o \in Subs : CancelOther(a, o)

Next ==
    \/ \E s \in Subs : Pay(s) \/ RenewalFails(s) \/ RenewalPaid(s) \/ End(s) \/ Portal(s)
    \/ \E a \in Actors, s \in Subs : CreateCheckout(a, s) \/ CancelPlan(a, s) \/ ResumePlan(a, s)
    \/ \E a \in Actors, s \in Subs, n \in Notices : Take(a, s, n)
    \/ \E a \in Actors : Work(a) \/ Fail(a)
    \/ \E a \in Actors, o \in Subs : CancelOtherFails(a, o)

Spec == Init /\ [][Next]_vars

-----------------------------------------------------------------------------
(* One active row at most, and of any two rows one is the newer. *)
RowsInOrder ==
    \A s, o \in Subs :
        /\ Active(s) /\ Active(o) => s = o
        /\ s # o /\ status[s] # "none" /\ status[o] # "none"
              => (<<s, o>> \in newer <=> <<o, s>> \notin newer)

TypeOK ==
    /\ session \in [Subs -> {"none", "open", "paid"}]
    /\ state \in [Subs -> {"none", "canceled"} \union Live]
    /\ atEnd \subseteq Subs
    /\ mail \in [Subs -> [Notices -> Nat]]
    /\ status \in [Subs -> {"none", "ACTIVE", "PAST_DUE", "CANCELLED"}]
    /\ cancelled \subseteq Subs
    /\ newer \subseteq Subs \X Subs
    /\ RowsInOrder
    /\ level \in Subs \union {NoSub}
    /\ team \in BOOLEAN
    /\ pc \in [Actors -> PCs]
    /\ op \in [Actors -> Notices \union {"none", "buy", "cancel", "resume"}]
    /\ on \in [Actors -> Subs \union {NoSub}]
    /\ todo \in [Actors -> SUBSET Subs]
    /\ target \in [Actors -> Subs \union {NoSub}]

Quiet ==
    /\ \A s \in Subs, n \in Notices : mail[s][n] = 0
    /\ \A a \in Actors : pc[a] = "idle"

(* Two checkouts at once, in any order of their notices and with a crash   *)
(* anywhere, never leave the Profile paying for two plans, as long as no   *)
(* renewal failed (a PAST_DUE row is not cancelled by the next checkout).  *)
BilledOnce ==
    Quiet /\ ~dunned => \A s, o \in Subs : state[s] \in Live /\ state[o] \in Live => s = o

(* When nothing is left to handle, the rows say what Stripe says, and the  *)
(* level and the team are those of the active row, whatever was retried or *)
(* came out of order: unless two actors overlapped, or the notice of a     *)
(* failed payment was handled after the subscription had moved on.         *)
QuietAgrees ==
    Quiet /\ ~overlapped /\ ~misled =>
        /\ \A s \in Subs : session[s] = "paid" =>
              /\ status[s] = MapStripeStatus(state[s])
              /\ state[s] \in Live => (s \in cancelled <=> s \in atEnd)
        /\ level = Tier
        /\ team = (level \in TeamPlans)

(* A row that shows a plan as active after Stripe ended it never stays so  *)
(* unnoticed: a notice of that change is still to be handled, also when    *)
(* the handler that ended the plan died before it wrote the row, or the    *)
(* index refused the checkout that follows.  Two actors that overlap may   *)
(* write what one of them read before.                                     *)
StaleRowHasNotice ==
    ~overlapped => \A s \in Subs : Active(s) /\ state[s] \notin Live => mail[s]["change"] > 0

(* enforceSingleActivePlatformPlan, "keep only the newly activated plan":  *)
(* what a checkout cancels at Stripe makes room for a plan that is live.   *)
MakesRoomForLive ==
    [][\A a \in Actors, o \in Subs : CancelOther(a, o) /\ state[o] \in Live
          => state[on[a]] \in Live]_vars
=============================================================================
