---------------------------- MODULE WebhookInbox ----------------------------
(***************************************************************************)
(* The inbox of Stripe's webhook events (payments.service.ts):             *)
(* processWebhookEvent for each HTTP delivery, and the five-minute job     *)
(* that takes over rows whose worker died.                                 *)
(*                                                                         *)
(* A row of webhook_events is PENDING while a worker handles the event; its *)
(* updatedAt is the worker's lease.  A delivery creates the row, reclaims  *)
(* a FAILED one or one whose lease ran out, and otherwise answers 200 at   *)
(* once.  The job reclaims expired PENDING rows only.                      *)
(***************************************************************************)
EXTENDS Integers, FiniteSets

CONSTANTS
    Workers,       \* HTTP deliveries in progress at once
    Reconcilers,   \* runs of reconcileStuckWebhookEvents in progress at once
    Events,        \* Stripe's event ids (externalId)
    NoEvent,
    Lease,         \* WEBHOOK_LEASE_DURATION_MS, in clock ticks
    MaxClock,      \* bound: the clock stops here
    FaultHorizon,  \* bound: no fault happens after this time
    MaxFaults      \* bound: crashes, failed calls and failed handlers

ASSUME InboxAssumption ==
    /\ Workers \intersect Reconcilers = {}
    /\ NoEvent \notin Events
    /\ Lease \in Nat \ {0}
    /\ MaxClock \in Nat
    /\ FaultHorizon \in Nat
    /\ MaxFaults \in Nat
    /\ FaultHorizon + Lease <= MaxClock

Procs == Workers \union Reconcilers

VARIABLES
    now,        \* wall clock of the processes and the database
    status,     \* WebhookEvent.status, or "absent"
    updatedAt,  \* WebhookEvent.updatedAt
    pc,         \* where a delivery or a run of the job stands
    ev,         \* the event it is about
    leaseNow,   \* the clock reading its lease cutoff is computed from
    batch,      \* stuck events a run of the job has still to visit
    sent,       \* events Stripe has to deliver
    acked,      \* events Stripe was answered 200 for
    faults,     \* faults so far
    claims,     \* history: times the event was claimed for handling
    takeovers,  \* history: claims won on an expired lease
    failures,   \* history: times the row was written FAILED
    applied     \* history: times the handler's writes were committed

rowVars    == <<status, updatedAt>>
procVars   == <<pc, ev, leaseNow, batch>>
stripeVars == <<sent, acked>>
histVars   == <<claims, takeovers, failures, applied>>
vars       == <<now, rowVars, procVars, stripeVars, faults, histVars>>

Statuses == {"absent", "PENDING", "PROCESSED", "FAILED"}
PCs == {"idle", "find", "create", "raced", "claimExpired", "claimFailed",
        "dispatch", "mark", "markFailed", "rfind", "rloop"}

Init ==
    /\ now = 0
    /\ status = [e \in Events |-> "absent"]
    /\ updatedAt = [e \in Events |-> 0]
    /\ pc = [w \in Procs |-> "idle"]
    /\ ev = [w \in Procs |-> NoEvent]
    /\ leaseNow = [w \in Procs |-> 0]
    /\ batch = [w \in Procs |-> {}]
    /\ sent = {}
    /\ acked = {}
    /\ faults = 0
    /\ claims = [e \in Events |-> 0]
    /\ takeovers = [e \in Events |-> 0]
    /\ failures = [e \in Events |-> 0]
    /\ applied = [e \in Events |-> 0]

-----------------------------------------------------------------------------
(* External: Stripe has an event and delivers it, again and again until it *)
(* is answered 200, several deliveries at a time when one is slow, and now *)
(* and then once more after that.                                          *)
Emit(e) ==
    /\ e \notin sent
    /\ sent' = sent \union {e}
    /\ UNCHANGED <<now, rowVars, procVars, acked, faults, histVars>>

(* The bug of answering Stripe before the event is recorded. *)
DeliverAnsweredFirst(w, e) ==
    /\ e \in sent
    /\ pc[w] = "idle"
    /\ pc' = [pc EXCEPT ![w] = "find"]
    /\ ev' = [ev EXCEPT ![w] = e]
    /\ acked' = acked \union {e}
    /\ UNCHANGED <<now, rowVars, leaseNow, batch, sent, faults, histVars>>

Deliver(w, e) ==
    /\ e \in sent
    /\ pc[w] = "idle"
    /\ pc' = [pc EXCEPT ![w] = "find"]
    /\ ev' = [ev EXCEPT ![w] = e]
    /\ UNCHANGED <<now, rowVars, leaseNow, batch, stripeVars, faults, histVars>>

Goto(w, l) == pc' = [pc EXCEPT ![w] = l]

Forget(w) ==
    /\ Goto(w, "idle")
    /\ ev' = [ev EXCEPT ![w] = NoEvent]
    /\ leaseNow' = [leaseNow EXCEPT ![w] = 0]
    /\ batch' = [batch EXCEPT ![w] = {}]

(* The handler of the delivery returns: the controller answers 200. *)
Answer(w) ==
    /\ Forget(w)
    /\ acked' = acked \union {ev[w]}
    /\ UNCHANGED sent

(* The bug of taking any PENDING row for an abandoned one. *)
LeaseHeldNever(w, t) == FALSE

LeaseHeld(w, t) == updatedAt[ev[w]] > t - Lease

(* What the status read calls for, with t the clock the cutoff is from. *)
Route(w, t) ==
    LET e == ev[w] IN
    \/ /\ \/ status[e] = "PROCESSED"
          \/ status[e] = "PENDING" /\ LeaseHeld(w, t)
       /\ Answer(w)
    \/ /\ status[e] = "PENDING" /\ ~LeaseHeld(w, t)
       /\ Goto(w, "claimExpired")
       /\ leaseNow' = [leaseNow EXCEPT ![w] = t]
       /\ UNCHANGED <<ev, batch, stripeVars>>
    \/ /\ status[e] = "FAILED"
       /\ Goto(w, "claimFailed")
       /\ leaseNow' = [leaseNow EXCEPT ![w] = t]
       /\ UNCHANGED <<ev, batch, stripeVars>>

FindRow(w) ==
    /\ pc[w] = "find"
    /\ IF status[ev[w]] = "absent"
       THEN /\ Goto(w, "create")
            /\ leaseNow' = [leaseNow EXCEPT ![w] = now]
            /\ UNCHANGED <<ev, batch, stripeVars>>
       ELSE Route(w, now)
    /\ UNCHANGED <<now, rowVars, faults, histVars>>

(* The row was left by a worker whose lease, seen from w's clock, is over. *)
Expired(w, e) == status[e] = "PENDING" /\ updatedAt[e] <= leaseNow[w] - Lease

Claimed(w, e) ==
    /\ Goto(w, "dispatch")
    /\ claims' = [claims EXCEPT ![e] = @ + 1]
    /\ takeovers' = [takeovers EXCEPT ![e] = IF Expired(w, e) THEN @ + 1 ELSE @]
    /\ UNCHANGED <<failures, applied>>

(* The row is created, or the unique externalId refuses a second one. *)
CreateRow(w) ==
    LET e == ev[w] IN
    /\ pc[w] = "create"
    /\ \/ /\ status[e] = "absent"
          /\ status' = [status EXCEPT ![e] = "PENDING"]
          /\ updatedAt' = [updatedAt EXCEPT ![e] = now]
          /\ Claimed(w, e)
       \/ /\ status[e] # "absent"
          /\ Goto(w, "raced")
          /\ UNCHANGED <<rowVars, histVars>>
    /\ UNCHANGED <<now, ev, leaseNow, batch, stripeVars, faults>>

FindRaced(w) ==
    /\ pc[w] = "raced"
    /\ Route(w, leaseNow[w])
    /\ UNCHANGED <<now, rowVars, faults, histVars>>

(* updateMany on an expired PENDING row: no row counted means the delivery *)
(* lost the race and answers 200.                                          *)
ClaimExpired(w) ==
    LET e == ev[w] IN
    /\ pc[w] = "claimExpired"
    /\ \/ /\ status[e] = "PENDING" /\ ~LeaseHeld(w, leaseNow[w])
          /\ updatedAt' = [updatedAt EXCEPT ![e] = leaseNow[w]]
          /\ Claimed(w, e)
          /\ UNCHANGED <<status, ev, leaseNow, batch, stripeVars>>
       \/ /\ status[e] # "PENDING" \/ LeaseHeld(w, leaseNow[w])
          /\ Answer(w)
          /\ UNCHANGED <<rowVars, histVars>>
    /\ UNCHANGED <<now, faults>>

(* The bug of reclaiming by id, whatever the row says by now. *)
StillFailedById(e) == TRUE

StillFailed(e) == status[e] = "FAILED"

ClaimFailed(w) ==
    LET e == ev[w] IN
    /\ pc[w] = "claimFailed"
    /\ \/ /\ StillFailed(e)
          /\ status' = [status EXCEPT ![e] = "PENDING"]
          /\ updatedAt' = [updatedAt EXCEPT ![e] = leaseNow[w]]
          /\ Claimed(w, e)
          /\ UNCHANGED <<ev, leaseNow, batch, stripeVars>>
       \/ /\ ~StillFailed(e)
          /\ Answer(w)
          /\ UNCHANGED <<rowVars, histVars>>
    /\ UNCHANGED <<now, faults>>

-----------------------------------------------------------------------------
(* reconcileStuckWebhookEvents: the cutoff is computed once, the rows read, *)
(* and each one claimed with its own clock reading.                         *)
StartRun(r) ==
    /\ pc[r] = "idle"
    /\ Goto(r, "rfind")
    /\ leaseNow' = [leaseNow EXCEPT ![r] = now]
    /\ UNCHANGED <<now, rowVars, ev, batch, stripeVars, faults, histVars>>

(* The bug of a job that never looks for stuck rows. *)
StuckNone(r) == {}

Stuck(r) == {e \in Events : Expired(r, e)}

FindStuck(r) ==
    /\ pc[r] = "rfind"
    /\ Goto(r, "rloop")
    /\ batch' = [batch EXCEPT ![r] = Stuck(r)]
    /\ UNCHANGED <<now, rowVars, ev, leaseNow, stripeVars, faults, histVars>>

ClaimStuck(r, e) ==
    /\ pc[r] = "rloop"
    /\ e \in batch[r]
    /\ batch' = [batch EXCEPT ![r] = @ \ {e}]
    /\ \/ /\ e \in Stuck(r)
          /\ ev' = [ev EXCEPT ![r] = e]
          /\ updatedAt' = [updatedAt EXCEPT ![e] = now]
          /\ Claimed(r, e)
       \/ /\ e \notin Stuck(r)
          /\ UNCHANGED <<updatedAt, ev, pc, histVars>>
    /\ UNCHANGED <<now, status, leaseNow, stripeVars, faults>>

EndRun(r) ==
    /\ pc[r] = "rloop"
    /\ batch[r] = {}
    /\ Forget(r)
    /\ UNCHANGED <<now, rowVars, stripeVars, faults, histVars>>

-----------------------------------------------------------------------------
Fault ==
    /\ faults < MaxFaults
    /\ now <= FaultHorizon
    /\ faults' = faults + 1

(* The bug of not awaiting the handler. *)
DispatchNotAwaited(w) ==
    /\ pc[w] = "dispatch"
    /\ Goto(w, "mark")
    /\ UNCHANGED <<now, rowVars, ev, leaseNow, batch, stripeVars, faults, histVars>>

(* dispatchStripeEvent completes: its handler's writes are committed. *)
Dispatch(w) ==
    /\ pc[w] = "dispatch"
    /\ applied' = [applied EXCEPT ![ev[w]] = @ + 1]
    /\ Goto(w, "mark")
    /\ UNCHANGED <<now, rowVars, ev, leaseNow, batch, stripeVars, faults,
                   claims, takeovers, failures>>

(* It throws, before or after what it committed. *)
DispatchThrows(w) ==
    /\ pc[w] = "dispatch"
    /\ Fault
    /\ applied' \in {applied, [applied EXCEPT ![ev[w]] = @ + 1]}
    /\ Goto(w, "markFailed")
    /\ UNCHANGED <<now, rowVars, ev, leaseNow, batch, stripeVars,
                   claims, takeovers, failures>>

(* The job goes on with its batch; a delivery answers. *)
Finish(w) ==
    IF w \in Workers
    THEN Answer(w)
    ELSE /\ Goto(w, "rloop")
         /\ ev' = [ev EXCEPT ![w] = NoEvent]
         /\ UNCHANGED <<leaseNow, batch, stripeVars>>

(* The bug of a delivery that swallows the error as the job does. *)
GiveUpAlike(w) ==
    /\ Goto(w, "rloop")
    /\ ev' = [ev EXCEPT ![w] = NoEvent]
    /\ UNCHANGED <<leaseNow, batch, stripeVars>>

(* A delivery rethrows and the controller answers 500; the job goes on. *)
GiveUp(w) ==
    /\ IF w \in Workers
       THEN Forget(w)
       ELSE /\ Goto(w, "rloop")
            /\ ev' = [ev EXCEPT ![w] = NoEvent]
            /\ UNCHANGED <<leaseNow, batch>>
    /\ UNCHANGED stripeVars

(* The outcome is written by id: the status is not looked at. *)
MarkProcessed(w) ==
    /\ pc[w] = "mark"
    /\ status' = [status EXCEPT ![ev[w]] = "PROCESSED"]
    /\ updatedAt' = [updatedAt EXCEPT ![ev[w]] = now]
    /\ Finish(w)
    /\ UNCHANGED <<now, faults, histVars>>

MarkThrows(w) ==
    /\ pc[w] = "mark"
    /\ Fault
    /\ \/ UNCHANGED rowVars
       \/ /\ status' = [status EXCEPT ![ev[w]] = "PROCESSED"]
          /\ updatedAt' = [updatedAt EXCEPT ![ev[w]] = now]
    /\ Goto(w, "markFailed")
    /\ UNCHANGED <<now, ev, leaseNow, batch, stripeVars, histVars>>

MarkFailed(w) ==
    /\ pc[w] = "markFailed"
    /\ status' = [status EXCEPT ![ev[w]] = "FAILED"]
    /\ updatedAt' = [updatedAt EXCEPT ![ev[w]] = now]
    /\ failures' = [failures EXCEPT ![ev[w]] = @ + 1]
    /\ GiveUp(w)
    /\ UNCHANGED <<now, faults, claims, takeovers, applied>>

(* Its own failure is swallowed: the row stays as it was. *)
MarkFailedThrows(w) ==
    /\ pc[w] = "markFailed"
    /\ Fault
    /\ GiveUp(w)
    /\ UNCHANGED <<now, rowVars, histVars>>

(* The process dies, or a call before the handler throws: nothing more is  *)
(* written and a delivery is not answered 200.                             *)
Crash(w) ==
    /\ pc[w] # "idle"
    /\ Fault
    /\ Forget(w)
    /\ UNCHANGED <<now, rowVars, stripeVars, histVars>>

Tick ==
    /\ now < MaxClock
    /\ now' = now + 1
    /\ UNCHANGED <<rowVars, procVars, stripeVars, faults, histVars>>

Handle(w) == Dispatch(w) \/ MarkProcessed(w) \/ MarkFailed(w)

WorkerStep(w) ==
    \/ FindRow(w) \/ CreateRow(w) \/ FindRaced(w)
    \/ ClaimExpired(w) \/ ClaimFailed(w)
    \/ Handle(w)

ReconcilerStep(r) ==
    \/ StartRun(r) \/ FindStuck(r) \/ EndRun(r)
    \/ \E e \in Events : ClaimStuck(r, e)
    \/ Handle(r)

Next ==
    \/ \E e \in Events : Emit(e)
    \/ \E w \in Workers : \E e \in Events : Deliver(w, e)
    \/ \E w \in Workers : WorkerStep(w)
    \/ \E r \in Reconcilers : ReconcilerStep(r)
    \/ \E w \in Procs : DispatchThrows(w) \/ MarkThrows(w)
    \/ \E w \in Procs : MarkFailedThrows(w) \/ Crash(w)
    \/ Tick

Spec == Init /\ [][Next]_vars

(* Awaited calls return, the job is scheduled every five minutes, time     *)
(* passes, and Stripe delivers again while it has no 200.                  *)
Redeliver(e) == \E w \in Workers : e \notin acked /\ Deliver(w, e)

Fairness ==
    /\ WF_vars(Tick)
    /\ \A w \in Workers : WF_vars(WorkerStep(w))
    /\ \A r \in Reconcilers : WF_vars(ReconcilerStep(r))
    /\ \A e \in Events : SF_vars(Redeliver(e))

FairSpec == Spec /\ Fairness

-----------------------------------------------------------------------------
TypeOK ==
    /\ now \in Nat
    /\ status \in [Events -> Statuses]
    /\ updatedAt \in [Events -> Nat]
    /\ pc \in [Procs -> PCs]
    /\ ev \in [Procs -> Events \union {NoEvent}]
    /\ leaseNow \in [Procs -> Nat]
    /\ batch \in [Procs -> SUBSET Events]
    /\ \A w \in Procs : pc[w] \in {"rfind", "rloop"} => w \in Reconcilers
    /\ \A w \in Procs : pc[w] \notin {"idle", "rfind", "rloop"} => ev[w] \in sent
    /\ \A e \in Events : status[e] # "absent" => e \in sent
    /\ acked \subseteq sent
    /\ sent \subseteq Events
    /\ faults \in Nat
    /\ claims \in [Events -> Nat]
    /\ takeovers \in [Events -> Nat]
    /\ failures \in [Events -> Nat]
    /\ applied \in [Events -> Nat]

Handling(w, e) == pc[w] \in {"dispatch", "mark", "markFailed"} /\ ev[w] = e

(* An event is skipped as PROCESSED only if its handler ran to its end,    *)
(* whichever worker wrote the row last.                                    *)
ProcessedWasApplied ==
    \A e \in Events : status[e] = "PROCESSED" => applied[e] >= 1

(* Duplicate delivery protection: the handler is started once per event,   *)
(* plus once per recorded failure and once per expired lease, however many *)
(* deliveries arrive together.                                             *)
ClaimsAccounted ==
    \A e \in Events : claims[e] <= 1 + failures[e] + takeovers[e]

(* Two workers run one event's handler at the same time only after the     *)
(* lease of one of them ran out.                                           *)
OneHandlerPerLease ==
    \A e \in Events : \A v, w \in Procs :
        v # w /\ Handling(v, e) /\ Handling(w, e) => takeovers[e] >= 1

(* Stripe hears 200 only for an event that is recorded: what it will not   *)
(* send again is in the table.                                             *)
AckedIsRecorded == \A e \in acked : status[e] # "absent"

(* A stuck PENDING event is always settled, by its worker, by a later      *)
(* delivery or by the job.                                                 *)
StuckIsSettled ==
    \A e \in Events : status[e] = "PENDING" ~> status[e] \in {"PROCESSED", "FAILED"}
=============================================================================
