------------------------------- MODULE Outbox -------------------------------
(***************************************************************************)
(* The transactional outbox of the backend (outbox.service.ts).            *)
(*                                                                         *)
(* A business transaction commits a row of outbox_events together with its *)
(* own writes.  Publishers (the backend processes; each sweeps from a cron *)
(* and after a commit) read the rows to publish, claim each one with a     *)
(* compare-and-swap on (status, updatedAt), hand it to BullMQ and write    *)
(* the outcome.  Every database or queue call is an await, so the steps of *)
(* different publishers interleave between any two of them.                *)
(***************************************************************************)
EXTENDS Integers, FiniteSets

CONSTANTS
    Publishers,    \* backend processes: one OutboxService instance each
    Events,        \* ids of outbox rows
    NoEvent,       \* no event is being published; no job under an id
    JobIds,        \* ids of jobs in the queue
    JobId,         \* the id an event's job is added under: options.jobId, which
                   \* events may share (delete-<userId>), or outbox-<event id>
    DirectIds,     \* ids under which jobs are also added past the outbox
    DirectJob,     \* a job that was added so
    Lease,         \* OUTBOX_LEASE_DURATION_MS, in clock ticks
    MaxRetries,    \* OUTBOX_MAX_RETRIES
    BatchSize,     \* OUTBOX_BATCH_SIZE
    MaxClock,      \* bound: the clock stops here
    FaultHorizon,  \* bound: no fault happens after this time
    Budget         \* bound: commits, crashes and failed calls in one behaviour

ASSUME OutboxAssumption ==
    /\ IsFiniteSet(Events)
    /\ NoEvent \notin Events
    /\ DirectJob \notin Events \union {NoEvent}
    /\ JobId \in [Events -> JobIds]
    /\ DirectIds \subseteq JobIds
    /\ Lease \in Nat \ {0}
    /\ MaxRetries \in Nat \ {0}
    /\ BatchSize \in Nat \ {0}
    /\ MaxClock \in Nat
    /\ FaultHorizon \in Nat
    /\ Budget \in Nat
    /\ FaultHorizon + Lease <= MaxClock

VARIABLES
    now,         \* wall clock shared by the processes and the database
    status,      \* OutboxEvent.status, or "absent" before the commit
    updatedAt,   \* OutboxEvent.updatedAt
    retryCount,  \* OutboxEvent.retryCount
    createdAt,   \* OutboxEvent.createdAt, as the position in commit order
    pc,          \* where publishPendingEvents stands; "idle" = ~isSweeping
    sweepNow,    \* the sweep's constant `now`
    batch,       \* candidates the sweep's loop has still to visit
    seen,        \* the candidates as findMany returned them
    cur,         \* the event the loop body is publishing
    job,         \* whose job the queue holds under an id, at work or kept
    faults,      \* faults so far
    answer,      \* history: whose job stood under the event's id when the
                 \* queue last took or ignored an add of it
    claims,      \* history: claims won on the row
    takeovers,   \* history: claims won on a row whose lease had run out
    failures     \* history: publish attempts recorded as failed

rowVars  == <<status, updatedAt, retryCount, createdAt>>
pubVars  == <<pc, sweepNow, batch, seen, cur>>
jobVars  == <<job, answer>>
histVars == <<claims, takeovers, failures>>
vars     == <<now, rowVars, pubVars, jobVars, histVars, faults>>

Statuses == {"absent", "PENDING", "PROCESSING", "PUBLISHED", "FAILED"}
Row      == [status : Statuses, updatedAt : Nat, retryCount : Nat]
PCs      == {"idle", "find", "loop", "publish", "mark", "fail"}
NothingSeen ==
    [e \in Events |-> [status |-> "absent", updatedAt |-> 0, retryCount |-> 0]]
Committed == {e \in Events : status[e] # "absent"}

(* A call of publishPendingEvents is over: its locals are gone. *)
Return(p) ==
    /\ pc' = [pc EXCEPT ![p] = "idle"]
    /\ sweepNow' = [sweepNow EXCEPT ![p] = 0]
    /\ batch' = [batch EXCEPT ![p] = {}]
    /\ seen' = [seen EXCEPT ![p] = NothingSeen]
    /\ cur' = [cur EXCEPT ![p] = NoEvent]

Init ==
    /\ now = 0
    /\ status = [e \in Events |-> "absent"]
    /\ updatedAt = [e \in Events |-> 0]
    /\ retryCount = [e \in Events |-> 0]
    /\ createdAt = [e \in Events |-> 0]
    /\ pc = [p \in Publishers |-> "idle"]
    /\ sweepNow = [p \in Publishers |-> 0]
    /\ batch = [p \in Publishers |-> {}]
    /\ seen = [p \in Publishers |-> NothingSeen]
    /\ cur = [p \in Publishers |-> NoEvent]
    /\ job = [i \in JobIds |-> NoEvent]
    /\ faults = 0
    /\ answer = [e \in Events |-> NoEvent]
    /\ claims = [e \in Events |-> 0]
    /\ takeovers = [e \in Events |-> 0]
    /\ failures = [e \in Events |-> 0]

-----------------------------------------------------------------------------
(* The business transaction commits the row it enqueued.                   *)
Enqueue(e) ==
    /\ status[e] = "absent"
    /\ Cardinality(Committed) + faults < Budget
    /\ status' = [status EXCEPT ![e] = "PENDING"]
    /\ updatedAt' = [updatedAt EXCEPT ![e] = now]
    /\ createdAt' = [createdAt EXCEPT ![e] = Cardinality(Committed)]
    /\ UNCHANGED <<now, retryCount, pubVars, jobVars, histVars, faults>>

(* A sweep starts from the cron or from triggerImmediatePublish; isSweeping *)
(* keeps one process to one sweep.  `now` is read once for all of it.       *)
StartSweep(p) ==
    /\ pc[p] = "idle"
    /\ pc' = [pc EXCEPT ![p] = "find"]
    /\ sweepNow' = [sweepNow EXCEPT ![p] = now]
    /\ UNCHANGED <<now, rowVars, batch, seen, cur, jobVars, histVars, faults>>

Expired(p, e) ==
    status[e] = "PROCESSING" /\ updatedAt[e] <= sweepNow[p] - Lease

(* The bug of sweeping only what was never tried. *)
IsCandidateNoRecovery(p, e) == status[e] = "PENDING"

IsCandidate(p, e) == status[e] = "PENDING" \/ Expired(p, e)

(* The oldest `take` candidates. *)
Oldest(S) ==
    {e \in S : Cardinality({f \in S : createdAt[f] < createdAt[e]}) < BatchSize}

FindCandidates(p) ==
    LET found == Oldest({e \in Events : IsCandidate(p, e)}) IN
    /\ pc[p] = "find"
    /\ pc' = [pc EXCEPT ![p] = "loop"]
    /\ batch' = [batch EXCEPT ![p] = found]
    /\ seen' = [seen EXCEPT ![p] =
                  [e \in Events |-> IF e \in found
                                    THEN [status |-> status[e],
                                          updatedAt |-> updatedAt[e],
                                          retryCount |-> retryCount[e]]
                                    ELSE NothingSeen[e]]]
    /\ UNCHANGED <<now, rowVars, sweepNow, cur, jobVars, histVars, faults>>

(* The bug of claiming by id alone. *)
UnmovedById(p, e) == TRUE

Unmoved(p, e) ==
    /\ status[e] = seen[p][e].status
    /\ updatedAt[e] = seen[p][e].updatedAt

(* The for loop takes its candidates oldest first. *)
NextInBatch(p, e) ==
    /\ pc[p] = "loop"
    /\ e \in batch[p]
    /\ \A f \in batch[p] : createdAt[e] <= createdAt[f]
    /\ batch' = [batch EXCEPT ![p] = @ \ {e}]

(* The loop is done with an event: its copy is not read again. *)
Iterate(p, e) ==
    /\ seen' = [seen EXCEPT ![p][e] = NothingSeen[e]]
    /\ cur' = [cur EXCEPT ![p] = NoEvent]

(* The compare-and-swap takes the row; the lease it writes starts when the *)
(* sweep started, not when the row was claimed.                            *)
Claim(p, e) ==
    /\ NextInBatch(p, e)
    /\ Unmoved(p, e)
    /\ status' = [status EXCEPT ![e] = "PROCESSING"]
    /\ updatedAt' = [updatedAt EXCEPT ![e] = sweepNow[p]]
    /\ pc' = [pc EXCEPT ![p] = "publish"]
    /\ cur' = [cur EXCEPT ![p] = e]
    /\ claims' = [claims EXCEPT ![e] = @ + 1]
    /\ takeovers' = [takeovers EXCEPT ![e] = IF Expired(p, e) THEN @ + 1 ELSE @]
    /\ UNCHANGED <<now, retryCount, createdAt, sweepNow, seen, jobVars,
                   failures, faults>>

(* It counts no row: another publisher moved it, and the event is skipped. *)
Skip(p, e) ==
    /\ NextInBatch(p, e)
    /\ ~Unmoved(p, e)
    /\ Iterate(p, e)
    /\ UNCHANGED <<now, rowVars, pc, sweepNow, jobVars, histVars, faults>>

Fault ==
    /\ Cardinality(Committed) + faults < Budget
    /\ now <= FaultHorizon
    /\ faults' = faults + 1

(* queue.add: a job already held under the same id, at work or kept after  *)
(* it ended, makes it a no-op, and the caller is not told.                 *)
Accept(e) ==
    LET i == JobId[e]
        holder == IF job[i] = NoEvent THEN e ELSE job[i]
    IN  /\ job' = [job EXCEPT ![i] = holder]
        /\ answer' = [answer EXCEPT ![e] = holder]

(* The bug of not awaiting the queue before the row is marked. *)
AddNotAwaited(p) ==
    /\ pc[p] = "publish"
    /\ pc' = [pc EXCEPT ![p] = "mark"]
    /\ UNCHANGED <<now, rowVars, sweepNow, batch, seen, cur, jobVars, histVars,
                   faults>>

Add(p) ==
    /\ pc[p] = "publish"
    /\ Accept(cur[p])
    /\ pc' = [pc EXCEPT ![p] = "mark"]
    /\ UNCHANGED <<now, rowVars, sweepNow, batch, seen, cur, histVars, faults>>

(* queue.add throws, or the queue is not registered; when the connection   *)
(* drops before the answer the queue may have taken the job all the same.  *)
AddFails(p) ==
    /\ pc[p] = "publish"
    /\ Fault
    /\ Accept(cur[p]) \/ UNCHANGED jobVars
    /\ pc' = [pc EXCEPT ![p] = "fail"]
    /\ UNCHANGED <<now, rowVars, sweepNow, batch, seen, cur, histVars>>

(* The outcome is written by id alone: whoever claimed the row since then  *)
(* is not looked at.                                                       *)
MarkPublished(p) ==
    /\ pc[p] = "mark"
    /\ status' = [status EXCEPT ![cur[p]] = "PUBLISHED"]
    /\ updatedAt' = [updatedAt EXCEPT ![cur[p]] = now]
    /\ pc' = [pc EXCEPT ![p] = "loop"]
    /\ Iterate(p, cur[p])
    /\ UNCHANGED <<now, retryCount, createdAt, sweepNow, batch, jobVars, histVars,
                   faults>>

(* The update throws inside the same try: the event counts as not          *)
(* published although its job is in the queue.                             *)
MarkFails(p) ==
    /\ pc[p] = "mark"
    /\ Fault
    /\ pc' = [pc EXCEPT ![p] = "fail"]
    /\ \/ UNCHANGED rowVars
       \/ /\ status' = [status EXCEPT ![cur[p]] = "PUBLISHED"]
          /\ updatedAt' = [updatedAt EXCEPT ![cur[p]] = now]
          /\ UNCHANGED <<retryCount, createdAt>>
    /\ UNCHANGED <<now, sweepNow, batch, seen, cur, jobVars, histVars>>

(* The bugs of giving up one attempt early and one attempt late. *)
IsFinalEarly(n) == n >= MaxRetries - 1
IsFinalLate(n) == n > MaxRetries

IsFinalFailure(n) == n >= MaxRetries

NextRetry(p) == seen[p][cur[p]].retryCount + 1

RecordFailure(p) ==
    LET e == cur[p] IN
    /\ pc[p] = "fail"
    /\ status' = [status EXCEPT
          ![e] = IF IsFinalFailure(NextRetry(p)) THEN "FAILED" ELSE "PENDING"]
    /\ retryCount' = [retryCount EXCEPT ![e] = NextRetry(p)]
    /\ updatedAt' = [updatedAt EXCEPT ![e] = now]
    /\ failures' = [failures EXCEPT ![e] = @ + 1]
    /\ pc' = [pc EXCEPT ![p] = "loop"]
    /\ Iterate(p, e)
    /\ UNCHANGED <<now, createdAt, sweepNow, batch, jobVars, claims, takeovers,
                   faults>>

EndSweep(p) ==
    /\ pc[p] = "loop"
    /\ batch[p] = {}
    /\ Return(p)
    /\ UNCHANGED <<now, rowVars, jobVars, histVars, faults>>

(* A database call outside the inner try throws (findMany, the claim, the  *)
(* failure's own update): the sweep ends and the rest waits for the next.  *)
AbortSweep(p) ==
    /\ \/ pc[p] \in {"find", "fail"}
       \/ pc[p] = "loop" /\ batch[p] # {}
    /\ Fault
    /\ Return(p)
    /\ UNCHANGED <<now, rowVars, jobVars, histVars>>

(* The process dies between two steps and comes back with no sweep running. *)
Crash(p) ==
    /\ pc[p] # "idle"
    /\ Fault
    /\ Return(p)
    /\ UNCHANGED <<now, rowVars, jobVars, histVars>>

(* The nightly purge adds an account's erasure itself, under the id that   *)
(* the account's deletions use.                                            *)
AddDirectly(i) ==
    /\ i \in DirectIds
    /\ job[i] = NoEvent
    /\ job' = [job EXCEPT ![i] = DirectJob]
    /\ UNCHANGED <<now, rowVars, pubVars, answer, histVars, faults>>

(* External: a job leaves the queue, done (removeOnComplete), removed or   *)
(* evicted with age; one that failed may stay under its id for good.       *)
WorkJob(i) ==
    /\ job[i] # NoEvent
    /\ job' = [job EXCEPT ![i] = NoEvent]
    /\ UNCHANGED <<now, rowVars, pubVars, answer, histVars, faults>>

Tick ==
    /\ now < MaxClock
    /\ now' = now + 1
    /\ UNCHANGED <<rowVars, pubVars, jobVars, histVars, faults>>

(* What a publisher does when nothing fails. *)
Step(p) ==
    \/ StartSweep(p)
    \/ FindCandidates(p)
    \/ \E e \in Events : Claim(p, e) \/ Skip(p, e)
    \/ Add(p)
    \/ MarkPublished(p)
    \/ RecordFailure(p)
    \/ EndSweep(p)

Next ==
    \/ \E e \in Events : Enqueue(e)
    \/ \E i \in JobIds : AddDirectly(i) \/ WorkJob(i)
    \/ \E p \in Publishers : Step(p)
    \/ \E p \in Publishers : AddFails(p) \/ MarkFails(p)
    \/ \E p \in Publishers : AbortSweep(p) \/ Crash(p)
    \/ Tick

Spec == Init /\ [][Next]_vars

(* The cron fires every five seconds, awaited calls return or throw, and   *)
(* time passes.  Nothing forces a commit, a fault or a job.                *)
Fairness == WF_vars(Tick) /\ \A p \in Publishers : WF_vars(Step(p))

FairSpec == Spec /\ Fairness

-----------------------------------------------------------------------------
TypeOK ==
    /\ now \in Nat
    /\ status \in [Events -> Statuses]
    /\ updatedAt \in [Events -> Nat]
    /\ retryCount \in [Events -> 0..MaxRetries]
    /\ createdAt \in [Events -> Nat]
    /\ pc \in [Publishers -> PCs]
    /\ sweepNow \in [Publishers -> Nat]
    /\ batch \in [Publishers -> SUBSET Events]
    /\ seen \in [Publishers -> [Events -> Row]]
    /\ cur \in [Publishers -> Events \union {NoEvent}]
    /\ job \in [JobIds -> Events \union {NoEvent, DirectJob}]
    /\ faults \in Nat
    /\ answer \in [Events -> Events \union {NoEvent, DirectJob}]
    /\ claims \in [Events -> Nat]
    /\ takeovers \in [Events -> Nat]
    /\ failures \in [Events -> Nat]

Holds(p, e) == pc[p] \in {"publish", "mark", "fail"} /\ cur[p] = e

(* The job that answered for the event is a committed event's of the same  *)
(* id, or one added past the outbox.                                       *)
Answered(e) ==
    \/ answer[e] \in Committed /\ JobId[answer[e]] = JobId[e]
    \/ answer[e] = DirectJob /\ JobId[e] \in DirectIds

(* A row that says PUBLISHED was handed to the queue, whichever publisher  *)
(* wrote it and whatever crashed in between.  The queue holds one job per  *)
(* id, so a caller whose events share one (a second deletion of an         *)
(* account) is promised no more than a job under it: another committed     *)
(* event's, or one added past the outbox.                                  *)
PublishedWasQueued ==
    \A e \in Events : status[e] = "PUBLISHED" => Answered(e)

(* An event is given up only after MaxRetries attempts on it really        *)
(* failed: a publisher that counts from a stale row never counts too far.  *)
GivenUpOnlyAfterRetries ==
    \A e \in Events : status[e] = "FAILED" => failures[e] >= MaxRetries

(* The compare-and-swap gives out one claim per reason: a row is claimed   *)
(* once, plus once per failed attempt and once per expired lease.  With no *)
(* fault and no slow sweep an event is therefore handed over once.         *)
AttemptsAccounted ==
    \A e \in Events : claims[e] <= 1 + failures[e] + takeovers[e]

(* Two publishers work on one event at the same time only after a lease on *)
(* it has run out: the claim excludes every other overlap, whatever failed *)
(* or was retried before.                                                  *)
OverlapOnlyAfterExpiry ==
    \A e \in Events : \A p, q \in Publishers :
        p # q /\ Holds(p, e) /\ Holds(q, e) => takeovers[e] >= 1

(* In the end every committed event is PUBLISHED or FAILED for good,       *)
(* although a slow publisher may reopen one that was already published.    *)
EventuallySettled ==
    <>[](\A e \in Committed : status[e] \in {"PUBLISHED", "FAILED"})

Promise == INSTANCE EventHandoff WITH
    Ids <- JobIds,
    Id <- JobId,
    Limit <- MaxRetries,
    Nobody <- NoEvent,
    Outsider <- DirectJob,
    committed <- Committed,
    slot <- job,
    served <- answer,
    tried <- failures,
    closed <- {e \in Events : status[e] \in {"PUBLISHED", "FAILED"}}

(* The outbox implements what its callers rely on: leases, claims, stale   *)
(* copies and crashes show at most as another attempt, never as a job      *)
(* before the commit or as an event closed with no job under its id.       *)
ImplementsHandoff == Promise!Spec
=============================================================================
