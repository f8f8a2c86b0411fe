# CircleSfera in TLA+

CircleSfera is a social network: a NestJS backend over PostgreSQL (Prisma),
Redis and BullMQ, a React client, and a package of shared types. This directory
holds TLA+ models of the parts where several processes, queues, sockets and
outside services act on the same state, the TLC configurations that check them,
and proofs checked by TLAPS.

Paths below are relative to `circlesfera-backend/src/` unless they start with
`docs/`, `prisma/` or `circlesfera-frontend/`. `PROJECT.json` gives, for each definition, the lines of
the source it models.

## 1. Inventory

### How the backend works

HTTP requests run in several identical processes. Whatever must happen later is
a BullMQ job. Jobs that must not be lost are first written to the table
`outbox_events` in the transaction that needs them (ADR-0006, ADR-0021), and a
sweep in each process moves them to BullMQ. Stripe tells the backend what
happened to a payment through webhooks, which are recorded in `webhook_events`
and then dispatched to the payment handlers. Crons repair what was left half
done. Calls between two people go over sockets, with their state in the memory
of the process that holds the gateway. Between two awaits anything else may run,
and a process may die.

| Component | State | Operations | Talks to | What is hard | What makes it correct |
|---|---|---|---|---|---|
| Transactional outbox (`outbox/`) | `OutboxEvent` rows, `isSweeping` | `enqueue`, `publishPendingEvents` from cron and after a commit | every service that queues a critical job; BullMQ | two sweeps on one row, leases, a crash between `queue.add` and the mark | whatever is marked published was answered by a job under its id; claims exclude; every row settles |
| Stripe webhook inbox (`payments/payments.service.ts`) | `WebhookEvent` rows | `processWebhookEvent`, `reconcileStuckWebhookEvents` | Stripe; the payment handlers | duplicate and concurrent deliveries, handlers that outlive their lease | nothing answered 200 is lost; one handler per lease |
| Creator payments (`monetization/monetization-webhook.service.ts`) | `Transaction`, unlocks, `Promotion`, `PaymentDispute` | handlers of checkout, refund and dispute notices | the inbox; Stripe | notices out of order, each handler several awaits long, retries | the books never claim what Stripe did not do |
| Account erasure (`users/`) | the `User` row, the jobs `delete-<id>` and `delete-now-<id>` | `scheduleDeletion`, `eraseNow`, `cancelScheduledDeletion`, hard-delete job, nightly purge | the outbox; login; staff actions; Stripe | delayed jobs that outlive their reason, restore racing the delete | a restored account is kept; a deletion is not lost; the grace window |
| Platform subscriptions (`payments/`, `team/`) | `PlatformSubscription` rows, `Profile.verificationLevel`, team members | checkout, cancel, resume, mirror of Stripe's notices, `syncUserTier`, `followTeamPlan` | the inbox; Stripe | two checkouts at once, notices late, retried or out of order | one plan is paid for; the rows, the level and the team agree with Stripe in the end |
| Sessions and refresh tokens (`auth/`) | refresh tokens, their families | login, rotation with a reuse window, logout | Redis, `User` | two rotations at once, a replay in the window | a revoked family stays revoked |
| Content and its files (`posts/`, `edits/`, `recently-deleted/`, `uploads/`, `appeals/`, `maintenance/`) | posts and drafts, `StoredFile` rows, files in storage, `Appeal` rows | save, delete, restore, remove, appeal, erase; nightly erasures, sweep of detached files, orphan scan, cleanup jobs | storage; the cleanup queue | files deleted outside the transaction that erases their row, a file named by two rows, jobs that act on what they read before | what is kept has its files; nothing is erased before its time or stored for ever |
| Live streams and gifts (`live/`) | `LiveStream`, participants, gifts | start, join, co-host, gift, end | sockets, Stripe | end racing join and gift | a gift belongs to a stream that ran |
| Calls (`webrtc/`, `socket/`, the client's call store and WebRTC service) | `sessions` and `userCalls` in memory; status, connection and streams of each client | invite, accept, decline, signal, hang up, disconnect, expiry; the client's set-up | sockets; Prisma for the checks | the busy check before awaits, messages that cross, lost sockets, a set-up that goes on after the call | nobody is busy without a call; no active call that was not accepted |
| Scheduled posts and stories (`posts/`, `stories/`) | rows with a publication time | schedule, publish by cron, expire | feed, notifications | two crons publish one post | published once |
| Feed (`feed/`) | inbox lists in Redis | fan-out jobs, read with fallback | follows, posts | an unfollow racing a fan-out | no post of a blocked author |
| Moderation (`strikes/`, `reports/`) | strikes, suspensions | strike, expire, revoke on appeal | the `User` row | two decisions on one row | a reversed strike has no effect left |
| Chat, notifications, search, studio, maintenance, configuration, client | single-row writes or views | | | little | |

`PROJECT.json` lists each of the 31 components with its status and, for those
not modelled, the reason.

### Hazards

The list in `PROJECT.json` names, at its line, each thing that is hard to test
in the modelled code and the properties that watch it. The main families are:

* outcomes written by id alone, after a lease may have run out (outbox, inbox);
* a clock reading taken once and used for a whole batch (outbox);
* a check on a row, awaits, and then a write that does not repeat the check
  (refund totals, the mirror of a dispute, restore of an account);
* two writes that belong together and are not one transaction (refund and
  revocation of the unlock; handler and PROCESSED mark);
* jobs under one deterministic id that are dropped, kept as failed or removed
  on behalf of an earlier or a later deletion;
* effects outside the database (Stripe, the storage, the camera) made before or
  after the write that accounts for them.

## 2. Modules

| Module | Models | Proofs |
|---|---|---|
| `EventHandoff` | what the outbox promises to whoever commits an event | |
| `Outbox` | `OutboxService`, shown to implement `EventHandoff` | `OutboxProofs` |
| `WebhookInbox` | the inbox of Stripe's events | `WebhookInboxProofs` |
| `PaymentBooks` | what the books promise about a payment | |
| `CreatorPayments` | the handlers of one-time payments, shown to implement `PaymentBooks` | `CreatorPaymentsProofs` |
| `AccountErasure` | deletion, restore and erasure of an account | `AccountErasureProofs` |
| `PlatformPlan` | the paid plan of a Profile, its level and its team | `PlatformPlanProofs` |
| `ContentFiles` | posts, drafts and their files, from upload to erasure | `ContentFilesProofs` |
| `Calls` | audio and video calls, server and clients | `CallsProofs` |

`MC<module>` extends a module and adds its symmetry sets for TLC, if any.
Operators whose comment begins "The bug of" are the mutated forms of the next
definition that the mutants in `PROJECT.json` use; no specification uses them.

### Outbox

A row is `status`, `updatedAt`, `retryCount` and `createdAt`; `createdAt` is the
position in commit order. A publisher is one process. Its program counter walks
through `publishPendingEvents`: `StartSweep` reads the clock once,
`FindCandidates` is the `findMany` (PENDING rows and PROCESSING rows whose lease
ran out, the oldest `BatchSize`), `Claim` and `Skip` are the two results of the
`updateMany` that compares status and `updatedAt` with the row as it was read,
`Add` is `queue.add`, `MarkPublished` and `RecordFailure` are the writes by id.
`AddFails`, `MarkFails` and `AbortSweep` are the calls that throw: a call that
throws may have had its effect. `Crash` ends a sweep anywhere.

Jobs are keyed by their id (`JobId`), not by their event: `enqueue` takes the
caller's `jobId`, and all deletions of a user go under `delete-<userId>`
(`users/users.service.ts:894`). The nightly purge adds under that id as well, past
the outbox (`AddDirectly`). BullMQ is external: an add under an id that the queue
holds is a no-op the caller is not told of; a job leaves the queue when it is done,
removed or evicted (`WorkJob`), and one that failed may stay under its id for good.
So a row can be PUBLISHED with no job of its own, and what is checked is that a job
of a committed event with that id, or one added past the outbox, stood there
when the queue answered. Where an id is nobody else's that job is the event's
own (`OwnIdOwnJob`). What becomes of a second deletion is the subject of
`AccountErasure`.

History variables say which job answered the last add of an event and count claims,
claims on an expired lease and recorded failures; nothing in the behaviour depends
on them.

`EventHandoff` is the abstract specification: a slot per job id holds a job or
nothing. An event is committed, then handed over any number of times: it takes its
slot if that is free, and is served by the job that stands there if it is not. It is
closed only after a hand-off or after `Limit` failed attempts. A failed attempt of a
publisher whose lease ran out may open a closed event again, which is then handed
over once more.
`Promise == INSTANCE EventHandoff WITH ...` maps the rows to its state.

### WebhookInbox

A delivery (`Workers`) runs `processWebhookEvent`: `FindRow`, then `CreateRow`,
or `ClaimExpired`, or `ClaimFailed`, or the answer 200 at once; a create that
loses on the unique index goes to `FindRaced`. `Dispatch` is the handler as one
step that may throw, `MarkProcessed` and `MarkFailed` are the writes by id. A
run of the job (`Reconcilers`) finds expired PENDING rows and claims each with a
condition on the row. `FindRow` joins the read of the row and the clock reading
right after it. Stripe is external: it delivers until it is answered 200, may
deliver twice at once, and may deliver again after a 200.

### CreatorPayments

`WebhookInbox` says when a handler runs; `CreatorPayments` says what it does. A
worker takes a notice nobody else is handling and walks through its handler one
await at a time; `Fail` drops the handler anywhere and leaves the notice to be
handled again from the start, which is what a crash or a throw does through the
inbox. Stripe's side (checkout, total refunded, dispute) is external and makes a
notice at each change. Recording a payment is one transaction and one step.

* One payment is enough for the runs: handlers of different payments share no
  row. `kind` is the type in the checkout's metadata. A post or story unlock
  is one kind, `UNLOCK`; tips differ from it in unlocking nothing.
* An unlock is keyed by its payment. In the code it belongs to buyer and content;
  a second payment for content that is already unlocked is not modelled.
* `inOrder` is chosen at the start: TRUE, a notice is taken only when no earlier
  one of its payment waits; FALSE, in any order. `QuietAgreesWithStripe` speaks of
  the first kind of behaviour.
* A promotion is `PENDING` until it is paid, `ACTIVE` (or paused), `FAILED` when its
  checkout expired, and `ENDED` when it was cancelled, rejected or used up, which
  happens elsewhere (`EndPromotion`); staff may approve it at any time, and its owner's
  pause or resume is written over the row it read (`RestartPromotion`). The refund that
  goes with an end is a refund at Stripe like any other.
* Gifts in live streams, Connect accounts and payouts are left out.

`PaymentBooks` is the abstract specification: no notices, no handlers, only what
Stripe did with a payment, its entry in the books, and whether the purchase is open. An
entry is withheld only if a dispute was opened, earned again only if it was won,
REFUNDED only if the buyer has the money back; the purchase opens with the entry and
shuts only after REFUNDED. It does not promise that a purchase shuts or that an entry
follows Stripe: `payments_refund_revokes` shows that the first can fail, and a notice
that finds no payment yet changes nothing. `Books == INSTANCE PaymentBooks WITH ...`
maps the model to it: an inquiry is no dispute yet, and a partial refund returns nothing.

### AccountErasure

One account: its row, the rows it has in the outbox, its two jobs in the queue,
and everybody who touches them. A session of the person is a request in
progress (schedule, deactivate, cancel, login) whose reads and writes are
separate steps. `StartJob` to `FinishJob` are the phases of `hardDeleteUser`,
with the awaits on Stripe and on the listeners between the check and the delete.
`CronFind` to `CronAdd` are `cleanExpiredAccounts`. Staff ban, unban, suspend,
restore and erase. The outbox is used through what `Outbox` shows of it: a row
is published at least once, or given up.

* `AddJob` keeps a delayed job's time within `MaxClock`, where the clock stops.
* Automatic lifting of suspensions and successful appeals write what
  `RestoreUser` writes and are not separate actions.
* The subscriptions at Stripe and the files are not part of the state; the
  steps that handle them are, because time passes in them.
* `POST /users/me/restore` is behind the guard that refuses an inactive account
  (`users/users.controller.ts:138`, `auth/strategies/jwt.strategy.ts`), so its
  `CancelRead` starts only from an active account and the restore that people
  really use is the one at login. The request can still pass the guard before a
  deletion and run after it, which the model includes.

### PlatformPlan

One Profile and the subscriptions it may have at Stripe. An actor is a request
(checkout, cancel, resume) or the handler of a notice; it takes one step per
await. `ReadSub` is the fresh read of the subscription, `FindOthers` to
`RowOther` are `enforceSingleActivePlatformPlan`, `Upsert` writes the row and may
be refused by the partial unique index, `ReadTier` to `MoveMembers` are
`syncUserTier` and `followTeamPlan`. `Fail` drops an actor anywhere; a notice then
stays to be handled again, as `WebhookInbox` shows. Stripe is external: payment
of a checkout, failed and paid renewals, the end of a subscription, the billing
portal.

* A level is named by the plan that gives it, so two plans never give the same.
* `newer` is the order by `updatedAt`, as pairs of a row and an older one; it
  decides which plan a request means. Equal times are left out.
* Periods have no clock: the check of `currentPeriodEnd` in `resumePlan` (`:516`)
  is left out, and the end of a period is `End`.
* TRIALING is treated by the code as ACTIVE and is not a state of its own.

### ContentFiles

A row is a post or a draft and the files it names. A transaction that only
touches the database is one step; the erasures of content hold their row
(`lock`) and take one step per file, because the bytes and the record of a file
are deleted outside the transaction and are not rolled back. `Pick` is the
nightly page read, or the author's request, before the lock; `Hold` is the lock
and the checks repeated under it (`Still`); `LookUp`, `DeleteFile`, `ForgetFile`
and `EraseRow` follow. `ReadPage` to `EndSweep` are the erasure of detached files,
`ScanOrphans` and `ScheduleDeletion` the orphan scan, `CleanUp` its job. `TimesOut`
frees the row while the files still go; `EraseFails`, `SweepDies`,
`EraseBytesFails` and `CleanUpGivesUp` are the other failures.

* One author. A file of another Profile is never in the set an erasure deletes.
* Enough other files exist that the scan is not held back by `ORPHAN_MAX_SHARE`.
* A post has one appeal at a time; a new removal starts a new one.
* A deletion, a removal of a draft and a removal by staff happen early enough for
  their days to end before `MaxClock`.
* `restoreClaimed` and the `reattach` after it (`detached-files-erasure:65-66`)
  are one step.
* Stories take the same steps as posts; comments' files go with their post.

### Calls

The server's part is `stage`, `from`, `to`, `overdue` (a session as one record)
and `userCalls`; each handler is one step up to its first await, so `Invite`,
`Register` or `Refuse`, and `Announce` are the three parts of an invitation. The
client's part is the store (`status`, `remote`), the connection and the stream it
holds, and `job`, the set-up in progress (`startCall` or `handleOffer`), which
goes through `FetchIce` and `GetUserMedia` whatever happens to the call. `up` and
`down` are the sockets, in order. `LoseSocket` drops what is on its way down; the
server handles the loss later (`HandleDisconnect`), after the presence is written.

* One process holds the sessions, as the maps of the service assume; a restart
  of it, which forgets them all, is not modelled.
* A client has one socket and sets up one connection at a time. A stream that a
  second set-up replaces is no longer counted in `cam`.
* Candidates, media tracks and screen sharing change no call state.

## 3. Runs

| Run | Instance | States | Shows |
|---|---|---|---|
| `outbox_settles` | 2 processes; 1 row and 3 faults, or 2 rows under one job id and 2 faults; direct adds; fair | 1.1 M | the safety properties; every row settles for good; the outbox implements `EventHandoff` |
| `webhook_inbox` | 2 deliveries, 1 job run, 1 event, 2 faults, fair | 279 k | the five safety properties; a stuck event is settled |
| `payments_any_order` | 2 handlers, 1 payment of any kind, 1 fault | 3.0 M | the books never run ahead of Stripe, agree with it when all notices are handled in order, and keep to `PaymentBooks` |
| `payments_refund_revokes` | 1 handler, 1 fault | violation | after a crash between two writes a refunded buyer keeps what they bought |
| `erasure_safety` | 2 requests at once, 2 deletions, 1 erasure by staff, 1 fault | 3.1 M | a restored account is kept; none is erased at once |
| `erasure_not_lost` | 2 requests at once, 2 deletions, 1 staff act, 1 fault, fair | 393 k | a marked account is erased; a restored one is kept |
| `erasure_grace` | 2 deletions, no fault | violation | the first deletion's job erases during the second window |
| `platform_plan` | 2 actors, 2 plans (one with a team), 2 events: changes at Stripe, requests or faults | 2.0 M | nobody pays for two plans in the end; rows, level and team agree; a stale row has a notice to come |
| `plan_makes_room` | 1 actor, 2 events | violation | a late checkout notice of an ended plan cancels the live one |
| `content_files` | 2 rows, 1 file, 1 eraser, 2 acts, 1 fault, fair | 623 k | what is kept has its files; nothing is erased early; nothing is stored for ever |
| `calls` | 3 Profiles, 2 calls, 1 lost socket or expiry | 3.3 M | nobody is busy without a call; calls exclude; active means accepted |
| `calls_hang_up` | 2 Profiles, 1 call | violation | the camera is on after hanging up |

### Why the bounds are enough

Two actors are what every race in this code needs: each conflict is between one
process that read a row and one that wrote it since. One event, payment or
account is enough where rows do not share state. Rows of the outbox share the job
ids: the run has two under one id, which the purge uses too; `Budget` bounds commits
and faults together, so that one row meets as many faults as give it up, and two rows
fewer. (A batch is one row there. The second row of a longer one is claimed with an old
clock reading; the theorems cover batches of any size, and the instance reaches the
same case by letting the clock tick between the reading and the claim.) Two rows that may share a file, and two plans of one
Profile, are the least in which one thing can hurt another; three Profiles let two
callers reach for one callee. Fault budgets reach the case each property is about: two
failures give up a row with `MaxRetries = 2`, one crash between any two steps of
a handler. Leases of one or two ticks with a clock that runs at least one lease
further let a lease run out while its holder is still at work. In `erasure_safety` the clock
has two values, before and after the window; the run for the window itself has
five. The theorems of section 4 remove all these bounds for every safety property of
the runs; the bounds matter only for the liveness properties.

`erasure_safety` has no bans, suspensions or reactivations by staff
(`MaxStaff = 0`), to stay small; `erasure_not_lost` has one and checks
`RestoredIsKept` again with it.

`content_files` has one erasure of content at a time, so that liveness can be
checked: the author's and the two nightly ones alternate, and meet the sweep, the
scan and the cleanup job.

Some properties except a case that the code does not handle, through a history
variable: `raced` and `hurt` in `ContentFiles` (a row saved after the last look at
its file; a row whose erasure broke off), `reopened` (an appeal set back to PENDING
without the lock), `reactivated` in `AccountErasure` (an account that staff, or
its owner's login after the window, reactivated with its dates left in the row), `overlapped`, `misled` and `dunned` in `PlatformPlan`,
`raced` in `Calls`. Without the exception TLC shows the case; section 5 lists them.

`CHECK_DEADLOCK FALSE` is set where the system may stop: once Stripe has nothing
more to say, the account or the content is gone and the clock has stopped, or all
calls are over.

### Fairness

* Outbox: weak fairness of the clock and of each process's sweep steps. The cron
  fires every five seconds and awaited calls return or throw. No commit, fault
  or job is forced. Faults stop at `FaultHorizon`; the property would say nothing
  of a queue that never comes back.
* Inbox: weak fairness of deliveries in progress, of the job (scheduled every
  five minutes) and of the clock; strong fairness of redelivery of an event not
  yet answered 200, because Stripe retries for days and workers are sometimes
  all busy.
* Erasure: weak fairness of the clock, the outbox and worker steps of each job,
  the purge, and the eviction of old jobs by age. Nobody has to ask for anything
  and a request in progress may hang for ever.
* Content: weak fairness of the clock, of the steps of each erasure, of the sweep,
  of the orphan scan and of each cleanup job, and strong fairness of picking a row
  that is due, because every night goes through all of them and an eraser may be
  busy with another one now and then. No person, no staff and no fault is forced.
* Payments, plans, calls: none; their properties are safety only.

## 4. Proofs

Every safety property that a passing run checks, invariant or action property, is
a theorem, and so are the two refinements. TLAPS proves them for every set of processes,
rows, files, events, payments, plans, Profiles and calls, every lease, window,
retry limit and batch size, and any number of requests, faults and retries. The
theorems assume nothing but the named assumption on the constants of each module
(`OutboxAssumption`, `InboxAssumption`, `PaymentsAssumption`, `ErasureAssumption`,
`PlanAssumption`, `ContentAssumption`, `CallsAssumption`), which TLC evaluates in
the runs.

| Theorem | Module | States |
|---|---|---|
| `TypeCorrect` | `OutboxProofs` | types; no row counts more than `MaxRetries` |
| `NoEventLost` | `OutboxProofs` | PUBLISHED means that the queue answered with a job under the event's id |
| `OwnIdOwnJob` | `OutboxProofs` | that job is the event's own where nobody else has the id |
| `NeverGivenUpEarly` | `OutboxProofs` | FAILED means `MaxRetries` failed attempts |
| `ClaimsHaveReasons` | `OutboxProofs` | claims are at most one, plus failures, plus expired leases |
| `OneHolderPerLease` | `OutboxProofs` | two holders only after a lease ran out |
| `OutboxImplementsHandoff` | `OutboxProofs` | the outbox implements `EventHandoff` |
| `TypeCorrect` | `WebhookInboxProofs` | types; work is about events that Stripe sent |
| `NothingAckedIsLost` | `WebhookInboxProofs` | an event answered 200 is in the table |
| `ProcessedMeansHandled` | `WebhookInboxProofs` | PROCESSED means that the handler ran to its end |
| `HandlersHaveReasons` | `WebhookInboxProofs` | handler starts are at most one, plus failures, plus expired leases |
| `HandlersExclude` | `WebhookInboxProofs` | two handlers only after a lease ran out |
| `TypeCorrect` | `CreatorPaymentsProofs` | types; a handler at work has a notice |
| `RefundedStaysReal` | `CreatorPaymentsProofs` | REFUNDED means refunded in full, or the dispute lost |
| `RefundsNeverOverstated` | `CreatorPaymentsProofs` | the refund on record is at most what Stripe gave back |
| `UnlocksArePaid` | `CreatorPaymentsProofs` | what is unlocked was paid and recorded |
| `FeesSettledFirst` | `CreatorPaymentsProofs` | a payment is a creator's only after its fee was settled |
| `EndedPromotionsStayEnded` | `CreatorPaymentsProofs` | no notice starts a promotion that was paid and has ended |
| `RefundedForGood` | `CreatorPaymentsProofs` | nothing takes a payment out of REFUNDED |
| `PendingEarnsNothing` | `CreatorPaymentsProofs` | a payment for a missing message becomes REFUNDED or stays PENDING |
| `RecordsAgree` | `CreatorPaymentsProofs` | in Stripe's order and without faults, the records agree with Stripe in the end |
| `PaymentsKeepBooks` | `CreatorPaymentsProofs` | the handlers implement `PaymentBooks` |
| `TypeCorrect` | `AccountErasureProofs` | types; both dates are set, or neither; a worker holds a queued job |
| `RestoredAccountIsKept` | `AccountErasureProofs` | an account whose owner kept it is never erased, but for one reactivated with its dates left in the row |
| `NoneErasedAtOnce` | `AccountErasureProofs` | but for staff, no account is erased within one window of the first request |
| `TypeCorrect` | `PlatformPlanProofs` | types; one active row at most, the rows ordered by `updatedAt` |
| `OnePlanIsBilled` | `PlatformPlanProofs` | one plan is billed in the end, unless a renewal was refused |
| `StaleRowsAreNoticed` | `PlatformPlanProofs` | without overlap, a stale active row has a notice to come |
| `QuietRowsAgree` | `PlatformPlanProofs` | without overlap, rows, level and team agree with Stripe in the end |
| `TypeCorrect` | `ContentFilesProofs` | types; a file has one record, and only a recorded file is detached |
| `FilesAreKept` | `ContentFilesProofs` | a kept row has its files, but for `raced` and `hurt` ones |
| `PostsGoWhenDue` | `ContentFilesProofs` | a post is erased only at a moment when it is due |
| `TypeCorrect` | `CallsProofs` | types; a stream is on only with a connection |
| `NobodyBusyForEver` | `CallsProofs` | whoever is busy is a party of a session that exists |
| `NoTwoCalls` | `CallsProofs` | without invitations checked at once, a session's parties are in no other |
| `ActiveWasAccepted` | `CallsProofs` | an ACTIVE session was accepted by its callee |

**Outbox.** `TypeOK` is not inductive: `RecordFailure` writes the retry count of
an old copy plus one, which stays in range only if copies have tries left. The
type invariant is strengthened by `TriesLeft` (rows and copies that may still be
published have tries left), `SweepShape` (the loop body works on a row) and
`SeenCandidates` (what is left of a batch was a candidate when it was read). On
top of it each property has its own strengthening: `QueueInv` adds that a
publisher about to mark has had its add answered, and that a job under an id is a
committed event's of that id or was added past the outbox; `RetryInv` that a row's retry count,
and that of every copy, is at most the number of recorded failures, which is why
counting from stale copies gives up late and never early; `ClaimInv` that a row
up for its first claim or a retry has a claim to spare; `HolderInv` that, while
no lease on it ran out, an event has one holder and its row is not claimable.

The refinement maps each step of `Outbox` to a step of `EventHandoff` or to
none (`HandoffStep`). A failure that gives an event up is an abstract one only if it
has `MaxRetries` failures by then, and a mark is a `Close` only if the event was
handed over: both follow from the invariants above, together with `HeldInv`, which
says that whoever holds an event holds a committed one.

**Inbox.** `TypeOK` is inductive. `RecordedInv` adds that whoever is past its
first look has seen a row, and rows do not go away; `AppliedInv` that a worker
about to write PROCESSED has run the handler; `ClaimInv` and `HandlerInv` are
the counterparts of the outbox's.

**Creator payments.** That a payment is never wrongly REFUNDED depends on what
the handlers hold: `MailInv` says that a notice is true of Stripe or was (a total
only grows, a lost dispute is lost for ever), `TaskInv` that a handler has a notice of
its kind that nobody else has, `WorkInv` that what a handler is about to write is
still right whatever other handlers did meanwhile. With the four invariants
themselves and `MirrorInv` they are inductive. `RecordsAgree` needs three more
layers, for behaviours in turn: `DisputeInv` (a notice of a dispute is behind
Stripe, never ahead), `OrderInv` (a handler has the oldest notice of its payment)
and `TurnInv` (what a handler read has not changed since). `AgreeInv` then says of
each record that it agrees with Stripe or that a notice which has not been applied
yet will bring it there.

The refinement maps a step to a move of `PaymentBooks` or to none (`BookedStep`). The
reason of a move has to hold when the move is written, not when it was read:
`WorkInv` gives it for a refund and a lost dispute, and `BooksInv` adds that a dispute
read as open was opened and one read as won is won, for the mirror and for what each
handler remembers of it, and that whoever is about to revoke has a REFUNDED payment.
`WordStays` is why such word does not age: at Stripe, neither is ever undone.

**Erasure.** `NoneErasedAtOnce` follows from `WindowInv`: unless staff erase the
account, everything that may erase it (a queued job, a job or a purge at work, the
date on the row) is at least one window after the first request, and no job of the
second id exists. `RestoredAccountIsKept` follows from `WantedInv`: a row has a date
only while its deletion is the last decision, or after staff, or its owner's login once
the window has ended, reactivated it and left the dates.

**Platform plan.** `NextDoes` says once what each step does, one alternative per
branch of the code (`Accepts` and `Declines`, `Records` and `GivesUp`, `MovesOn` and
`Answers`), and every step lemma goes through these. Of any interleaving
hold `PlaceInv` (where an actor stands fits what it does), `CountInv` (the handlers
at work on a notice are no more than there are such notices, by counting them) and
`EndedInv` (what was read as ended is ended). `BillInv` adds that a plan which is live
has the active row or the notice of its checkout to come: with one active row at
most, one plan is live in the end. For an actor that never overlaps another,
`SeenInv` says that what it read is outdated only if a notice says so, `StaleInv` and
`RowsInv` that a row which differs has a notice due, one whose handler has not
written yet, and `TierInv` that a level or a team that does not follow the rows is
owed by such a handler. `Due` is the measure in all of them: enough notices are left
even without those of handlers that are past the write.

**Content.** `LockInv` ties an eraser to the row it holds. `FilesInv` says that no
sweep, scan or eraser that is about to delete a file can name one of a kept row,
but for the eraser that holds that row. `DueInv` says that what the nightly job read
as due was due, and that a row held is due still, because everything that could
change that takes the lock, except an appeal that is set back.

**Calls.** `TypeOK` and `BusyIsInCall` are proved together, as `ServerInv` and
`ClientInv`: an invitation that was made has a caller and a callee, an entry of
`userCalls` names a session of that Profile, and every message on a socket is well
formed, with a peer where its kind needs one. Lemmas say what deleting sessions,
pruning, sending and receiving preserve; the step lemma is split into the server's
and the clients' actions. `NoTwoCalls` needs `SoloInv`: while no two invitations of
a Profile were checked at once, the parties of an invitation being checked are in
no call and in no other such invitation. `ActiveWasAccepted` needs `AcceptSent`: an acceptance on
its way to the server was pressed by its sender.

Each step lemma has one step per action, or per alternative of an action; the last
step of each theorem combines initial state and step with PTL. TLC checked each
strengthened invariant on the instances of section 3 before it was proved.

Only model-checked: `EventuallySettled`, `StuckIsSettled`, `DeletionNotLost` and
`LeftoversGo`, because liveness under fairness is out of this prover's reach, and
the four counterexamples of section 5.

## 5. Where code and text disagree

Each has a run that ends in a counterexample:

* `monetization/monetization-webhook.service.ts:720`: "the buyer loses what they
  bought. A notice that comes again changes nothing". After a crash between the
  two writes the retried notice finds REFUNDED and skips the revocation (`:751`).
* `users/users.service.ts:827`: deletion "after 30 days (GDPR grace window)". The
  job of a cancelled deletion, published after the restore looked for it, checks
  that a deletion is scheduled and not that its date has come.
* `payments/payments.service.ts:667`: "keep only the newly activated plan as
  ACTIVE". A checkout notice makes room for its plan before anything looks whether
  that plan is still alive: handled late or again, it cancels the newer one.
* `circlesfera-frontend/src/components/chat/CallOverlay.tsx:64`: "Hanging up ends
  the call on this side too". The set-up of a connection goes on after each await
  (`circlesfera-frontend/src/services/webrtc.service.ts:32`) and opens the camera
  after the call is gone.

Seen while modelling, with no run of their own:

* a second deletion of an account shares the first one's job id
  (`users/users.service.ts:894`): if the queue still holds that job the add does
  nothing and the row is PUBLISHED all the same, where the comment at `:887` has "The
  OutboxService sweeper guarantees delivery even after a crash"; the purge makes up
  for it;
* a FAILED row of the outbox is never swept again (`outbox/outbox.service.ts:177`),
  against `docs/adr/0006-redis-bullmq.md:81`: critical queues "self-heal via the
  outbox sweep for anything not yet published";
* an event that fails after Stripe was answered 200 stays FAILED: the job takes
  PENDING rows only (`payments/payments.service.ts:865`), against the comment at
  `:738`, "PENDING/FAILED are reprocessed";
* staff who reactivate an account in its grace window (`admin/admin-users.service.ts:619`),
  and the login of an owner who had deactivated it, once the window has ended
  (`auth/auth.service.ts:476`, `:623`), leave the dates, and the account is erased once
  it is inactive again, by its owner's deactivation for one, which is "soft,
  reversible" (`profiles/profiles.service.ts:584`);
* a promotion that is refunded in full runs on, against "the buyer loses what they
  bought" (`monetization/monetization-webhook.service.ts:720`): `revokeUnlock` knows no
  promotions; one that was cancelled before its checkout was paid is started when the
  payment comes in after all (`:151`), and staff can approve one that was never paid
  (`admin/use-cases/content/commands/review-promotion.use-case.ts:63`);
* a message deleted after the handler looked it up is paid for and not refunded
  (`monetization-webhook.service.ts:335`);
* the refunded total can fall when two refund notices are handled at once
  (`monetization-webhook.service.ts:748`), and a closed dispute can be reopened in
  the mirror by a notice that read it before (`:859`);
* a webhook handler runs again after a crash before its PROCESSED mark, against
  `docs/adr/0021-global-prisma-access-transactional-discipline.md:43`;
* a failed call to Stripe during an erasure is not retried
  (`account-deletion.processor.ts:139`): the subscriptions are billed on;
* a late `invoice.payment_failed` marks a paid plan PAST_DUE
  (`payments.service.ts:1127`), and a PAST_DUE plan is billed on beside the one
  bought after it (`:676`);
* of two handlers of one plan at once the older reading may be written last
  (`payments.service.ts:566`, `users.service.ts:1311`);
* a post saved after the last look at a file chosen before keeps its row and loses
  the file (`stored-files.service.ts:124`); a decided appeal set back to PENDING
  can come after the erasure looked (`appeals.service.ts:466`); a file found in use
  is opened although its row was deleted meanwhile (`stored-files.service.ts:152`);
* two invitations of a Profile that are checked at once are both registered
  (`webrtc-signaling.service.ts:67`), against "a profile can only participate in at
  most one active call" (`:39`); a blocked caller, and one whose call expires, is
  told nothing (`app.gateway.ts:539`).

## 6. Not modelled

Pure decisions and queries (media access, search, ranking), single-row writes
behind unique indexes (likes, follows, bookmarks), outgoing messages (email,
push, Slack), view state (the client but for its calls) and third-party services beyond what the
code observes of them. The concurrency limit of a queue's worker is not
modelled: any number of jobs may run at once, which allows more than the code does.

## 7. Plan

Done so far: outbox and its abstract hand-off, webhook inbox, creator payments
and their books, account erasure, platform plans, content and files, calls; for each, every safety
property that a run checks is proved. Next:

1. An abstract specification of the plan a Profile pays for, implemented by
   `PlatformPlan`, as for the outbox and the payments.
2. `AccountErasure` over `EventHandoff` in place of its own `Publish` and
   `OutboxGivesUp`.
3. `RefreshTokens`: rotation with its reuse window, logout and revocation of a
   family under concurrent requests, with an abstract specification of a session
   that it implements.
4. Live streams with gifts, scheduled posts, feed fan-out, strikes, in that order.
