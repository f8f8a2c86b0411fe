--------------------------- MODULE AccountErasure ---------------------------
(***************************************************************************)
(* The life of one account between "delete my account" and its erasure:    *)
(* users.service.ts (scheduleDeletion, eraseNow, cancelScheduledDeletion,  *)
(* deleteScheduledUser), the hard-delete job and the nightly purge of      *)
(* account-deletion.processor.ts, the restore that a login performs        *)
(* (auth.service.ts) and what staff do to the same row                     *)
(* (admin-users.service.ts).                                               *)
(*                                                                         *)
(* Accounts share nothing but the queue, where each has two job ids of its *)
(* own, so one account is modelled.  Its requests, its two jobs and the    *)
(* purge interleave at every await.                                        *)
(***************************************************************************)
EXTENDS Integers, FiniteSets

CONSTANTS
    Sessions,     \* requests of the person in progress at once
    Grace,        \* the 30 days of the grace window, in clock ticks
    Attempts,     \* attempts of a job before it is kept as failed
    MaxClock,     \* bound: the clock stops here
    MaxRequests,  \* bound: deletions the person asks for
    MaxErasures,  \* bound: erasures staff ask for
    MaxStaff,     \* bound: bans, suspensions and restores by staff
    MaxFaults     \* bound: crashes and failed calls

ASSUME ErasureAssumption ==
    /\ Grace \in Nat \ {0}
    /\ Attempts \in Nat \ {0}
    /\ MaxClock \in Nat /\ Grace <= MaxClock
    /\ MaxRequests \in Nat
    /\ MaxErasures \in Nat
    /\ MaxStaff \in Nat
    /\ MaxFaults \in Nat

(* The job ids delete-<id> and delete-now-<id>. *)
JobIds == {"delete", "delete-now"}
Null   == -1

VARIABLES
    now,
    exists, isActive, deletedAt, scheduledDeletionAt,  \* the User row
    deactivated,   \* its deactivatedAt is set
    banned,        \* its isRootBanned
    outbox,        \* hard-delete rows not yet published, per job id
    state,         \* of the queue's job of that id
    runAt,         \* when it leaves the delayed set
    attemptsLeft,
    kept,          \* whether it stays in the queue when it completes
    pc,            \* where the worker running the job stands
    cron,          \* where cleanExpiredAccounts stands
    sess,          \* where a request of the person stands
    requests, erasures, staffActs, faults,  \* what has happened so often
    firstAsked,    \* history: when the person first asked to be deleted
    wanted,        \* history: the last decision on the account was to delete it
    reactivated    \* history: it was reactivated since, and its dates stayed

rowVars  == <<exists, isActive, deletedAt, scheduledDeletionAt, deactivated, banned>>
jobVars  == <<state, runAt, attemptsLeft, kept, pc>>
countVars == <<requests, erasures, staffActs, faults>>
histVars == <<firstAsked, wanted, reactivated>>
vars == <<now, rowVars, outbox, jobVars, cron, sess, countVars, histVars>>

Init ==
    /\ now = 0
    /\ exists = TRUE /\ isActive = TRUE
    /\ deletedAt = Null /\ scheduledDeletionAt = Null
    /\ deactivated = FALSE /\ banned = FALSE
    /\ outbox = [j \in JobIds |-> 0]
    /\ state = [j \in JobIds |-> "absent"]
    /\ runAt = [j \in JobIds |-> 0]
    /\ attemptsLeft = [j \in JobIds |-> 0]
    /\ kept = [j \in JobIds |-> FALSE]
    /\ pc = [j \in JobIds |-> "idle"]
    /\ cron = "idle"
    /\ sess = [s \in Sessions |-> "idle"]
    /\ requests = 0 /\ erasures = 0 /\ staffActs = 0 /\ faults = 0
    /\ firstAsked = Null
    /\ wanted = FALSE /\ reactivated = FALSE

Fault  == faults < MaxFaults /\ faults' = faults + 1
Goto(s, l) == sess' = [sess EXCEPT ![s] = l]

(* The queue holds the job no longer. *)
Forget(j) ==
    /\ state' = [state EXCEPT ![j] = "absent"]
    /\ runAt' = [runAt EXCEPT ![j] = 0]
    /\ attemptsLeft' = [attemptsLeft EXCEPT ![j] = 0]
    /\ kept' = [kept EXCEPT ![j] = FALSE]

-----------------------------------------------------------------------------
(* The person's requests.                                                  *)

(* JwtStrategy.validate: only an operational account passes. *)
Authenticated == exists /\ isActive

Request(s, op) ==
    /\ sess[s] = "idle"
    /\ Authenticated
    /\ Goto(s, op)
    /\ UNCHANGED <<now, rowVars, outbox, jobVars, cron, countVars, histVars>>

(* markForErasure: the row and the outbox in one transaction. *)
MarkForErasure(at, jobId) ==
    /\ exists
    /\ isActive' = FALSE
    /\ deletedAt' = now
    /\ scheduledDeletionAt' = at
    /\ outbox' = [outbox EXCEPT ![jobId] = @ + 1]
    /\ wanted' = TRUE /\ reactivated' = FALSE
    /\ UNCHANGED <<now, exists, deactivated, banned, jobVars, cron,
                   staffActs, faults>>

ScheduleDeletion(s) ==
    /\ sess[s] = "schedule"
    /\ now + Grace <= MaxClock
    /\ requests < MaxRequests
    /\ requests' = requests + 1
    /\ MarkForErasure(now + Grace, "delete")
    /\ Goto(s, "idle")
    /\ firstAsked' = IF firstAsked = Null THEN now ELSE firstAsked
    /\ UNCHANGED erasures

EraseNow ==
    /\ erasures < MaxErasures
    /\ erasures' = erasures + 1
    /\ MarkForErasure(now, "delete-now")
    /\ UNCHANGED <<sess, requests, firstAsked>>

Deactivate(s) ==
    /\ sess[s] = "deactivate"
    /\ exists
    /\ isActive' = FALSE
    /\ deactivated' = TRUE
    /\ Goto(s, "idle")
    /\ UNCHANGED <<now, exists, deletedAt, scheduledDeletionAt, banned, outbox,
                   jobVars, cron, countVars, histVars>>

(* cancelScheduledDeletion reads the row and checks the window. *)
CancelRead(s) ==
    /\ sess[s] = "cancel"
    /\ Goto(s, IF exists /\ scheduledDeletionAt > now THEN "restore" ELSE "idle")
    /\ UNCHANGED <<now, rowVars, outbox, jobVars, cron, countVars, histVars>>

(* login and loginById read the row; an inactive account is restored in    *)
(* its grace window, or reactivated if the person deactivated it.          *)
LoginRead(s) ==
    /\ sess[s] = "idle"
    /\ exists /\ ~isActive
    /\ \/ /\ scheduledDeletionAt > now
          /\ Goto(s, "restore")
       \/ /\ scheduledDeletionAt <= now
          /\ ~banned /\ deactivated
          /\ Goto(s, "reactivate")
    /\ UNCHANGED <<now, rowVars, outbox, jobVars, cron, countVars, histVars>>

Reactivate(s) ==
    /\ sess[s] = "reactivate"
    /\ exists
    /\ isActive' = TRUE
    /\ deactivated' = FALSE
    /\ wanted' = FALSE
    /\ reactivated' = (reactivated \/ scheduledDeletionAt # Null)
    /\ Goto(s, "idle")
    /\ UNCHANGED <<now, exists, deletedAt, scheduledDeletionAt, banned, outbox,
                   jobVars, cron, countVars, firstAsked>>

(* The bug of a restore that clears one date of the two. *)
RestoreHalf(s) ==
    /\ sess[s] = "restore"
    /\ exists
    /\ isActive' = TRUE
    /\ scheduledDeletionAt' = Null
    /\ wanted' = FALSE /\ reactivated' = FALSE
    /\ Goto(s, "removeJob")
    /\ UNCHANGED <<now, exists, deletedAt, deactivated, banned, outbox, jobVars,
                   cron, countVars, firstAsked>>

(* The restoring update: by id, whatever the row says by now. *)
Restore(s) ==
    /\ sess[s] = "restore"
    /\ exists
    /\ isActive' = TRUE
    /\ deletedAt' = Null
    /\ scheduledDeletionAt' = Null
    /\ wanted' = FALSE /\ reactivated' = FALSE
    /\ Goto(s, "removeJob")
    /\ UNCHANGED <<now, exists, deactivated, banned, outbox, jobVars, cron,
                   countVars, firstAsked>>

(* An update of a row that is gone throws. *)
RowIsGone(s) ==
    /\ sess[s] \in {"schedule", "deactivate", "restore", "reactivate"}
    /\ ~exists
    /\ Goto(s, "idle")
    /\ UNCHANGED <<now, rowVars, outbox, jobVars, cron, countVars, histVars>>

(* getJob and remove: a job that is not there, or that a worker holds, is  *)
(* left alone, and an error is swallowed or ends the request.              *)
RemoveJob(s) ==
    /\ sess[s] = "removeJob"
    /\ \/ pc["delete"] = "idle" /\ Forget("delete") /\ UNCHANGED faults
       \/ pc["delete"] # "idle" /\ UNCHANGED <<state, runAt, attemptsLeft, kept, faults>>
       \/ Fault /\ UNCHANGED <<state, runAt, attemptsLeft, kept>>
    /\ Goto(s, "idle")
    /\ UNCHANGED <<now, rowVars, outbox, pc, cron, requests, erasures, staffActs, histVars>>

-----------------------------------------------------------------------------
(* What staff do to the row (admin-users.service.ts).                      *)
Staff(active, ban) ==
    /\ exists
    /\ staffActs < MaxStaff
    /\ staffActs' = staffActs + 1
    /\ isActive' = active
    /\ banned' = ban
    /\ wanted' = (wanted /\ ~active)
    /\ reactivated' = (reactivated \/ (active /\ scheduledDeletionAt # Null))
    /\ UNCHANGED <<now, exists, deletedAt, scheduledDeletionAt, deactivated,
                   outbox, jobVars, cron, sess, requests, erasures, faults, firstAsked>>

BanUser     == Staff(FALSE, TRUE)
UnbanUser   == Staff(TRUE, FALSE)
SuspendUser == Staff(FALSE, banned)
RestoreUser == Staff(TRUE, banned)

-----------------------------------------------------------------------------
(* The queue: the outbox publishes, the worker of the users queue runs.    *)
Delay(j) == IF j = "delete" THEN Grace ELSE 0

(* External: Queue.add ignores an id that the queue already holds. *)
AddJob(j, at, left, keep) ==
    IF state[j] = "absent"
    THEN /\ state' = [state EXCEPT ![j] = "queued"]
         /\ runAt' = [runAt EXCEPT ![j] = IF at <= MaxClock THEN at ELSE MaxClock]
         /\ attemptsLeft' = [attemptsLeft EXCEPT ![j] = left]
         /\ kept' = [kept EXCEPT ![j] = keep]
         /\ UNCHANGED pc
    ELSE UNCHANGED jobVars

(* The outbox (module Outbox) publishes at least once; a crash in between  *)
(* adds a row again.                                                       *)
Publish(j) ==
    /\ outbox[j] > 0
    /\ AddJob(j, now + Delay(j), Attempts, FALSE)
    /\ \/ outbox' = [outbox EXCEPT ![j] = @ - 1] /\ UNCHANGED faults
       \/ Fault /\ UNCHANGED outbox
    /\ UNCHANGED <<now, rowVars, cron, sess, requests, erasures, staffActs, histVars>>

(* A row whose adds failed too often is given up. *)
OutboxGivesUp(j) ==
    /\ outbox[j] > 0
    /\ Fault
    /\ outbox' = [outbox EXCEPT ![j] = @ - 1]
    /\ UNCHANGED <<now, rowVars, jobVars, cron, sess, requests, erasures, staffActs, histVars>>

StartJob(j) ==
    /\ state[j] = "queued" /\ runAt[j] <= now
    /\ pc[j] = "idle"
    /\ pc' = [pc EXCEPT ![j] = "check"]
    /\ UNCHANGED <<now, rowVars, outbox, state, runAt, attemptsLeft, kept,
                   cron, sess, countVars, histVars>>

(* hardDeleteUser, phase 1: a stale job stops here. *)
CheckLifecycle(j) ==
    /\ pc[j] = "check"
    /\ LET stale == ~exists \/ isActive \/ (deletedAt = Null /\ scheduledDeletionAt = Null)
       IN  pc' = [pc EXCEPT ![j] = IF stale THEN "finish" ELSE "cleanup"]
    /\ UNCHANGED <<now, rowVars, outbox, state, runAt, attemptsLeft, kept,
                   cron, sess, countVars, histVars>>

(* Phases 2 and 3, the subscriptions and the domain listeners, between the *)
(* check and the delete: what they throw is logged and erasing goes on.    *)
Cleanup(j) ==
    /\ pc[j] = "cleanup"
    /\ pc' = [pc EXCEPT ![j] = "erase"]
    /\ UNCHANGED <<now, rowVars, outbox, state, runAt, attemptsLeft, kept, cron, sess,
                   countVars, histVars>>

(* The bug of deleting by id, on the strength of the check alone. *)
StillScheduledUnchecked == exists

(* The where of deleteScheduledUser's deleteMany. *)
StillScheduled ==
    /\ exists /\ ~isActive
    /\ scheduledDeletionAt # Null \/ deletedAt # Null

RowGone ==
    /\ exists' = FALSE /\ isActive' = FALSE
    /\ deletedAt' = Null /\ scheduledDeletionAt' = Null
    /\ deactivated' = FALSE /\ banned' = FALSE

Erase(j) ==
    /\ pc[j] = "erase"
    /\ IF StillScheduled THEN RowGone ELSE UNCHANGED rowVars
    /\ pc' = [pc EXCEPT ![j] = "finish"]
    /\ UNCHANGED <<now, outbox, state, runAt, attemptsLeft, kept, cron, sess,
                   countVars, histVars>>

FinishJob(j) ==
    /\ pc[j] = "finish"
    /\ pc' = [pc EXCEPT ![j] = "idle"]
    /\ IF kept[j]
       THEN state' = [state EXCEPT ![j] = "completed"] /\ UNCHANGED <<runAt, attemptsLeft, kept>>
       ELSE Forget(j)
    /\ UNCHANGED <<now, rowVars, outbox, cron, sess, countVars, histVars>>

(* The job throws, and is tried again while it has attempts left. *)
JobThrows(j) ==
    /\ pc[j] \in {"check", "erase"}
    /\ Fault
    /\ pc' = [pc EXCEPT ![j] = "idle"]
    /\ attemptsLeft' = [attemptsLeft EXCEPT ![j] = IF @ > 1 THEN @ - 1 ELSE @]
    /\ state' = [state EXCEPT ![j] = IF attemptsLeft[j] > 1 THEN "queued" ELSE "failed"]
    /\ runAt' = [runAt EXCEPT ![j] = now]
    /\ UNCHANGED <<now, rowVars, outbox, kept, cron, sess, requests, erasures, staffActs, histVars>>

(* Its worker dies: the stalled job is queued again, or failed when it     *)
(* stalled too often.                                                      *)
JobStalls(j) ==
    /\ pc[j] # "idle"
    /\ Fault
    /\ pc' = [pc EXCEPT ![j] = "idle"]
    /\ \E after \in {"queued", "failed"} : state' = [state EXCEPT ![j] = after]
    /\ UNCHANGED <<now, rowVars, outbox, runAt, attemptsLeft, kept, cron, sess,
                   requests, erasures, staffActs, histVars>>

(* External: the queue forgets a job the purge added, by age. *)
Evict(j) ==
    /\ kept[j]
    /\ state[j] \in {"completed", "failed"}
    /\ Forget(j)
    /\ UNCHANGED <<now, rowVars, outbox, pc, cron, sess, countVars, histVars>>

-----------------------------------------------------------------------------
(* cleanExpiredAccounts.                                                   *)

(* The bug of taking every scheduled account for an expired one. *)
IsExpiredAlways == exists /\ scheduledDeletionAt # Null

IsExpired ==
    /\ exists
    /\ \/ scheduledDeletionAt # Null /\ scheduledDeletionAt <= now
       \/ scheduledDeletionAt = Null /\ deletedAt # Null /\ deletedAt < now - Grace

CronFind ==
    /\ cron = "idle"
    /\ IsExpired
    /\ cron' = "look"
    /\ UNCHANGED <<now, rowVars, outbox, jobVars, sess, countVars, histVars>>

(* The bug of treating a job kept as failed like any other. *)
CronLookAddsOnly ==
    /\ cron = "look"
    /\ cron' = "add"
    /\ UNCHANGED <<now, rowVars, outbox, jobVars, sess, countVars, histVars>>

CronLook ==
    /\ cron = "look"
    /\ cron' = IF state["delete"] = "failed" THEN "retry" ELSE "add"
    /\ UNCHANGED <<now, rowVars, outbox, jobVars, sess, countVars, histVars>>

(* retry('failed') throws for a job that is no longer failed. *)
CronRetry ==
    /\ cron = "retry"
    /\ cron' = "idle"
    /\ IF state["delete"] = "failed"
       THEN /\ state' = [state EXCEPT !["delete"] = "queued"]
            /\ runAt' = [runAt EXCEPT !["delete"] = now]
            /\ UNCHANGED <<attemptsLeft, kept, pc>>
       ELSE UNCHANGED jobVars
    /\ UNCHANGED <<now, rowVars, outbox, sess, countVars, histVars>>

CronAdd ==
    /\ cron = "add"
    /\ cron' = "idle"
    /\ AddJob("delete", now, Attempts, TRUE)
    /\ UNCHANGED <<now, rowVars, outbox, sess, countVars, histVars>>

(* A call throws, or the worker dies: the next night starts over. *)
CronThrows ==
    /\ cron # "idle"
    /\ Fault
    /\ cron' = "idle"
    /\ UNCHANGED <<now, rowVars, outbox, jobVars, sess, requests, erasures, staffActs, histVars>>

Tick ==
    /\ now < MaxClock
    /\ now' = now + 1
    /\ UNCHANGED <<rowVars, outbox, jobVars, cron, sess, countVars, histVars>>

-----------------------------------------------------------------------------
SessionStep(s) ==
    \/ ScheduleDeletion(s) \/ Deactivate(s) \/ CancelRead(s)
    \/ Restore(s) \/ Reactivate(s) \/ RowIsGone(s) \/ RemoveJob(s)

JobStep(j) ==
    \/ Publish(j) \/ StartJob(j) \/ CheckLifecycle(j)
    \/ Cleanup(j) \/ Erase(j) \/ FinishJob(j)

JobFault(j) == OutboxGivesUp(j) \/ JobThrows(j) \/ JobStalls(j)

CronStep == CronFind \/ CronLook \/ CronRetry \/ CronAdd

StaffStep == EraseNow \/ BanUser \/ UnbanUser \/ SuspendUser \/ RestoreUser

Next ==
    \/ \E s \in Sessions : \E op \in {"schedule", "deactivate", "cancel"} : Request(s, op)
    \/ \E s \in Sessions : LoginRead(s) \/ SessionStep(s)
    \/ StaffStep
    \/ \E j \in JobIds : JobStep(j) \/ JobFault(j) \/ Evict(j)
    \/ CronStep \/ CronThrows
    \/ Tick

Spec == Init /\ [][Next]_vars

(* The outbox sweeps, the worker takes jobs, the nightly purge runs, old   *)
(* jobs age out and time passes.  Nobody has to ask for anything.          *)
Fairness ==
    /\ WF_vars(Tick)
    /\ WF_vars(CronStep)
    /\ \A j \in JobIds : WF_vars(JobStep(j)) /\ WF_vars(Evict(j))

FairSpec == Spec /\ Fairness

-----------------------------------------------------------------------------
Dates == Nat \union {Null}

(* Types; the dates of a row are set and cleared together, so the branch   *)
(* of the purge for rows with a deletedAt alone is never taken; a worker   *)
(* holds a job only while the queue has it.                                *)
TypeOK ==
    /\ now \in 0..MaxClock
    /\ exists \in BOOLEAN /\ isActive \in BOOLEAN
    /\ deletedAt \in Dates /\ scheduledDeletionAt \in Dates
    /\ deletedAt = Null <=> scheduledDeletionAt = Null
    /\ deactivated \in BOOLEAN /\ banned \in BOOLEAN
    /\ outbox \in [JobIds -> Nat]
    /\ state \in [JobIds -> {"absent", "queued", "completed", "failed"}]
    /\ runAt \in [JobIds -> 0..MaxClock]
    /\ attemptsLeft \in [JobIds -> 0..Attempts]
    /\ kept \in [JobIds -> BOOLEAN]
    /\ pc \in [JobIds -> {"idle", "check", "cleanup", "erase", "finish"}]
    /\ \A j \in JobIds : pc[j] # "idle" => state[j] = "queued"
    /\ cron \in {"idle", "look", "retry", "add"}
    /\ sess \in [Sessions -> {"idle", "schedule", "deactivate", "cancel",
                              "restore", "reactivate", "removeJob"}]
    /\ requests \in 0..MaxRequests /\ erasures \in 0..MaxErasures
    /\ staffActs \in 0..MaxStaff /\ faults \in 0..MaxFaults
    /\ firstAsked \in Dates
    /\ wanted \in BOOLEAN /\ reactivated \in BOOLEAN

Erased == exists /\ ~exists'

StaffAsked == erasures > 0

(* hardDeleteUser's stale job protection: an account that its owner kept,  *)
(* or restored before the delete ran, is never erased, however late the    *)
(* restore and however many old jobs are left.  The exception are dates    *)
(* left in the row: staff who reactivate an account, and its owner's login *)
(* once the window has ended, clear neither, and the next time the account *)
(* is inactive it is erased.                                               *)
RestoredIsKept == [][Erased => wanted \/ reactivated]_vars

(* DELETE /users/me is never an immediate hard delete: short of a decision *)
(* of staff, no account is erased before one whole grace window has passed *)
(* since the person first asked.                                           *)
NeverAtOnce == [][Erased => StaffAsked \/ now >= firstAsked + Grace]_vars

(* "Ensuring no deletion is lost": an account that stays marked is erased, *)
(* although outbox rows are given up, jobs fail for good, and a restore    *)
(* removes the job of a later deletion.                                    *)
DeletionNotLost ==
    (exists /\ ~isActive /\ scheduledDeletionAt # Null) ~> (~exists \/ isActive)

(* "Schedule user account for deletion after 30 days (GDPR grace window)": *)
(* short of a decision of staff, the erasure waits for the date the person *)
(* was given.                                                              *)
GraceHonoured == [][Erased => StaffAsked \/ now >= scheduledDeletionAt]_vars
=============================================================================
