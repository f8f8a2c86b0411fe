---------------------------- MODULE ContentFiles ----------------------------
(***************************************************************************)
(* Posts, drafts and the stored files they name, from the upload to the    *)
(* erasure: attaching (posts.service.ts), Recently deleted                 *)
(* (recently-deleted.service.ts), removal by moderation and its appeal     *)
(* (moderation-decision.ts, appeals.service.ts), the record of who owns a  *)
(* file (stored-files.service.ts) and everything that deletes one: the two *)
(* nightly erasures of content, the erasure of detached files and the      *)
(* sweep of orphans with its cleanup job.                                  *)
(*                                                                         *)
(* A transaction that touches only the database is one step; one that      *)
(* deletes files holds its row and takes a step per await.  One author is  *)
(* modelled: a file of another Profile is never deleted with theirs.       *)
(***************************************************************************)
EXTENDS Integers, FiniteSets

CONSTANTS
    Rows,       \* ids of posts (frames, stories) and drafts
    Files,      \* files the author uploaded, at time 0
    Erasers,    \* erasures of content in progress at once
    None,       \* no row, no file
    Kept,       \* DELETED_CONTENT_KEPT_DAYS, in clock ticks
    Window,     \* APPEAL_WINDOW_MONTHS, in clock ticks
    Grace,      \* ORPHAN_GRACE_HOURS, in clock ticks
    MaxClock,   \* bound: the clock stops here
    MaxActs,    \* bound: deletions, removals, appeals and second decisions
    MaxFaults   \* bound: crashes and failed calls

ASSUME ContentAssumption ==
    /\ None \notin Rows \union Files \union Erasers
    /\ Kept \in Nat /\ Window \in Nat /\ Grace \in Nat
    /\ MaxClock \in Nat /\ MaxActs \in Nat /\ MaxFaults \in Nat

Null    == -1
Decided == {"APPROVED", "REJECTED"}

VARIABLES
    now,
    bytes,       \* files in the storage
    owned,       \* files with a StoredFile record of their owner
    loose,       \* files with a record of no owner
    detachedAt,  \* StoredFile.detachedAt
    opening,     \* detached files found in use by a reader, to be reattached
    row,         \* "none", "checked" (to be saved), "POST", "DRAFT", "gone"
    names,       \* the files a row names
    deletedAt, removed, moderatedAt,  \* of a post
    appeal,      \* "none", "checked" (to be filed) or Appeal.status
    lock,        \* the eraser that holds the row FOR UPDATE
    pc, why, on, \* an eraser: where it stands, who asked, which row
    seenAt,      \* the row's time it read before it took the lock
    todo,        \* files it has still to delete
    cutFile,     \* the file it deleted and has still to forget
    sweep, page, used, cutoff, claimed, claimedAt, \* the erasure of detached files
    orphans,     \* files the orphan scan found unused, to be looked up again
    cleanup,     \* the media-cleanup job of a file
    acts, faults,
    raced,       \* history: rows saved while a file of theirs was being deleted
    hurt,        \* history: rows whose erasure stopped after a file was gone
    reopened     \* history: rows whose decided appeal staff opened again

fileVars  == <<bytes, owned, loose, detachedAt, opening>>
rowVars   == <<row, names, deletedAt, removed, moderatedAt, appeal>>
eraseVars == <<lock, pc, why, on, seenAt, todo, cutFile>>
sweepVars == <<sweep, page, used, cutoff, claimed, claimedAt>>
histVars  == <<raced, hurt, reopened>>
vars == <<now, fileVars, rowVars, eraseVars, sweepVars, orphans, cleanup, acts, faults, histVars>>

Init ==
    /\ now = 0
    /\ bytes = Files /\ owned = Files /\ loose = {}
    /\ detachedAt = [f \in Files |-> Null]
    /\ opening = {}
    /\ row = [r \in Rows |-> "none"]
    /\ names = [r \in Rows |-> {}]
    /\ deletedAt = [r \in Rows |-> Null]
    /\ removed = {}
    /\ moderatedAt = [r \in Rows |-> Null]
    /\ appeal = [r \in Rows |-> "none"]
    /\ lock = [r \in Rows |-> None]
    /\ pc = [x \in Erasers |-> "idle"]
    /\ why = [x \in Erasers |-> "none"]
    /\ on = [x \in Erasers |-> None]
    /\ seenAt = [x \in Erasers |-> Null]
    /\ todo = [x \in Erasers |-> {}]
    /\ cutFile = [x \in Erasers |-> None]
    /\ sweep = "idle" /\ page = {} /\ used = {} /\ cutoff = 0
    /\ claimed = None /\ claimedAt = Null
    /\ orphans = {}
    /\ cleanup = [f \in Files |-> "none"]
    /\ acts = 0 /\ faults = 0
    /\ raced = {} /\ hurt = {} /\ reopened = {}

Act   == acts < MaxActs /\ acts' = acts + 1
Fault == faults < MaxFaults /\ faults' = faults + 1

Present(r) == row[r] \in {"POST", "DRAFT"}
Shown(r)   == Present(r) /\ deletedAt[r] = Null

(* MediaReferencesService.inUse: files some row names; the rows of         *)
(* `ignoring` do not count.                                                *)
InUse(ignoring) == UNION {names[r] : r \in {q \in Rows \ ignoring : Present(q)}}

(* With shownOnly, a row in Recently deleted does not count either. *)
InUseShown(ignoring) == UNION {names[r] : r \in {q \in Rows \ ignoring : Shown(q)}}

Free(r) == lock[r] = None

(* Somebody is past its last look at f: only the deletion is left. *)
Doomed(f) ==
    \/ f \notin bytes
    \/ cleanup[f] # "none"
    \/ claimed = f /\ sweep = "erase"
    \/ \E x \in Erasers : f \in todo[x]

-----------------------------------------------------------------------------
(* PostsService.create, EditsService: the files are checked, then the row  *)
(* is saved.                                                               *)
AssertOwnedBy(r, F) ==
    /\ row[r] = "none"
    /\ F # {} /\ F \subseteq owned
    /\ row' = [row EXCEPT ![r] = "checked"]
    /\ names' = [names EXCEPT ![r] = F]
    /\ UNCHANGED <<now, fileVars, deletedAt, removed, moderatedAt, appeal, eraseVars,
                   sweepVars, orphans, cleanup, acts, faults, histVars>>

Save(r) ==
    /\ row[r] = "checked"
    /\ row' \in {[row EXCEPT ![r] = "POST"], [row EXCEPT ![r] = "DRAFT"]}
    /\ raced' = IF \E f \in names[r] : Doomed(f) THEN raced \union {r} ELSE raced
    /\ UNCHANGED <<now, fileVars, names, deletedAt, removed, moderatedAt, appeal, eraseVars,
                   sweepVars, orphans, cleanup, acts, faults, hurt, reopened>>

Detach(F) == detachedAt' = [f \in Files |-> IF f \in F /\ detachedAt[f] = Null
                                            THEN now ELSE detachedAt[f]]
Reattached(F) == [f \in Files |-> IF f \in F THEN Null ELSE detachedAt[f]]

(* PostsService.remove: into Recently deleted; detachDeleted closes the    *)
(* author's files that no shown row names any more.                        *)
Remove(r) ==
    /\ row[r] = "POST" /\ deletedAt[r] = Null
    /\ Free(r)
    /\ now + Kept < MaxClock
    /\ Act
    /\ deletedAt' = [deletedAt EXCEPT ![r] = now]
    /\ Detach({f \in names[r] \intersect owned :
                 f \notin InUseShown({r})})
    /\ UNCHANGED <<now, opening, bytes, owned, loose, row, names, removed, moderatedAt, appeal,
                   eraseVars, sweepVars, orphans, cleanup, faults, histVars>>

(* EditsService.remove: the row goes at once, release detaches its files. *)
RemoveDraft(r) ==
    /\ row[r] = "DRAFT"
    /\ now + Kept < MaxClock
    /\ Act
    /\ row' = [row EXCEPT ![r] = "gone"]
    /\ Detach((names[r] \intersect (owned \union loose)) \ InUse({r}))
    /\ UNCHANGED <<now, opening, bytes, owned, loose, names, deletedAt, removed, moderatedAt, appeal,
                   eraseVars, sweepVars, orphans, cleanup, faults, histVars>>

(* assertErasable *)
Erasable(r) == row[r] = "POST" /\ deletedAt[r] # Null /\ r \notin removed

(* restorePost *)
RestorePost(r) ==
    /\ Free(r)
    /\ Erasable(r)
    /\ deletedAt[r] >= now - Kept
    /\ deletedAt' = [deletedAt EXCEPT ![r] = Null]
    /\ detachedAt' = Reattached(names[r] \intersect (owned \union loose))
    /\ UNCHANGED <<now, opening, bytes, owned, loose, row, names, removed, moderatedAt, appeal,
                   eraseVars, sweepVars, orphans, cleanup, acts, faults, histVars>>

(* areReadableBy: someone else reads a detached file a shown row uses      *)
(* again, and it is opened, whatever was deleted since it was looked up.   *)
ReadFile(f) ==
    /\ detachedAt[f] # Null
    /\ f \in InUseShown({}) \ opening
    /\ opening' = opening \union {f}
    /\ UNCHANGED <<now, bytes, owned, loose, detachedAt, rowVars, eraseVars, sweepVars, orphans,
                   cleanup, acts, faults, histVars>>

OpenFile(f) ==
    /\ f \in opening
    /\ opening' = opening \ {f}
    /\ detachedAt' = Reattached({f})
    /\ UNCHANGED <<now, bytes, owned, loose, rowVars, eraseVars, sweepVars, orphans, cleanup,
                   acts, faults, histVars>>

-----------------------------------------------------------------------------
(* adminRemove, moderate-content: the update waits for whoever holds the   *)
(* row.  It is a new decision, with an appeal of its own.                  *)
AdminRemove(r) ==
    /\ row[r] = "POST"
    /\ Free(r)
    /\ now + Window < MaxClock
    /\ Act
    /\ removed' = removed \union {r}
    /\ moderatedAt' = [moderatedAt EXCEPT ![r] = now]
    /\ appeal' = [appeal EXCEPT ![r] = IF @ \in Decided THEN "none" ELSE @]
    /\ UNCHANGED <<now, fileVars, row, names, deletedAt, eraseVars, sweepVars, orphans,
                   cleanup, faults, histVars>>

(* Staff show it again, and the time of the removal stays; or they only    *)
(* hide it, which is a decision too.                                       *)
AdminShow(r) ==
    /\ row[r] = "POST" /\ r \in removed
    /\ Free(r)
    /\ removed' = removed \ {r}
    /\ moderatedAt' \in {moderatedAt, [moderatedAt EXCEPT ![r] = now]}
    /\ UNCHANGED <<now, fileVars, row, names, deletedAt, appeal, eraseVars, sweepVars,
                   orphans, cleanup, acts, faults, histVars>>

Deadline(r) == moderatedAt[r] + Window

(* AppealsService.create: the deadline is checked, then the appeal is      *)
(* filed under the row's lock, once per decision.                          *)
CheckDeadline(r) ==
    /\ row[r] = "POST"
    /\ appeal[r] = "none"
    /\ moderatedAt[r] # Null => now <= Deadline(r)
    /\ Act
    /\ appeal' = [appeal EXCEPT ![r] = "checked"]
    /\ UNCHANGED <<now, fileVars, row, names, deletedAt, removed, moderatedAt, eraseVars,
                   sweepVars, orphans, cleanup, faults, histVars>>

FileAppeal(r) ==
    /\ appeal[r] = "checked"
    /\ Free(r)
    /\ appeal' = [appeal EXCEPT ![r] = IF row[r] = "POST" THEN "PENDING" ELSE "none"]
    /\ UNCHANGED <<now, fileVars, row, names, deletedAt, removed, moderatedAt, eraseVars,
                   sweepVars, orphans, cleanup, acts, faults, histVars>>

(* AppealsService.update: staff give an appeal any status.  An approved    *)
(* one makes the post visible again, under its lock.                       *)
DecideAppeal(r) ==
    /\ appeal[r] \in Decided \union {"PENDING"}
    /\ IF appeal[r] \in Decided THEN Act ELSE UNCHANGED acts
    /\ \/ \E to \in {"PENDING", "REJECTED"} \ {appeal[r]} :
             /\ appeal' = [appeal EXCEPT ![r] = to]
             /\ reopened' = IF to = "PENDING" THEN reopened \union {r} ELSE reopened
             /\ UNCHANGED removed
       \/ /\ row[r] = "POST" /\ Free(r)
          /\ appeal[r] # "APPROVED"
          /\ appeal' = [appeal EXCEPT ![r] = "APPROVED"]
          /\ removed' = removed \ {r}
          /\ UNCHANGED reopened
    /\ UNCHANGED <<now, fileVars, row, names, deletedAt, moderatedAt, eraseVars,
                   sweepVars, orphans, cleanup, faults, raced, hurt>>

-----------------------------------------------------------------------------
(* Erasing content: asked for by the author ("delete for good"), by the    *)
(* night of Recently deleted, or by the night of removed content.          *)
Due(r, reason) ==
    CASE reason = "author"  -> TRUE
      [] reason = "deleted" -> Erasable(r) /\ deletedAt[r] < now - Kept
      [] reason = "removed" -> r \in removed /\ Deadline(r) < now

Pick(x, r, reason) ==
    /\ pc[x] = "idle"
    /\ row[r] = "POST"
    /\ Due(r, reason)
    /\ IF reason = "author" THEN Act ELSE UNCHANGED acts
    /\ pc' = [pc EXCEPT ![x] = "lock"]
    /\ why' = [why EXCEPT ![x] = reason]
    /\ on' = [on EXCEPT ![x] = r]
    /\ seenAt' = [seenAt EXCEPT ![x] = IF reason = "deleted" THEN deletedAt[r]
                                       ELSE IF reason = "removed" THEN moderatedAt[r] ELSE Null]
    /\ UNCHANGED <<now, fileVars, rowVars, lock, todo, cutFile, sweepVars, orphans, cleanup,
                   faults, histVars>>

(* The bug of trusting that it is the same deletion. *)
StillTrusting(x) ==
    LET r == on[x] IN
    CASE why[x] = "author"  -> Erasable(r)
      [] why[x] = "deleted" -> Erasable(r)
      [] why[x] = "removed" -> row[r] = "POST" /\ r \in removed

(* What is checked with the row held: assertErasable, stillDeleted,        *)
(* stillRemoved and that no appeal is open.                                *)
Still(x) ==
    LET r == on[x] IN
    CASE why[x] = "author"  -> Erasable(r)
      [] why[x] = "deleted" -> Erasable(r) /\ deletedAt[r] = seenAt[x]
      [] why[x] = "removed" -> /\ row[r] = "POST" /\ r \in removed
                               /\ moderatedAt[r] = seenAt[x]
                               /\ appeal[r] # "PENDING"

StopErasing(x) ==
    /\ lock' = [r \in Rows |-> IF lock[r] = x THEN None ELSE lock[r]]
    /\ pc' = [pc EXCEPT ![x] = "idle"]
    /\ why' = [why EXCEPT ![x] = "none"]
    /\ on' = [on EXCEPT ![x] = None]
    /\ seenAt' = [seenAt EXCEPT ![x] = Null]
    /\ todo' = [todo EXCEPT ![x] = {}]
    /\ cutFile' = [cutFile EXCEPT ![x] = None]

Hold(x) ==
    /\ pc[x] = "lock"
    /\ Free(on[x])
    /\ IF Still(x)
       THEN /\ lock' = [lock EXCEPT ![on[x]] = x]
            /\ pc' = [pc EXCEPT ![x] = "look"]
            /\ UNCHANGED <<why, on, seenAt, todo, cutFile>>
       ELSE StopErasing(x)
    /\ UNCHANGED <<now, fileVars, rowVars, sweepVars, orphans, cleanup, acts, faults, histVars>>

(* The bug of not looking whether another row names the file. *)
ErasableWithAny(r) == names[r] \intersect owned

ErasableWith(r) == (names[r] \intersect owned) \ InUse({r})

LookUp(x) ==
    /\ pc[x] = "look"
    /\ todo' = [todo EXCEPT ![x] = ErasableWith(on[x])]
    /\ pc' = [pc EXCEPT ![x] = "delete"]
    /\ UNCHANGED <<now, fileVars, rowVars, lock, why, on, seenAt, cutFile, sweepVars, orphans,
                   cleanup, acts, faults, histVars>>

(* deleteFile: the bytes, then the record; neither is undone by a rollback. *)
DeleteFile(x, f) ==
    /\ pc[x] = "delete" /\ cutFile[x] = None
    /\ f \in todo[x]
    /\ bytes' = bytes \ {f}
    /\ cutFile' = [cutFile EXCEPT ![x] = f]
    /\ UNCHANGED <<now, opening, owned, loose, detachedAt, rowVars, lock, pc, why, on, seenAt, todo,
                   sweepVars, orphans, cleanup, acts, faults, histVars>>

Forget(F) ==
    /\ owned' = owned \ F
    /\ loose' = loose \ F
    /\ detachedAt' = Reattached(F)

ForgetFile(x) ==
    /\ pc[x] = "delete" /\ cutFile[x] # None
    /\ Forget({cutFile[x]})
    /\ todo' = [todo EXCEPT ![x] = @ \ {cutFile[x]}]
    /\ cutFile' = [cutFile EXCEPT ![x] = None]
    /\ UNCHANGED <<now, opening, bytes, rowVars, lock, pc, why, on, seenAt, sweepVars, orphans, cleanup,
                   acts, faults, histVars>>

(* The row goes and the transaction commits; one that timed out is thrown. *)
EraseRow(x) ==
    /\ pc[x] = "delete" /\ cutFile[x] = None /\ todo[x] = {}
    /\ IF lock[on[x]] = x
       THEN row' = [row EXCEPT ![on[x]] = "gone"] /\ UNCHANGED hurt
       ELSE hurt' = hurt \union {on[x]} /\ UNCHANGED row
    /\ StopErasing(x)
    /\ UNCHANGED <<now, fileVars, names, deletedAt, removed, moderatedAt, appeal, sweepVars,
                   orphans, cleanup, acts, faults, raced, reopened>>

(* A file cannot be deleted, a call throws or the process dies: the row is *)
(* kept, the files already deleted are not.                                *)
EraseFails(x) ==
    /\ pc[x] # "idle"
    /\ Fault
    /\ StopErasing(x)
    /\ hurt' = IF pc[x] = "delete" THEN hurt \union {on[x]} ELSE hurt
    /\ UNCHANGED <<now, fileVars, rowVars, sweepVars, orphans, cleanup, acts, raced, reopened>>

(* ERASE_TRANSACTION runs out: the row is free while the files still go. *)
TimesOut(x) ==
    /\ pc[x] \in {"look", "delete"}
    /\ lock[on[x]] = x
    /\ Fault
    /\ lock' = [lock EXCEPT ![on[x]] = None]
    /\ hurt' = hurt \union {on[x]}
    /\ UNCHANGED <<now, fileVars, rowVars, pc, why, on, seenAt, todo, cutFile, sweepVars,
                   orphans, cleanup, acts, raced, reopened>>

-----------------------------------------------------------------------------
(* DetachedFilesErasureService.eraseExpired *)
Expired(f, c) == f \in owned /\ detachedAt[f] # Null /\ detachedAt[f] < c

ReadPage ==
    /\ sweep = "idle"
    /\ \E f \in Files : Expired(f, now - Kept)
    /\ sweep' = "used"
    /\ cutoff' = now - Kept
    /\ page' = {f \in Files : Expired(f, now - Kept)}
    /\ UNCHANGED <<now, fileVars, rowVars, eraseVars, used, claimed, claimedAt, orphans,
                   cleanup, acts, faults, histVars>>

FindUsed ==
    /\ sweep = "used"
    /\ used' = page \intersect InUse({})
    /\ page' = page \ InUse({})
    /\ sweep' = "reattach"
    /\ UNCHANGED <<now, fileVars, rowVars, eraseVars, cutoff, claimed, claimedAt, orphans,
                   cleanup, acts, faults, histVars>>

ReattachUsed ==
    /\ sweep = "reattach"
    /\ detachedAt' = Reattached(used)
    /\ used' = {}
    /\ sweep' = "claim"
    /\ UNCHANGED <<now, opening, bytes, owned, loose, rowVars, eraseVars, page, cutoff, claimed,
                   claimedAt, orphans, cleanup, acts, faults, histVars>>

(* claimExpired: the record is taken before the bytes go. *)
ClaimExpired(f) ==
    /\ sweep = "claim"
    /\ f \in page
    /\ page' = page \ {f}
    /\ IF Expired(f, cutoff)
       THEN /\ owned' = owned \ {f}
            /\ claimed' = f
            /\ claimedAt' = detachedAt[f]
            /\ detachedAt' = Reattached({f})
            /\ sweep' = "look"
       ELSE UNCHANGED <<owned, claimed, claimedAt, detachedAt, sweep>>
    /\ UNCHANGED <<now, opening, bytes, loose, rowVars, eraseVars, used, cutoff, orphans, cleanup,
                   acts, faults, histVars>>

EndClaim ==
    /\ claimed' = None /\ claimedAt' = Null
    /\ sweep' = "claim"

(* The bug of a record written over one made meanwhile. *)
RestoreClaimedAlways(at) ==
    /\ owned' = owned \union {claimed}
    /\ detachedAt' = [detachedAt EXCEPT ![claimed] = at]

(* restoreClaimed writes nothing over a record made meanwhile. *)
RestoreClaimed(at) ==
    IF claimed \in loose THEN UNCHANGED <<owned, detachedAt>>
    ELSE /\ owned' = owned \union {claimed}
         /\ detachedAt' = [detachedAt EXCEPT ![claimed] = at]

(* The bug of not looking again once the record is taken. *)
NoSecondLook ==
    /\ sweep = "look"
    /\ sweep' = "erase"
    /\ UNCHANGED <<now, fileVars, rowVars, eraseVars, page, used, cutoff, claimed, claimedAt,
                   orphans, cleanup, acts, faults, histVars>>

(* A row saved since the page was read keeps the file. *)
SecondLook ==
    /\ sweep = "look"
    /\ IF claimed \in InUse({})
       THEN RestoreClaimed(Null) /\ EndClaim
       ELSE sweep' = "erase" /\ UNCHANGED <<owned, detachedAt, claimed, claimedAt>>
    /\ UNCHANGED <<now, opening, bytes, loose, rowVars, eraseVars, page, used, cutoff, orphans, cleanup,
                   acts, faults, histVars>>

EraseBytes ==
    /\ sweep = "erase"
    /\ bytes' = bytes \ {claimed}
    /\ EndClaim
    /\ UNCHANGED <<now, opening, owned, loose, detachedAt, rowVars, eraseVars, page, used, cutoff,
                   orphans, cleanup, acts, faults, histVars>>

(* The second look or the storage fails: the record comes back. *)
EraseBytesFails ==
    /\ sweep \in {"look", "erase"}
    /\ Fault
    /\ RestoreClaimed(claimedAt)
    /\ EndClaim
    /\ UNCHANGED <<now, opening, bytes, loose, rowVars, eraseVars, page, used, cutoff, orphans, cleanup,
                   acts, histVars>>

StopSweep ==
    /\ sweep' = "idle" /\ page' = {} /\ used' = {} /\ cutoff' = 0
    /\ claimed' = None /\ claimedAt' = Null

EndSweep ==
    /\ sweep = "claim" /\ page = {}
    /\ StopSweep
    /\ UNCHANGED <<now, fileVars, rowVars, eraseVars, orphans, cleanup, acts, faults, histVars>>

SweepDies ==
    /\ sweep # "idle"
    /\ Fault
    /\ StopSweep
    /\ UNCHANGED <<now, fileVars, rowVars, eraseVars, orphans, cleanup, acts, histVars>>

-----------------------------------------------------------------------------
(* The bug of taking a recorded owner for a use of the file. *)
ScanOrphansUnowned ==
    LET found == {f \in bytes \ owned : f \notin InUse({})} IN
    /\ orphans = {}
    /\ now >= Grace
    /\ found # {} \/ ~(bytes \subseteq owned \union loose)
    /\ orphans' = found
    /\ loose' = loose \union (bytes \ owned)
    /\ UNCHANGED <<now, opening, bytes, owned, detachedAt, rowVars, eraseVars, sweepVars, cleanup, acts,
                   faults, histVars>>

(* detectAndReconcileOrphans: files past the grace that no row names and   *)
(* that are not kept for deleted content.  A file without a record gets    *)
(* one of no owner.                                                        *)
ScanOrphans ==
    LET kept == {f \in owned \union loose : detachedAt[f] >= now - Kept /\ detachedAt[f] # Null}
        found == {f \in bytes : f \notin InUse({}) /\ f \notin kept} IN
    /\ orphans = {}
    /\ now >= Grace
    /\ found # {} \/ ~(bytes \subseteq owned \union loose)
    /\ orphans' = found
    /\ loose' = loose \union (bytes \ owned)
    /\ UNCHANGED <<now, opening, bytes, owned, detachedAt, rowVars, eraseVars, sweepVars, cleanup, acts,
                   faults, histVars>>

(* They are looked up again and handed to the media-cleanup queue. *)
ScheduleDeletion ==
    /\ orphans # {}
    /\ orphans' = {}
    /\ cleanup' = [f \in Files |-> IF f \in orphans \ InUse({}) /\ cleanup[f] = "none"
                                   THEN "queued" ELSE cleanup[f]]
    /\ UNCHANGED <<now, fileVars, rowVars, eraseVars, sweepVars, acts, faults, histVars>>

(* MediaCleanupProcessor *)
CleanUp(f) ==
    /\ \/ /\ cleanup[f] = "queued"
          /\ bytes' = bytes \ {f}
          /\ cleanup' = [cleanup EXCEPT ![f] = "forget"]
          /\ UNCHANGED <<owned, loose, detachedAt>>
       \/ /\ cleanup[f] = "forget"
          /\ cleanup' = [cleanup EXCEPT ![f] = "none"]
          /\ Forget({f})
          /\ UNCHANGED bytes
    /\ UNCHANGED <<now, opening, rowVars, eraseVars, sweepVars, orphans, acts, faults, histVars>>

(* Its attempts are used up: the next night finds the file again. *)
CleanUpGivesUp(f) ==
    /\ cleanup[f] # "none"
    /\ Fault
    /\ cleanup' = [cleanup EXCEPT ![f] = "none"]
    /\ UNCHANGED <<now, fileVars, rowVars, eraseVars, sweepVars, orphans, acts, histVars>>

Tick ==
    /\ now < MaxClock
    /\ now' = now + 1
    /\ UNCHANGED <<fileVars, rowVars, eraseVars, sweepVars, orphans, cleanup, acts, faults,
                   histVars>>

-----------------------------------------------------------------------------
Person(r) ==
    \/ \E F \in SUBSET Files : AssertOwnedBy(r, F)
    \/ Save(r) \/ Remove(r) \/ RemoveDraft(r) \/ RestorePost(r)
    \/ AdminRemove(r) \/ AdminShow(r) \/ CheckDeadline(r) \/ FileAppeal(r) \/ DecideAppeal(r)

Erase(x) ==
    \/ Hold(x) \/ LookUp(x) \/ ForgetFile(x) \/ EraseRow(x)
    \/ \E f \in Files : DeleteFile(x, f)

PickDue(r) == \E x \in Erasers : Pick(x, r, "deleted") \/ Pick(x, r, "removed")

Sweep ==
    \/ ReadPage \/ FindUsed \/ ReattachUsed \/ SecondLook \/ EraseBytes \/ EndSweep
    \/ \E f \in Files : ClaimExpired(f)

Orphans == ScanOrphans \/ ScheduleDeletion

Next ==
    \/ \E r \in Rows : Person(r)
    \/ \E x \in Erasers, r \in Rows : Pick(x, r, "author")
    \/ \E r \in Rows : PickDue(r)
    \/ \E x \in Erasers : Erase(x) \/ EraseFails(x) \/ TimesOut(x)
    \/ Sweep \/ EraseBytesFails \/ SweepDies
    \/ Orphans
    \/ \E f \in Files : ReadFile(f) \/ OpenFile(f) \/ CleanUp(f) \/ CleanUpGivesUp(f)
    \/ Tick

Spec == Init /\ [][Next]_vars

(* The nightly jobs go through every row that is due, night after night,   *)
(* and their calls return; the queue runs its jobs.                        *)
(* Nothing forces the author, the staff or a fault.                        *)
Fairness ==
    /\ WF_vars(Tick)
    /\ \A x \in Erasers : WF_vars(Erase(x))
    /\ \A r \in Rows : SF_vars(PickDue(r))
    /\ WF_vars(Sweep)
    /\ WF_vars(Orphans)
    /\ \A f \in Files : WF_vars(CleanUp(f))

FairSpec == Spec /\ Fairness

-----------------------------------------------------------------------------
TypeOK ==
    /\ now \in 0..MaxClock
    /\ bytes \subseteq Files /\ owned \subseteq Files /\ loose \subseteq Files
    /\ opening \subseteq Files
    /\ owned \intersect loose = {}
    /\ \A f \in Files : detachedAt[f] # Null => f \in owned \union loose
    /\ row \in [Rows -> {"none", "checked", "POST", "DRAFT", "gone"}]
    /\ names \in [Rows -> SUBSET Files]
    /\ deletedAt \in [Rows -> Null..MaxClock]
    /\ removed \subseteq Rows
    /\ appeal \in [Rows -> {"none", "checked", "PENDING"} \union Decided]
    /\ lock \in [Rows -> Erasers \union {None}]
    /\ \A r \in Rows : lock[r] # None => on[lock[r]] = r
    /\ pc \in [Erasers -> {"idle", "lock", "look", "delete"}]
    /\ todo \in [Erasers -> SUBSET Files]
    /\ sweep \in {"idle", "used", "reattach", "claim", "look", "erase"}
    /\ claimed \in Files \union {None}
    /\ cleanup \in [Files -> {"none", "queued", "forget"}]

(* A row that is kept has its files: neither a nightly job, with what it   *)
(* read before the row was saved or restored, nor the erasure of another   *)
(* row that shares a file, takes them.  Excepted are a row saved after a   *)
(* deletion had its last look at a file the author chose before, and one   *)
(* whose own erasure broke off after its files began to go.                *)
KeptRowsHaveFiles ==
    \A r \in Rows : Present(r) /\ Free(r) /\ r \notin raced \union hurt
        => names[r] \subseteq bytes

(* A post goes for good only when its author asks for it, when its 30 days *)
(* in Recently deleted are over or when the time to appeal its removal is, *)
(* with no appeal open: whatever was restored, deleted again, removed      *)
(* again or appealed since the nightly job read it.  Only a decided appeal *)
(* that staff open again, without the row's lock, can come too late.       *)
ErasedOnlyWhenDue ==
    [][\A r \in Rows : row[r] = "POST" /\ row'[r] = "gone" =>
          \/ r \in removed /\ Deadline(r) < now /\ (appeal[r] # "PENDING" \/ r \in reopened)
          \/ /\ r \notin removed /\ deletedAt[r] # Null
             /\ \/ deletedAt[r] < now - Kept
                \/ \E x \in Erasers : on[x] = r /\ why[x] = "author"]_vars

(* Nothing is stored for ever: in the end every file left is named by a    *)
(* row, and every post whose days are over is gone.                        *)
LeftoversGo ==
    <>[](/\ bytes \subseteq InUse({})
         /\ \A r \in Rows : ~(Erasable(r) /\ deletedAt[r] < now - Kept))
=============================================================================
