------------------------- MODULE AccountErasureProofs -------------------------
(***************************************************************************)
(* The safety of erasing an account, for any number of requests, of        *)
(* deletions, of decisions of staff and of faults, and any grace window.   *)
(***************************************************************************)
EXTENDS AccountErasure, TLAPS

Waited == firstAsked # Null /\ now >= firstAsked + Grace

(* Unless staff erase the account: what is to erase it was put in place    *)
(* by a request of the person, and can run only after the window of the    *)
(* first one.                                                              *)
WindowInv ==
    /\ firstAsked # Null => firstAsked <= now /\ firstAsked + Grace <= MaxClock
    /\ erasures = 0 =>
        /\ outbox["delete-now"] = 0
        /\ state["delete-now"] = "absent"
        /\ outbox["delete"] > 0 => firstAsked # Null
        /\ scheduledDeletionAt # Null =>
              firstAsked # Null /\ scheduledDeletionAt >= firstAsked + Grace
        /\ state["delete"] = "queued" =>
              firstAsked # Null /\ runAt["delete"] >= firstAsked + Grace
        /\ state["delete"] \in {"completed", "failed"} => Waited
        /\ pc["delete"] # "idle" => Waited
        /\ cron # "idle" => Waited

(* An account with a date is one whose deletion was the last decision, or  *)
(* one that staff, or its owner's late login, reactivated with the date    *)
(* left in the row.                                                        *)
WantedInv == exists /\ scheduledDeletionAt # Null => wanted \/ reactivated

-----------------------------------------------------------------------------
(* The part of the types that the queue is in. *)
JobTypes ==
    /\ state \in [JobIds -> {"absent", "queued", "completed", "failed"}]
    /\ runAt \in [JobIds -> 0..MaxClock]
    /\ attemptsLeft \in [JobIds -> 0..Attempts]
    /\ kept \in [JobIds -> BOOLEAN]
    /\ pc \in [JobIds -> {"idle", "check", "cleanup", "erase", "finish"}]
    /\ \A j \in JobIds : pc[j] # "idle" => state[j] = "queued"

(* A job that is added has a place in the queue, and no worker. *)
LEMMA AddTypes ==
    ASSUME TypeOK, NEW j \in JobIds, NEW at \in Nat, NEW keep \in BOOLEAN,
           AddJob(j, at, Attempts, keep)
    PROVE  JobTypes'
  <1> USE ErasureAssumption DEF TypeOK, JobTypes, AddJob, jobVars
  <1>1. CASE state[j] = "absent"
    <2>1. pc[j] = "idle"
      BY <1>1
    <2>2. runAt' \in [JobIds -> 0..MaxClock] /\ attemptsLeft' \in [JobIds -> 0..Attempts]
      BY <1>1
    <2> QED
      BY <1>1, <2>1, <2>2
  <1>2. CASE state[j] # "absent"
    BY <1>2
  <1> QED
    BY <1>1, <1>2

(* A job that no worker holds may go. *)
LEMMA ForgetTypes ==
    ASSUME TypeOK, NEW j \in JobIds, pc[j] = "idle", Forget(j), UNCHANGED pc
    PROVE  JobTypes'
  BY ErasureAssumption DEF TypeOK, JobTypes, Forget

(* A step keeps the types. *)
LEMMA TypeStep == TypeOK /\ [Next]_vars => TypeOK'
  <1> SUFFICES ASSUME TypeOK, [Next]_vars PROVE TypeOK'
    OBVIOUS
  <1> USE ErasureAssumption DEF rowVars, jobVars, countVars, histVars, TypeOK, Dates, Null, JobIds
  <1>1. ASSUME NEW s \in Sessions, NEW op \in {"schedule", "deactivate", "cancel"}, Request(s, op)
        PROVE  TypeOK'
    BY <1>1 DEF Request, Goto
  <1>2. ASSUME NEW s \in Sessions, ScheduleDeletion(s) PROVE TypeOK'
    <2>1. outbox' \in [JobIds -> Nat] /\ scheduledDeletionAt' \in Nat /\ deletedAt' \in Nat
      BY <1>2 DEF ScheduleDeletion, MarkForErasure
    <2>2. sess' \in [Sessions -> {"idle", "schedule", "deactivate", "cancel", "restore",
                                  "reactivate", "removeJob"}]
      BY <1>2 DEF ScheduleDeletion, Goto
    <2> QED
      <3>1. UNCHANGED <<now, exists, deactivated, banned, jobVars, cron, staffActs, faults, erasures>>
        BY <1>2 DEF ScheduleDeletion, MarkForErasure
      <3>2. requests' \in 0..MaxRequests /\ firstAsked' \in Dates
        BY <1>2 DEF ScheduleDeletion
      <3>3. isActive' = FALSE /\ wanted' = TRUE /\ reactivated' = FALSE
        BY <1>2 DEF ScheduleDeletion, MarkForErasure
      <3>4. (deletedAt = Null <=> scheduledDeletionAt = Null)'
        BY <2>1
      <3>5. JobTypes'
        BY <3>1 DEF JobTypes
      <3> QED
        BY <2>1, <2>2, <3>1, <3>2, <3>3, <3>4, <3>5 DEF JobTypes
  <1>3. ASSUME EraseNow PROVE TypeOK'
    <2>1. outbox' \in [JobIds -> Nat] /\ scheduledDeletionAt' \in Nat /\ deletedAt' \in Nat
      BY <1>3 DEF EraseNow, MarkForErasure
    <2> QED
      <3>1. UNCHANGED <<now, exists, deactivated, banned, jobVars, cron, sess, staffActs, faults,
                        requests, firstAsked>>
        BY <1>3 DEF EraseNow, MarkForErasure
      <3>2. erasures' \in 0..MaxErasures
        BY <1>3 DEF EraseNow
      <3>3. isActive' = FALSE /\ wanted' = TRUE /\ reactivated' = FALSE
        BY <1>3 DEF EraseNow, MarkForErasure
      <3>4. (deletedAt = Null <=> scheduledDeletionAt = Null)'
        BY <2>1
      <3>5. JobTypes'
        BY <3>1 DEF JobTypes
      <3> QED
        BY <2>1, <3>1, <3>2, <3>3, <3>4, <3>5 DEF JobTypes
  <1>4. ASSUME NEW s \in Sessions, Deactivate(s) PROVE TypeOK'
    BY <1>4 DEF Deactivate, Goto
  <1>5. ASSUME NEW s \in Sessions, CancelRead(s) PROVE TypeOK'
    BY <1>5 DEF CancelRead, Goto
  <1>6. ASSUME NEW s \in Sessions, LoginRead(s) PROVE TypeOK'
    BY <1>6 DEF LoginRead, Goto
  <1>7. ASSUME NEW s \in Sessions, Reactivate(s) PROVE TypeOK'
    BY <1>7 DEF Reactivate, Goto
  <1>8. ASSUME NEW s \in Sessions, Restore(s) PROVE TypeOK'
    BY <1>8 DEF Restore, Goto
  <1>9. ASSUME NEW s \in Sessions, RowIsGone(s) PROVE TypeOK'
    BY <1>9 DEF RowIsGone, Goto
  <1>10. ASSUME NEW s \in Sessions, RemoveJob(s) PROVE TypeOK'
    <2>1. JobTypes'
      BY <1>10, ForgetTypes DEF RemoveJob, Fault, JobTypes
    <2>2. sess' \in [Sessions -> {"idle", "schedule", "deactivate", "cancel", "restore",
                                  "reactivate", "removeJob"}]
      BY <1>10 DEF RemoveJob, Goto
    <2>3. faults' \in 0..MaxFaults
      BY <1>10 DEF RemoveJob, Fault
    <2> QED
      BY <1>10, <2>1, <2>2, <2>3 DEF RemoveJob, JobTypes
  <1>11. ASSUME NEW active \in BOOLEAN, NEW ban \in BOOLEAN, Staff(active, ban) PROVE TypeOK'
    BY <1>11 DEF Staff
  <1>12. ASSUME NEW j \in JobIds, Publish(j) PROVE TypeOK'
    <2>1. JobTypes'
      <3>1. now + Delay(j) \in Nat
        BY DEF Delay
      <3> HIDE DEF TypeOK, JobIds
      <3>2. AddJob(j, now + Delay(j), Attempts, FALSE)
        BY <1>12, Zenon DEF Publish
      <3> QED
        BY <3>1, <3>2, AddTypes, Zenon
    <2>2. outbox' \in [JobIds -> Nat] /\ faults' \in 0..MaxFaults
      BY <1>12 DEF Publish, Fault
    <2> QED
      BY <1>12, <2>1, <2>2 DEF Publish, JobTypes
  <1>13. ASSUME NEW j \in JobIds, OutboxGivesUp(j) PROVE TypeOK'
    BY <1>13 DEF OutboxGivesUp, Fault
  <1>14. ASSUME NEW j \in JobIds, StartJob(j) PROVE TypeOK'
    BY <1>14 DEF StartJob
  <1>15. ASSUME NEW j \in JobIds, CheckLifecycle(j) PROVE TypeOK'
    BY <1>15 DEF CheckLifecycle
  <1>16. ASSUME NEW j \in JobIds, Cleanup(j) PROVE TypeOK'
    BY <1>16 DEF Cleanup
  <1>17. ASSUME NEW j \in JobIds, Erase(j) PROVE TypeOK'
    <2>1. pc' = [pc EXCEPT ![j] = "finish"] /\ pc[j] = "erase"
      BY <1>17 DEF Erase
    <2>2. UNCHANGED <<now, outbox, state, runAt, attemptsLeft, kept, cron, sess, countVars, histVars>>
      BY <1>17 DEF Erase
    <2>3. CASE RowGone
      BY <2>1, <2>2, <2>3 DEF RowGone
    <2>4. CASE UNCHANGED rowVars
      BY <2>1, <2>2, <2>4
    <2> QED
      BY <1>17, <2>3, <2>4, Zenon DEF Erase
  <1>18. ASSUME NEW j \in JobIds, FinishJob(j) PROVE TypeOK'
    <2>1. pc' = [pc EXCEPT ![j] = "idle"] /\ \A i \in JobIds \ {j} : state'[i] = state[i]
      BY <1>18 DEF FinishJob, Forget
    <2>2. state' \in [JobIds -> {"absent", "queued", "completed", "failed"}]
      BY <1>18 DEF FinishJob, Forget
    <2>3. runAt' \in [JobIds -> 0..MaxClock] /\ attemptsLeft' \in [JobIds -> 0..Attempts]
      BY <1>18 DEF FinishJob, Forget
    <2>4. kept' \in [JobIds -> BOOLEAN]
      <3>1. kept' = kept \/ kept' = [kept EXCEPT ![j] = FALSE]
        BY <1>18, Zenon DEF FinishJob, Forget
      <3> QED
        BY <3>1
    <2> QED
      BY <1>18, <2>1, <2>2, <2>3, <2>4 DEF FinishJob
  <1>19. ASSUME NEW j \in JobIds, JobThrows(j) PROVE TypeOK'
    BY <1>19 DEF JobThrows, Fault
  <1>20. ASSUME NEW j \in JobIds, JobStalls(j) PROVE TypeOK'
    BY <1>20 DEF JobStalls, Fault
  <1>21. ASSUME NEW j \in JobIds, Evict(j) PROVE TypeOK'
    BY <1>21 DEF Evict, Forget
  <1>22. ASSUME CronFind PROVE TypeOK'
    BY <1>22 DEF CronFind, IsExpired
  <1>23. ASSUME CronLook PROVE TypeOK'
    BY <1>23 DEF CronLook
  <1>24. ASSUME CronRetry PROVE TypeOK'
    BY <1>24 DEF CronRetry
  <1>25. ASSUME CronAdd PROVE TypeOK'
    <2>1. JobTypes'
      <3>1. now \in Nat /\ "delete" \in JobIds
        OBVIOUS
      <3> HIDE DEF TypeOK, JobIds
      <3>2. AddJob("delete", now, Attempts, TRUE)
        BY <1>25, Zenon DEF CronAdd
      <3> QED
        BY <3>1, <3>2, AddTypes, Zenon
    <2> QED
      BY <1>25, <2>1 DEF CronAdd, JobTypes
  <1>26. ASSUME CronThrows PROVE TypeOK'
    BY <1>26 DEF CronThrows, Fault
  <1>27. ASSUME Tick PROVE TypeOK'
    BY <1>27 DEF Tick
  <1>28. CASE UNCHANGED vars
    BY <1>28 DEF vars
  <1> QED
    BY <1>1, <1>2, <1>3, <1>4, <1>5, <1>6, <1>7, <1>8, <1>9, <1>10, <1>11, <1>12, <1>13, <1>14,
        <1>15, <1>16, <1>17, <1>18, <1>19, <1>20, <1>21, <1>22, <1>23, <1>24, <1>25, <1>26, <1>27,
        <1>28
    DEF Next, SessionStep, StaffStep, JobStep, JobFault, CronStep, BanUser, UnbanUser,
       SuspendUser, RestoreUser, TypeOK

(* A step brings no erasure before the window of the first request has passed. *)
LEMMA WindowStep == TypeOK /\ WindowInv /\ [Next]_vars => WindowInv'
  <1> SUFFICES ASSUME TypeOK, WindowInv, [Next]_vars PROVE WindowInv'
    OBVIOUS
  <1> USE ErasureAssumption DEF rowVars, jobVars, countVars, histVars, TypeOK, Dates, Null, JobIds,
     WindowInv, Waited
  <1>1. ASSUME NEW s \in Sessions, NEW op \in {"schedule", "deactivate", "cancel"}, Request(s, op)
        PROVE  WindowInv'
    BY <1>1 DEF Request, Goto
  <1>2. ASSUME NEW s \in Sessions, ScheduleDeletion(s) PROVE WindowInv'
    BY <1>2 DEF ScheduleDeletion, MarkForErasure, Goto
  <1>3. ASSUME EraseNow PROVE WindowInv'
    BY <1>3 DEF EraseNow, MarkForErasure
  <1>4. ASSUME NEW s \in Sessions, Deactivate(s) PROVE WindowInv'
    BY <1>4 DEF Deactivate, Goto
  <1>5. ASSUME NEW s \in Sessions, CancelRead(s) PROVE WindowInv'
    BY <1>5 DEF CancelRead, Goto
  <1>6. ASSUME NEW s \in Sessions, LoginRead(s) PROVE WindowInv'
    BY <1>6 DEF LoginRead, Goto
  <1>7. ASSUME NEW s \in Sessions, Reactivate(s) PROVE WindowInv'
    BY <1>7 DEF Reactivate, Goto
  <1>8. ASSUME NEW s \in Sessions, Restore(s) PROVE WindowInv'
    BY <1>8 DEF Restore, Goto
  <1>9. ASSUME NEW s \in Sessions, RowIsGone(s) PROVE WindowInv'
    BY <1>9 DEF RowIsGone, Goto
  <1>10. ASSUME NEW s \in Sessions, RemoveJob(s) PROVE WindowInv'
    BY <1>10 DEF RemoveJob, Forget, Goto, Fault
  <1>11. ASSUME NEW active \in BOOLEAN, NEW ban \in BOOLEAN, Staff(active, ban) PROVE WindowInv'
    BY <1>11 DEF Staff
  <1>12. ASSUME NEW j \in JobIds, Publish(j) PROVE WindowInv'
    BY <1>12 DEF Publish, AddJob, Delay, Fault
  <1>13. ASSUME NEW j \in JobIds, OutboxGivesUp(j) PROVE WindowInv'
    BY <1>13 DEF OutboxGivesUp, Fault
  <1>14. ASSUME NEW j \in JobIds, StartJob(j) PROVE WindowInv'
    BY <1>14 DEF StartJob
  <1>15. ASSUME NEW j \in JobIds, CheckLifecycle(j) PROVE WindowInv'
    BY <1>15 DEF CheckLifecycle
  <1>16. ASSUME NEW j \in JobIds, Cleanup(j) PROVE WindowInv'
    BY <1>16 DEF Cleanup
  <1>17. ASSUME NEW j \in JobIds, Erase(j) PROVE WindowInv'
    BY <1>17 DEF Erase, StillScheduled, RowGone
  <1>18. ASSUME NEW j \in JobIds, FinishJob(j) PROVE WindowInv'
    BY <1>18 DEF FinishJob, Forget
  <1>19. ASSUME NEW j \in JobIds, JobThrows(j) PROVE WindowInv'
    BY <1>19 DEF JobThrows, Fault
  <1>20. ASSUME NEW j \in JobIds, JobStalls(j) PROVE WindowInv'
    BY <1>20 DEF JobStalls, Fault
  <1>21. ASSUME NEW j \in JobIds, Evict(j) PROVE WindowInv'
    BY <1>21 DEF Evict, Forget
  <1>22. ASSUME CronFind PROVE WindowInv'
    BY <1>22 DEF CronFind, IsExpired
  <1>23. ASSUME CronLook PROVE WindowInv'
    BY <1>23 DEF CronLook
  <1>24. ASSUME CronRetry PROVE WindowInv'
    BY <1>24 DEF CronRetry
  <1>25. ASSUME CronAdd PROVE WindowInv'
    BY <1>25 DEF CronAdd, AddJob
  <1>26. ASSUME CronThrows PROVE WindowInv'
    BY <1>26 DEF CronThrows, Fault
  <1>27. ASSUME Tick PROVE WindowInv'
    BY <1>27 DEF Tick
  <1>28. CASE UNCHANGED vars
    BY <1>28 DEF vars
  <1> QED
    BY <1>1, <1>2, <1>3, <1>4, <1>5, <1>6, <1>7, <1>8, <1>9, <1>10, <1>11, <1>12, <1>13, <1>14,
        <1>15, <1>16, <1>17, <1>18, <1>19, <1>20, <1>21, <1>22, <1>23, <1>24, <1>25, <1>26, <1>27,
        <1>28
    DEF Next, SessionStep, StaffStep, JobStep, JobFault, CronStep, BanUser, UnbanUser,
       SuspendUser, RestoreUser, TypeOK

(* A step gives an account dates only when its deletion is decided. *)
LEMMA WantedStep == TypeOK /\ WantedInv /\ [Next]_vars => WantedInv'
  <1> SUFFICES ASSUME TypeOK, WantedInv, [Next]_vars PROVE WantedInv'
    OBVIOUS
  <1> USE ErasureAssumption DEF rowVars, jobVars, countVars, histVars, TypeOK, Dates, Null, JobIds,
     WantedInv
  <1>1. ASSUME NEW s \in Sessions, NEW op \in {"schedule", "deactivate", "cancel"}, Request(s, op)
        PROVE  WantedInv'
    BY <1>1 DEF Request, Goto
  <1>2. ASSUME NEW s \in Sessions, ScheduleDeletion(s) PROVE WantedInv'
    BY <1>2 DEF ScheduleDeletion, MarkForErasure, Goto
  <1>3. ASSUME EraseNow PROVE WantedInv'
    BY <1>3 DEF EraseNow, MarkForErasure
  <1>4. ASSUME NEW s \in Sessions, Deactivate(s) PROVE WantedInv'
    BY <1>4 DEF Deactivate, Goto
  <1>5. ASSUME NEW s \in Sessions, CancelRead(s) PROVE WantedInv'
    BY <1>5 DEF CancelRead, Goto
  <1>6. ASSUME NEW s \in Sessions, LoginRead(s) PROVE WantedInv'
    BY <1>6 DEF LoginRead, Goto
  <1>7. ASSUME NEW s \in Sessions, Reactivate(s) PROVE WantedInv'
    BY <1>7 DEF Reactivate, Goto
  <1>8. ASSUME NEW s \in Sessions, Restore(s) PROVE WantedInv'
    BY <1>8 DEF Restore, Goto
  <1>9. ASSUME NEW s \in Sessions, RowIsGone(s) PROVE WantedInv'
    BY <1>9 DEF RowIsGone, Goto
  <1>10. ASSUME NEW s \in Sessions, RemoveJob(s) PROVE WantedInv'
    BY <1>10 DEF RemoveJob, Forget, Goto, Fault
  <1>11. ASSUME NEW active \in BOOLEAN, NEW ban \in BOOLEAN, Staff(active, ban) PROVE WantedInv'
    BY <1>11 DEF Staff
  <1>12. ASSUME NEW j \in JobIds, Publish(j) PROVE WantedInv'
    BY <1>12 DEF Publish, AddJob, Delay, Fault
  <1>13. ASSUME NEW j \in JobIds, OutboxGivesUp(j) PROVE WantedInv'
    BY <1>13 DEF OutboxGivesUp, Fault
  <1>14. ASSUME NEW j \in JobIds, StartJob(j) PROVE WantedInv'
    BY <1>14 DEF StartJob
  <1>15. ASSUME NEW j \in JobIds, CheckLifecycle(j) PROVE WantedInv'
    BY <1>15 DEF CheckLifecycle
  <1>16. ASSUME NEW j \in JobIds, Cleanup(j) PROVE WantedInv'
    BY <1>16 DEF Cleanup
  <1>17. ASSUME NEW j \in JobIds, Erase(j) PROVE WantedInv'
    BY <1>17 DEF Erase, StillScheduled, RowGone
  <1>18. ASSUME NEW j \in JobIds, FinishJob(j) PROVE WantedInv'
    BY <1>18 DEF FinishJob, Forget
  <1>19. ASSUME NEW j \in JobIds, JobThrows(j) PROVE WantedInv'
    BY <1>19 DEF JobThrows, Fault
  <1>20. ASSUME NEW j \in JobIds, JobStalls(j) PROVE WantedInv'
    BY <1>20 DEF JobStalls, Fault
  <1>21. ASSUME NEW j \in JobIds, Evict(j) PROVE WantedInv'
    BY <1>21 DEF Evict, Forget
  <1>22. ASSUME CronFind PROVE WantedInv'
    BY <1>22 DEF CronFind, IsExpired
  <1>23. ASSUME CronLook PROVE WantedInv'
    BY <1>23 DEF CronLook
  <1>24. ASSUME CronRetry PROVE WantedInv'
    BY <1>24 DEF CronRetry
  <1>25. ASSUME CronAdd PROVE WantedInv'
    BY <1>25 DEF CronAdd, AddJob
  <1>26. ASSUME CronThrows PROVE WantedInv'
    BY <1>26 DEF CronThrows, Fault
  <1>27. ASSUME Tick PROVE WantedInv'
    BY <1>27 DEF Tick
  <1>28. CASE UNCHANGED vars
    BY <1>28 DEF vars
  <1> QED
    BY <1>1, <1>2, <1>3, <1>4, <1>5, <1>6, <1>7, <1>8, <1>9, <1>10, <1>11, <1>12, <1>13, <1>14,
        <1>15, <1>16, <1>17, <1>18, <1>19, <1>20, <1>21, <1>22, <1>23, <1>24, <1>25, <1>26, <1>27,
        <1>28
    DEF Next, SessionStep, StaffStep, JobStep, JobFault, CronStep, BanUser, UnbanUser,
       SuspendUser, RestoreUser, TypeOK

-----------------------------------------------------------------------------
EraseInv == TypeOK /\ WindowInv /\ WantedInv

(* At the start nobody asked for anything. *)
LEMMA InitErase == Init => EraseInv
  <1> SUFFICES ASSUME Init PROVE EraseInv
    OBVIOUS
  <1> USE ErasureAssumption DEF Init, JobIds, Null
  <1>1. TypeOK
    <2>1. JobTypes
      BY DEF JobTypes
    <2>2. outbox \in [JobIds -> Nat] /\ (deletedAt = Null <=> scheduledDeletionAt = Null)
      OBVIOUS
    <2>3. now \in 0..MaxClock /\ requests \in 0..MaxRequests /\ erasures \in 0..MaxErasures
      OBVIOUS
    <2>4. staffActs \in 0..MaxStaff /\ faults \in 0..MaxFaults
      OBVIOUS
    <2> QED
      BY <2>1, <2>2, <2>3, <2>4 DEF TypeOK, JobTypes, Dates
  <1>2. WindowInv /\ WantedInv
    BY DEF WindowInv, WantedInv
  <1> QED
    BY <1>1, <1>2 DEF EraseInv

(* The three parts are inductive together. *)
LEMMA EraseCorrect == Spec => []EraseInv
  <1>1. EraseInv /\ [Next]_vars => EraseInv'
    BY TypeStep, WindowStep, WantedStep DEF EraseInv
  <1> QED
    BY <1>1, InitErase, PTL DEF Spec

(* An account goes only by the delete of a job, which finds it marked. *)
LEMMA ErasedByJob ==
    ASSUME [Next]_vars, Erased
    PROVE  \E j \in JobIds : pc[j] = "erase" /\ StillScheduled
  <1> USE DEF Erased, rowVars
  <1>1. ASSUME NEW s \in Sessions, NEW op, Request(s, op) PROVE FALSE
    BY <1>1 DEF Request
  <1>2. ASSUME NEW s \in Sessions, LoginRead(s) \/ SessionStep(s) PROVE FALSE
    BY <1>2 DEF LoginRead, SessionStep, ScheduleDeletion, MarkForErasure, Deactivate, CancelRead,
       Restore, Reactivate, RowIsGone, RemoveJob
  <1>3. CASE StaffStep
    BY <1>3 DEF StaffStep, EraseNow, MarkForErasure, Staff, BanUser, UnbanUser, SuspendUser,
       RestoreUser
  <1>4. ASSUME NEW j \in JobIds, JobStep(j) \/ JobFault(j) \/ Evict(j)
        PROVE  pc[j] = "erase" /\ StillScheduled
    BY <1>4 DEF JobStep, JobFault, Evict, Publish, StartJob, CheckLifecycle, Cleanup, Erase,
       FinishJob, OutboxGivesUp, JobThrows, JobStalls
  <1>5. CASE CronStep \/ CronThrows
    BY <1>5 DEF CronStep, CronThrows, CronFind, CronLook, CronRetry, CronAdd
  <1>6. CASE Tick \/ UNCHANGED vars
    BY <1>6 DEF Tick, vars
  <1> QED
    BY <1>1, <1>2, <1>3, <1>4, <1>5, <1>6 DEF Next

(* The types, and the dates of a row set and cleared together. *)
THEOREM TypeCorrect == Spec => []TypeOK
  <1>1. EraseInv => TypeOK
    BY DEF EraseInv
  <1> QED
    BY <1>1, EraseCorrect, PTL

(* An account that its owner kept or restored is never erased, whatever    *)
(* jobs are left; but for one that was reactivated, by staff or by its     *)
(* owner's login after the window, with its dates left in the row.         *)
THEOREM RestoredAccountIsKept == Spec => RestoredIsKept
  <1>1. EraseInv /\ [Next]_vars => [Erased => wanted \/ reactivated]_vars
    BY ErasedByJob DEF EraseInv, TypeOK, WantedInv, StillScheduled
  <1> QED
    BY <1>1, EraseCorrect, PTL DEF Spec, RestoredIsKept

(* Unless staff ask for it, no account is erased before one whole grace    *)
(* window has passed since the person first asked.                         *)
THEOREM NoneErasedAtOnce == Spec => NeverAtOnce
  <1>1. EraseInv /\ [Next]_vars => [Erased => StaffAsked \/ now >= firstAsked + Grace]_vars
    <2> SUFFICES ASSUME EraseInv, [Next]_vars, Erased, ~StaffAsked
                 PROVE  now >= firstAsked + Grace
      OBVIOUS
    <2>1. PICK j \in JobIds : pc[j] = "erase"
      BY ErasedByJob
    <2>2. erasures = 0
      BY ErasureAssumption DEF EraseInv, TypeOK, StaffAsked
    <2>3. j = "delete"
      BY <2>1, <2>2 DEF EraseInv, TypeOK, WindowInv, JobIds
    <2> QED
      BY <2>1, <2>2, <2>3 DEF EraseInv, WindowInv, Waited
  <1> QED
    BY <1>1, EraseCorrect, PTL DEF Spec, NeverAtOnce
=============================================================================
