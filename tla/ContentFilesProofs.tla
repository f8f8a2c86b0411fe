-------------------------- MODULE ContentFilesProofs --------------------------
(***************************************************************************)
(* Files and rows are kept while they should be, for any number of rows    *)
(* that share any files, of erasures at once and of faults.                *)
(***************************************************************************)
EXTENDS ContentFiles, TLAPS

Reasons == {"none", "author", "deleted", "removed"}

(* The types, with those that only the erasures look at. *)
TypeInv ==
    /\ TypeOK
    /\ detachedAt \in [Files -> Int]
    /\ moderatedAt \in [Rows -> Int]
    /\ why \in [Erasers -> Reasons]
    /\ on \in [Erasers -> Rows \union {None}]
    /\ seenAt \in [Erasers -> Int]
    /\ cutFile \in [Erasers -> Files \union {None}]
    /\ page \subseteq Files /\ used \subseteq Files
    /\ claimedAt \in Int
    /\ sweep \in {"look", "erase"} => claimed \in Files
    /\ orphans \subseteq Files

(* An eraser that has looked at its row holds it, unless its transaction   *)
(* timed out; it has files to delete only in its last step.                *)
LockInv ==
    /\ \A r \in Rows : lock[r] # None => pc[lock[r]] \in {"look", "delete"}
    /\ \A x \in Erasers :
          /\ pc[x] # "idle" => on[x] \in Rows /\ why[x] # "none"
          /\ pc[x] \in {"look", "delete"} => lock[on[x]] = x \/ on[x] \in hurt
          /\ pc[x] # "delete" => todo[x] = {}
          /\ cutFile[x] # None => cutFile[x] \in todo[x]

(* What is about to delete a file had its last look when no kept row named *)
(* it, but for the eraser of a row, which may delete the row's own files   *)
(* while it holds it.                                                      *)
Safe(r) == Present(r) /\ r \notin raced \union hurt

FilesInv ==
    \A r \in Rows : Safe(r) => \A f \in names[r] :
        /\ cleanup[f] = "none"
        /\ ~(claimed = f /\ sweep = "erase")
        /\ \A x \in Erasers : f \in todo[x] => lock[r] = x
        /\ f \in bytes \/ (lock[r] # None /\ pc[lock[r]] = "delete")

(* What a nightly eraser read was due; and the row that an eraser holds is *)
(* due still, since only a reopened appeal gets past its lock.             *)
ReadDue(x) ==
    /\ why[x] = "deleted" => seenAt[x] < now - Kept
    /\ why[x] = "removed" => seenAt[x] + Window < now

HeldDue(x) ==
    LET r == on[x] IN
    /\ row[r] = "POST"
    /\ why[x] = "author"  => Erasable(r)
    /\ why[x] = "deleted" => Erasable(r) /\ deletedAt[r] < now - Kept
    /\ why[x] = "removed" => /\ r \in removed /\ Deadline(r) < now
                             /\ appeal[r] # "PENDING" \/ r \in reopened

DueInv ==
    \A x \in Erasers :
        /\ pc[x] # "idle" => ReadDue(x)
        /\ pc[x] \in {"look", "delete"} /\ lock[on[x]] = x => HeldDue(x)

-----------------------------------------------------------------------------
(* A step keeps the types. *)
LEMMA TypeStep == TypeInv /\ LockInv /\ [Next]_vars => TypeInv'
  <1> SUFFICES ASSUME TypeInv, LockInv, [Next]_vars PROVE TypeInv'
    OBVIOUS
  <1> USE ContentAssumption DEF fileVars, rowVars, eraseVars, sweepVars, histVars, TypeInv, TypeOK,
     Reasons, Decided, Null, LockInv
  <1>1. ASSUME NEW r \in Rows, NEW F \in SUBSET Files, AssertOwnedBy(r, F) PROVE TypeInv'
    BY <1>1 DEF AssertOwnedBy
  <1>2. ASSUME NEW r \in Rows, Save(r) PROVE TypeInv'
    BY <1>2 DEF Save
  <1>3. ASSUME NEW r \in Rows, Remove(r) PROVE TypeInv'
    BY <1>3 DEF Remove, Detach, Act
  <1>4. ASSUME NEW r \in Rows, RemoveDraft(r) PROVE TypeInv'
    BY <1>4 DEF RemoveDraft, Detach, Act
  <1>5. ASSUME NEW r \in Rows, RestorePost(r) PROVE TypeInv'
    BY <1>5 DEF RestorePost, Reattached
  <1>6. ASSUME NEW r \in Rows, AdminRemove(r) PROVE TypeInv'
    BY <1>6 DEF AdminRemove, Act
  <1>7. ASSUME NEW r \in Rows, AdminShow(r) PROVE TypeInv'
    BY <1>7 DEF AdminShow
  <1>8. ASSUME NEW r \in Rows, CheckDeadline(r) PROVE TypeInv'
    BY <1>8 DEF CheckDeadline, Act
  <1>9. ASSUME NEW r \in Rows, FileAppeal(r) PROVE TypeInv'
    BY <1>9 DEF FileAppeal
  <1>10. ASSUME NEW r \in Rows, DecideAppeal(r) PROVE TypeInv'
    BY <1>10 DEF DecideAppeal, Act
  <1>11. ASSUME NEW x \in Erasers, NEW r \in Rows, NEW reason \in {"author", "deleted", "removed"},
               Pick(x, r, reason)
        PROVE  TypeInv'
    BY <1>11 DEF Pick, Due, Erasable, Deadline, Act
  <1>12. ASSUME NEW x \in Erasers, Hold(x) PROVE TypeInv'
    <2>1. CASE /\ lock' = [lock EXCEPT ![on[x]] = x]
               /\ pc' = [pc EXCEPT ![x] = "look"]
               /\ UNCHANGED <<why, on, seenAt, todo, cutFile>>
      BY <1>12, <2>1 DEF Hold, Free
    <2>2. CASE StopErasing(x)
      BY <1>12, <2>2 DEF Hold, StopErasing, Free
    <2> QED
      BY <1>12, <2>1, <2>2 DEF Hold
  <1>13. ASSUME NEW x \in Erasers, LookUp(x) PROVE TypeInv'
    BY <1>13 DEF LookUp, ErasableWith
  <1>14. ASSUME NEW x \in Erasers, ForgetFile(x) PROVE TypeInv'
    BY <1>14 DEF ForgetFile, Forget, Reattached
  <1>15. ASSUME NEW x \in Erasers, EraseRow(x) PROVE TypeInv'
    BY <1>15 DEF EraseRow, StopErasing
  <1>16. ASSUME NEW x \in Erasers, NEW f \in Files, DeleteFile(x, f) PROVE TypeInv'
    BY <1>16 DEF DeleteFile
  <1>17. ASSUME NEW x \in Erasers, EraseFails(x) PROVE TypeInv'
    BY <1>17 DEF EraseFails, StopErasing, Fault
  <1>18. ASSUME NEW x \in Erasers, TimesOut(x) PROVE TypeInv'
    BY <1>18 DEF TimesOut, Fault
  <1>19. ASSUME ReadPage PROVE TypeInv'
    BY <1>19 DEF ReadPage, Expired
  <1>20. ASSUME FindUsed PROVE TypeInv'
    BY <1>20 DEF FindUsed
  <1>21. ASSUME ReattachUsed PROVE TypeInv'
    BY <1>21 DEF ReattachUsed, Reattached
  <1>22. ASSUME SecondLook PROVE TypeInv'
    BY <1>22 DEF SecondLook, RestoreClaimed, EndClaim
  <1>23. ASSUME EraseBytes PROVE TypeInv'
    BY <1>23 DEF EraseBytes, EndClaim
  <1>24. ASSUME EndSweep PROVE TypeInv'
    BY <1>24 DEF EndSweep, StopSweep
  <1>25. ASSUME NEW f \in Files, ClaimExpired(f) PROVE TypeInv'
    BY <1>25 DEF ClaimExpired, Expired, Reattached
  <1>26. ASSUME EraseBytesFails PROVE TypeInv'
    BY <1>26 DEF EraseBytesFails, RestoreClaimed, EndClaim, Fault
  <1>27. ASSUME SweepDies PROVE TypeInv'
    BY <1>27 DEF SweepDies, StopSweep, Fault
  <1>28. ASSUME ScanOrphans PROVE TypeInv'
    BY <1>28 DEF ScanOrphans
  <1>29. ASSUME ScheduleDeletion PROVE TypeInv'
    BY <1>29 DEF ScheduleDeletion
  <1>30. ASSUME NEW f \in Files, ReadFile(f) PROVE TypeInv'
    BY <1>30 DEF ReadFile
  <1>31. ASSUME NEW f \in Files, OpenFile(f) PROVE TypeInv'
    BY <1>31 DEF OpenFile, Reattached
  <1>32. ASSUME NEW f \in Files, CleanUp(f) PROVE TypeInv'
    BY <1>32 DEF CleanUp, Forget, Reattached
  <1>33. ASSUME NEW f \in Files, CleanUpGivesUp(f) PROVE TypeInv'
    BY <1>33 DEF CleanUpGivesUp, Fault
  <1>34. ASSUME Tick PROVE TypeInv'
    BY <1>34 DEF Tick
  <1>35. CASE UNCHANGED vars
    BY <1>35 DEF vars
  <1> QED
    BY <1>1, <1>2, <1>3, <1>4, <1>5, <1>6, <1>7, <1>8, <1>9, <1>10, <1>11, <1>12, <1>13, <1>14,
        <1>15, <1>16, <1>17, <1>18, <1>19, <1>20, <1>21, <1>22, <1>23, <1>24, <1>25, <1>26, <1>27,
        <1>28, <1>29, <1>30, <1>31, <1>32, <1>33, <1>34, <1>35
    DEF Next, Person, PickDue, Erase, Sweep, Orphans

(* A step leaves a row to the eraser that looked at it, or counts the row as hurt. *)
LEMMA LockStep == TypeInv /\ LockInv /\ [Next]_vars => LockInv'
  <1> SUFFICES ASSUME TypeInv, LockInv, [Next]_vars PROVE LockInv'
    OBVIOUS
  <1> USE ContentAssumption DEF fileVars, rowVars, eraseVars, sweepVars, histVars, TypeInv, TypeOK,
     Reasons, Decided, Null, LockInv
  <1>1. ASSUME NEW r \in Rows, NEW F \in SUBSET Files, AssertOwnedBy(r, F) PROVE LockInv'
    BY <1>1 DEF AssertOwnedBy
  <1>2. ASSUME NEW r \in Rows, Save(r) PROVE LockInv'
    BY <1>2 DEF Save
  <1>3. ASSUME NEW r \in Rows, Remove(r) PROVE LockInv'
    BY <1>3 DEF Remove, Detach, Act
  <1>4. ASSUME NEW r \in Rows, RemoveDraft(r) PROVE LockInv'
    BY <1>4 DEF RemoveDraft, Detach, Act
  <1>5. ASSUME NEW r \in Rows, RestorePost(r) PROVE LockInv'
    BY <1>5 DEF RestorePost, Reattached
  <1>6. ASSUME NEW r \in Rows, AdminRemove(r) PROVE LockInv'
    BY <1>6 DEF AdminRemove, Act
  <1>7. ASSUME NEW r \in Rows, AdminShow(r) PROVE LockInv'
    BY <1>7 DEF AdminShow
  <1>8. ASSUME NEW r \in Rows, CheckDeadline(r) PROVE LockInv'
    BY <1>8 DEF CheckDeadline, Act
  <1>9. ASSUME NEW r \in Rows, FileAppeal(r) PROVE LockInv'
    BY <1>9 DEF FileAppeal
  <1>10. ASSUME NEW r \in Rows, DecideAppeal(r) PROVE LockInv'
    BY <1>10 DEF DecideAppeal, Act
  <1>11. ASSUME NEW x \in Erasers, NEW r \in Rows, NEW reason \in {"author", "deleted", "removed"},
               Pick(x, r, reason)
        PROVE  LockInv'
    BY <1>11 DEF Pick, Due, Erasable, Deadline, Act
  <1>12. ASSUME NEW x \in Erasers, Hold(x) PROVE LockInv'
    <2>1. CASE /\ lock' = [lock EXCEPT ![on[x]] = x]
               /\ pc' = [pc EXCEPT ![x] = "look"]
               /\ UNCHANGED <<why, on, seenAt, todo, cutFile>>
      BY <1>12, <2>1 DEF Hold, Free
    <2>2. CASE StopErasing(x)
      BY <1>12, <2>2 DEF Hold, StopErasing, Free
    <2> QED
      BY <1>12, <2>1, <2>2 DEF Hold
  <1>13. ASSUME NEW x \in Erasers, LookUp(x) PROVE LockInv'
    BY <1>13 DEF LookUp, ErasableWith
  <1>14. ASSUME NEW x \in Erasers, ForgetFile(x) PROVE LockInv'
    BY <1>14 DEF ForgetFile, Forget, Reattached
  <1>15. ASSUME NEW x \in Erasers, EraseRow(x) PROVE LockInv'
    BY <1>15 DEF EraseRow, StopErasing
  <1>16. ASSUME NEW x \in Erasers, NEW f \in Files, DeleteFile(x, f) PROVE LockInv'
    BY <1>16 DEF DeleteFile
  <1>17. ASSUME NEW x \in Erasers, EraseFails(x) PROVE LockInv'
    BY <1>17 DEF EraseFails, StopErasing, Fault
  <1>18. ASSUME NEW x \in Erasers, TimesOut(x) PROVE LockInv'
    BY <1>18 DEF TimesOut, Fault
  <1>19. ASSUME ReadPage PROVE LockInv'
    BY <1>19 DEF ReadPage, Expired
  <1>20. ASSUME FindUsed PROVE LockInv'
    BY <1>20 DEF FindUsed
  <1>21. ASSUME ReattachUsed PROVE LockInv'
    BY <1>21 DEF ReattachUsed, Reattached
  <1>22. ASSUME SecondLook PROVE LockInv'
    BY <1>22 DEF SecondLook, RestoreClaimed, EndClaim
  <1>23. ASSUME EraseBytes PROVE LockInv'
    BY <1>23 DEF EraseBytes, EndClaim
  <1>24. ASSUME EndSweep PROVE LockInv'
    BY <1>24 DEF EndSweep, StopSweep
  <1>25. ASSUME NEW f \in Files, ClaimExpired(f) PROVE LockInv'
    BY <1>25 DEF ClaimExpired, Expired, Reattached
  <1>26. ASSUME EraseBytesFails PROVE LockInv'
    BY <1>26 DEF EraseBytesFails, RestoreClaimed, EndClaim, Fault
  <1>27. ASSUME SweepDies PROVE LockInv'
    BY <1>27 DEF SweepDies, StopSweep, Fault
  <1>28. ASSUME ScanOrphans PROVE LockInv'
    BY <1>28 DEF ScanOrphans
  <1>29. ASSUME ScheduleDeletion PROVE LockInv'
    BY <1>29 DEF ScheduleDeletion
  <1>30. ASSUME NEW f \in Files, ReadFile(f) PROVE LockInv'
    BY <1>30 DEF ReadFile
  <1>31. ASSUME NEW f \in Files, OpenFile(f) PROVE LockInv'
    BY <1>31 DEF OpenFile, Reattached
  <1>32. ASSUME NEW f \in Files, CleanUp(f) PROVE LockInv'
    BY <1>32 DEF CleanUp, Forget, Reattached
  <1>33. ASSUME NEW f \in Files, CleanUpGivesUp(f) PROVE LockInv'
    BY <1>33 DEF CleanUpGivesUp, Fault
  <1>34. ASSUME Tick PROVE LockInv'
    BY <1>34 DEF Tick
  <1>35. CASE UNCHANGED vars
    BY <1>35 DEF vars
  <1> QED
    BY <1>1, <1>2, <1>3, <1>4, <1>5, <1>6, <1>7, <1>8, <1>9, <1>10, <1>11, <1>12, <1>13, <1>14,
        <1>15, <1>16, <1>17, <1>18, <1>19, <1>20, <1>21, <1>22, <1>23, <1>24, <1>25, <1>26, <1>27,
        <1>28, <1>29, <1>30, <1>31, <1>32, <1>33, <1>34, <1>35
    DEF Next, Person, PickDue, Erase, Sweep, Orphans

(* A step dooms no file that a kept row names, but for the row's own eraser. *)
LEMMA FilesStep == TypeInv /\ LockInv /\ FilesInv /\ [Next]_vars => FilesInv'
  <1> SUFFICES ASSUME TypeInv, LockInv, FilesInv, [Next]_vars PROVE FilesInv'
    OBVIOUS
  <1> USE ContentAssumption DEF fileVars, rowVars, eraseVars, sweepVars, histVars, TypeInv, TypeOK,
     Reasons, Decided, Null, LockInv, FilesInv, Safe, Present
  <1>1. ASSUME NEW r \in Rows, NEW F \in SUBSET Files, AssertOwnedBy(r, F) PROVE FilesInv'
    BY <1>1 DEF AssertOwnedBy
  <1>2. ASSUME NEW r \in Rows, Save(r) PROVE FilesInv'
    BY <1>2 DEF Save, Doomed
  <1>3. ASSUME NEW r \in Rows, Remove(r) PROVE FilesInv'
    BY <1>3 DEF Remove, Detach, Act
  <1>4. ASSUME NEW r \in Rows, RemoveDraft(r) PROVE FilesInv'
    BY <1>4 DEF RemoveDraft, Detach, Act
  <1>5. ASSUME NEW r \in Rows, RestorePost(r) PROVE FilesInv'
    BY <1>5 DEF RestorePost, Reattached
  <1>6. ASSUME NEW r \in Rows, AdminRemove(r) PROVE FilesInv'
    BY <1>6 DEF AdminRemove, Act
  <1>7. ASSUME NEW r \in Rows, AdminShow(r) PROVE FilesInv'
    BY <1>7 DEF AdminShow
  <1>8. ASSUME NEW r \in Rows, CheckDeadline(r) PROVE FilesInv'
    BY <1>8 DEF CheckDeadline, Act
  <1>9. ASSUME NEW r \in Rows, FileAppeal(r) PROVE FilesInv'
    BY <1>9 DEF FileAppeal
  <1>10. ASSUME NEW r \in Rows, DecideAppeal(r) PROVE FilesInv'
    BY <1>10 DEF DecideAppeal, Act
  <1>11. ASSUME NEW x \in Erasers, NEW r \in Rows, NEW reason \in {"author", "deleted", "removed"},
               Pick(x, r, reason)
        PROVE  FilesInv'
    BY <1>11 DEF Pick, Due, Erasable, Deadline, Act
  <1>12. ASSUME NEW x \in Erasers, Hold(x) PROVE FilesInv'
    <2>1. CASE /\ lock' = [lock EXCEPT ![on[x]] = x]
               /\ pc' = [pc EXCEPT ![x] = "look"]
               /\ UNCHANGED <<why, on, seenAt, todo, cutFile>>
      BY <1>12, <2>1 DEF Hold, Free
    <2>2. CASE StopErasing(x)
      BY <1>12, <2>2 DEF Hold, StopErasing, Free
    <2> QED
      BY <1>12, <2>1, <2>2 DEF Hold
  <1>13. ASSUME NEW x \in Erasers, LookUp(x) PROVE FilesInv'
    BY <1>13 DEF LookUp, ErasableWith, InUse
  <1>14. ASSUME NEW x \in Erasers, ForgetFile(x) PROVE FilesInv'
    BY <1>14 DEF ForgetFile, Forget, Reattached
  <1>15. ASSUME NEW x \in Erasers, EraseRow(x) PROVE FilesInv'
    BY <1>15 DEF EraseRow, StopErasing
  <1>16. ASSUME NEW x \in Erasers, NEW f \in Files, DeleteFile(x, f) PROVE FilesInv'
    BY <1>16 DEF DeleteFile
  <1>17. ASSUME NEW x \in Erasers, EraseFails(x) PROVE FilesInv'
    BY <1>17 DEF EraseFails, StopErasing, Fault
  <1>18. ASSUME NEW x \in Erasers, TimesOut(x) PROVE FilesInv'
    BY <1>18 DEF TimesOut, Fault
  <1>19. ASSUME ReadPage PROVE FilesInv'
    BY <1>19 DEF ReadPage, Expired
  <1>20. ASSUME FindUsed PROVE FilesInv'
    BY <1>20 DEF FindUsed
  <1>21. ASSUME ReattachUsed PROVE FilesInv'
    BY <1>21 DEF ReattachUsed, Reattached
  <1>22. ASSUME SecondLook PROVE FilesInv'
    BY <1>22 DEF SecondLook, RestoreClaimed, EndClaim, InUse
  <1>23. ASSUME EraseBytes PROVE FilesInv'
    BY <1>23 DEF EraseBytes, EndClaim
  <1>24. ASSUME EndSweep PROVE FilesInv'
    BY <1>24 DEF EndSweep, StopSweep
  <1>25. ASSUME NEW f \in Files, ClaimExpired(f) PROVE FilesInv'
    BY <1>25 DEF ClaimExpired, Expired, Reattached
  <1>26. ASSUME EraseBytesFails PROVE FilesInv'
    BY <1>26 DEF EraseBytesFails, RestoreClaimed, EndClaim, Fault
  <1>27. ASSUME SweepDies PROVE FilesInv'
    BY <1>27 DEF SweepDies, StopSweep, Fault
  <1>28. ASSUME ScanOrphans PROVE FilesInv'
    BY <1>28 DEF ScanOrphans
  <1>29. ASSUME ScheduleDeletion PROVE FilesInv'
    BY <1>29 DEF ScheduleDeletion, InUse
  <1>30. ASSUME NEW f \in Files, ReadFile(f) PROVE FilesInv'
    BY <1>30 DEF ReadFile
  <1>31. ASSUME NEW f \in Files, OpenFile(f) PROVE FilesInv'
    BY <1>31 DEF OpenFile, Reattached
  <1>32. ASSUME NEW f \in Files, CleanUp(f) PROVE FilesInv'
    BY <1>32 DEF CleanUp, Forget, Reattached
  <1>33. ASSUME NEW f \in Files, CleanUpGivesUp(f) PROVE FilesInv'
    BY <1>33 DEF CleanUpGivesUp, Fault
  <1>34. ASSUME Tick PROVE FilesInv'
    BY <1>34 DEF Tick
  <1>35. CASE UNCHANGED vars
    BY <1>35 DEF vars
  <1> QED
    BY <1>1, <1>2, <1>3, <1>4, <1>5, <1>6, <1>7, <1>8, <1>9, <1>10, <1>11, <1>12, <1>13, <1>14,
        <1>15, <1>16, <1>17, <1>18, <1>19, <1>20, <1>21, <1>22, <1>23, <1>24, <1>25, <1>26, <1>27,
        <1>28, <1>29, <1>30, <1>31, <1>32, <1>33, <1>34, <1>35
    DEF Next, Person, PickDue, Erase, Sweep, Orphans

(* A step leaves due what was found due: the lock keeps everybody else away. *)
LEMMA DueStep == TypeInv /\ LockInv /\ DueInv /\ [Next]_vars => DueInv'
  <1> SUFFICES ASSUME TypeInv, LockInv, DueInv, [Next]_vars PROVE DueInv'
    OBVIOUS
  <1> USE ContentAssumption DEF fileVars, rowVars, eraseVars, sweepVars, histVars, TypeInv, TypeOK,
     Reasons, Decided, Null, LockInv, DueInv, ReadDue, HeldDue, Erasable, Deadline, Free
  <1>1. ASSUME NEW r \in Rows, NEW F \in SUBSET Files, AssertOwnedBy(r, F) PROVE DueInv'
    BY <1>1 DEF AssertOwnedBy
  <1>2. ASSUME NEW r \in Rows, Save(r) PROVE DueInv'
    BY <1>2 DEF Save
  <1>3. ASSUME NEW r \in Rows, Remove(r) PROVE DueInv'
    BY <1>3 DEF Remove, Detach, Act
  <1>4. ASSUME NEW r \in Rows, RemoveDraft(r) PROVE DueInv'
    BY <1>4 DEF RemoveDraft, Detach, Act
  <1>5. ASSUME NEW r \in Rows, RestorePost(r) PROVE DueInv'
    BY <1>5 DEF RestorePost, Reattached
  <1>6. ASSUME NEW r \in Rows, AdminRemove(r) PROVE DueInv'
    BY <1>6 DEF AdminRemove, Act
  <1>7. ASSUME NEW r \in Rows, AdminShow(r) PROVE DueInv'
    BY <1>7 DEF AdminShow
  <1>8. ASSUME NEW r \in Rows, CheckDeadline(r) PROVE DueInv'
    BY <1>8 DEF CheckDeadline, Act
  <1>9. ASSUME NEW r \in Rows, FileAppeal(r) PROVE DueInv'
    BY <1>9 DEF FileAppeal
  <1>10. ASSUME NEW r \in Rows, DecideAppeal(r) PROVE DueInv'
    BY <1>10 DEF DecideAppeal, Act
  <1>11. ASSUME NEW x \in Erasers, NEW r \in Rows, NEW reason \in {"author", "deleted", "removed"},
               Pick(x, r, reason)
        PROVE  DueInv'
    <2>1. UNCHANGED <<now, rowVars, histVars, lock>> /\ pc[x] = "idle"
      BY <1>11 DEF Pick
    <2>2. ReadDue(x)'
      <3>1. /\ why'[x] = reason /\ Due(r, reason)
            /\ reason = "deleted" => seenAt'[x] = deletedAt[r]
            /\ reason = "removed" => seenAt'[x] = moderatedAt[r]
        BY <1>11 DEF Pick
      <3>2. CASE reason = "author"
        BY <2>1, <3>1, <3>2
      <3>3. CASE reason = "deleted"
        BY <2>1, <3>1, <3>3 DEF Due
      <3>4. CASE reason = "removed"
        BY <2>1, <3>1, <3>4 DEF Due
      <3> QED
        BY <3>2, <3>3, <3>4
    <2>3. ASSUME NEW y \in Erasers, y # x
          PROVE  (pc'[y] = pc[y] /\ UNCHANGED <<ReadDue(y), HeldDue(y), lock[on[y]]>>)
      BY <1>11, <2>1, <2>3 DEF Pick
    <2>4. pc'[x] = "lock"
      BY <1>11 DEF Pick
    <2> HIDE DEF ReadDue, HeldDue
    <2> QED
      BY <2>1, <2>2, <2>3, <2>4
  <1>12. ASSUME NEW x \in Erasers, Hold(x) PROVE DueInv'
    <2>1. CASE /\ Still(x)
               /\ lock' = [lock EXCEPT ![on[x]] = x]
               /\ pc' = [pc EXCEPT ![x] = "look"]
               /\ UNCHANGED <<why, on, seenAt, todo, cutFile>>
      <3>1. /\ UNCHANGED <<now, rowVars, histVars>>
            /\ pc[x] = "lock" /\ on[x] \in Rows /\ lock[on[x]] = None
        BY <1>12 DEF Hold
      <3>2. HeldDue(x)
        <4>1. why[x] \in {"author", "deleted", "removed"} /\ ReadDue(x)
          BY <3>1
        <4>2. CASE why[x] = "author"
          BY <2>1, <3>1, <4>2 DEF Still
        <4>3. CASE why[x] = "deleted"
          BY <2>1, <3>1, <4>1, <4>3 DEF Still
        <4>4. CASE why[x] = "removed"
          BY <2>1, <3>1, <4>1, <4>4 DEF Still
        <4> QED
          BY <4>1, <4>2, <4>3, <4>4
      <3>3. ASSUME NEW y \in Erasers PROVE UNCHANGED <<ReadDue(y), HeldDue(y)>>
        BY <2>1, <3>1
      <3>4. \A y \in Erasers : /\ pc'[y] # "idle" => pc[y] # "idle"
                               /\ y # x /\ pc'[y] \in {"look", "delete"} /\ lock'[on'[y]] = y
                                     => pc[y] \in {"look", "delete"} /\ lock[on[y]] = y
        BY <2>1, <3>1
      <3> HIDE DEF ReadDue, HeldDue
      <3> QED
        BY <3>2, <3>3, <3>4
    <2>2. CASE StopErasing(x)
      <3>1. UNCHANGED <<now, rowVars, histVars>>
        BY <1>12 DEF Hold
      <3> QED
        BY <2>2, <3>1 DEF StopErasing
    <2> QED
      BY <1>12, <2>1, <2>2 DEF Hold
  <1>13. ASSUME NEW x \in Erasers, LookUp(x) PROVE DueInv'
    BY <1>13 DEF LookUp, ErasableWith
  <1>14. ASSUME NEW x \in Erasers, ForgetFile(x) PROVE DueInv'
    BY <1>14 DEF ForgetFile, Forget, Reattached
  <1>15. ASSUME NEW x \in Erasers, EraseRow(x) PROVE DueInv'
    BY <1>15 DEF EraseRow, StopErasing
  <1>16. ASSUME NEW x \in Erasers, NEW f \in Files, DeleteFile(x, f) PROVE DueInv'
    BY <1>16 DEF DeleteFile
  <1>17. ASSUME NEW x \in Erasers, EraseFails(x) PROVE DueInv'
    BY <1>17 DEF EraseFails, StopErasing, Fault
  <1>18. ASSUME NEW x \in Erasers, TimesOut(x) PROVE DueInv'
    BY <1>18 DEF TimesOut, Fault
  <1>19. ASSUME ReadPage PROVE DueInv'
    BY <1>19 DEF ReadPage, Expired
  <1>20. ASSUME FindUsed PROVE DueInv'
    BY <1>20 DEF FindUsed
  <1>21. ASSUME ReattachUsed PROVE DueInv'
    BY <1>21 DEF ReattachUsed, Reattached
  <1>22. ASSUME SecondLook PROVE DueInv'
    BY <1>22 DEF SecondLook, RestoreClaimed, EndClaim
  <1>23. ASSUME EraseBytes PROVE DueInv'
    BY <1>23 DEF EraseBytes, EndClaim
  <1>24. ASSUME EndSweep PROVE DueInv'
    BY <1>24 DEF EndSweep, StopSweep
  <1>25. ASSUME NEW f \in Files, ClaimExpired(f) PROVE DueInv'
    BY <1>25 DEF ClaimExpired, Expired, Reattached
  <1>26. ASSUME EraseBytesFails PROVE DueInv'
    BY <1>26 DEF EraseBytesFails, RestoreClaimed, EndClaim, Fault
  <1>27. ASSUME SweepDies PROVE DueInv'
    BY <1>27 DEF SweepDies, StopSweep, Fault
  <1>28. ASSUME ScanOrphans PROVE DueInv'
    BY <1>28 DEF ScanOrphans
  <1>29. ASSUME ScheduleDeletion PROVE DueInv'
    BY <1>29 DEF ScheduleDeletion
  <1>30. ASSUME NEW f \in Files, ReadFile(f) PROVE DueInv'
    BY <1>30 DEF ReadFile
  <1>31. ASSUME NEW f \in Files, OpenFile(f) PROVE DueInv'
    BY <1>31 DEF OpenFile, Reattached
  <1>32. ASSUME NEW f \in Files, CleanUp(f) PROVE DueInv'
    BY <1>32 DEF CleanUp, Forget, Reattached
  <1>33. ASSUME NEW f \in Files, CleanUpGivesUp(f) PROVE DueInv'
    BY <1>33 DEF CleanUpGivesUp, Fault
  <1>34. ASSUME Tick PROVE DueInv'
    BY <1>34 DEF Tick
  <1>35. CASE UNCHANGED vars
    BY <1>35 DEF vars
  <1> QED
    BY <1>1, <1>2, <1>3, <1>4, <1>5, <1>6, <1>7, <1>8, <1>9, <1>10, <1>11, <1>12, <1>13, <1>14,
        <1>15, <1>16, <1>17, <1>18, <1>19, <1>20, <1>21, <1>22, <1>23, <1>24, <1>25, <1>26, <1>27,
        <1>28, <1>29, <1>30, <1>31, <1>32, <1>33, <1>34, <1>35
    DEF Next, Person, PickDue, Erase, Sweep, Orphans

-----------------------------------------------------------------------------
ContentInv == TypeInv /\ LockInv /\ FilesInv /\ DueInv

(* At the start there are files and no rows. *)
LEMMA InitContent == Init => ContentInv
  <1> SUFFICES ASSUME Init PROVE ContentInv
    OBVIOUS
  <1> USE ContentAssumption DEF Init, Null
  <1>1. TypeInv
    BY DEF TypeInv, TypeOK, Reasons, Decided
  <1>2. LockInv /\ FilesInv /\ DueInv
    BY DEF LockInv, FilesInv, Safe, Present, DueInv
  <1> QED
    BY <1>1, <1>2 DEF ContentInv

(* The four parts are inductive together. *)
LEMMA ContentCorrect == Spec => []ContentInv
  <1>1. ContentInv /\ [Next]_vars => ContentInv'
    BY TypeStep, LockStep, FilesStep, DueStep DEF ContentInv
  <1> QED
    BY <1>1, InitContent, PTL DEF Spec

(* The types; a file has one record, and only a recorded file is detached. *)
THEOREM TypeCorrect == Spec => []TypeOK
  <1>1. ContentInv => TypeOK
    BY DEF ContentInv, TypeInv
  <1> QED
    BY <1>1, ContentCorrect, PTL

(* A kept row has its files, whatever rows share them and however many     *)
(* erasures, sweeps and scans run at once.                                 *)
THEOREM FilesAreKept == Spec => []KeptRowsHaveFiles
  <1>1. ContentInv => KeptRowsHaveFiles
    BY DEF ContentInv, FilesInv, Safe, KeptRowsHaveFiles, Free
  <1> QED
    BY <1>1, ContentCorrect, PTL

(* A post goes for good by the last step of the eraser that holds it.      *)
LEMMA GoneByEraser ==
    ASSUME TypeInv, [Next]_vars, NEW r \in Rows, row[r] = "POST", row'[r] = "gone"
    PROVE  \E x \in Erasers : pc[x] = "delete" /\ on[x] = r /\ lock[r] = x
  <1> USE DEF rowVars
  <1>t. row \in [Rows -> {"none", "checked", "POST", "DRAFT", "gone"}]
    BY DEF TypeInv, TypeOK
  <1>1. ASSUME NEW q \in Rows, Person(q) PROVE FALSE
    BY <1>1, <1>t DEF Person, AssertOwnedBy, Save, Remove, RemoveDraft, RestorePost, AdminRemove,
       AdminShow, CheckDeadline, FileAppeal, DecideAppeal
  <1>2. ASSUME NEW x \in Erasers, NEW q \in Rows, NEW reason, Pick(x, q, reason) PROVE FALSE
    BY <1>2 DEF Pick
  <1>3. ASSUME NEW x \in Erasers, Erase(x) \/ EraseFails(x) \/ TimesOut(x)
        PROVE  pc[x] = "delete" /\ on[x] = r /\ lock[r] = x
    BY <1>3, <1>t DEF Erase, Hold, LookUp, ForgetFile, DeleteFile, EraseRow, EraseFails, TimesOut
  <1>4. CASE Sweep \/ EraseBytesFails \/ SweepDies \/ Orphans
    BY <1>4 DEF Sweep, ReadPage, FindUsed, ReattachUsed, SecondLook, EraseBytes, EndSweep,
       ClaimExpired, EraseBytesFails, SweepDies, Orphans, ScanOrphans, ScheduleDeletion
  <1>5. ASSUME NEW f \in Files, ReadFile(f) \/ OpenFile(f) \/ CleanUp(f) \/ CleanUpGivesUp(f)
        PROVE  FALSE
    BY <1>5 DEF ReadFile, OpenFile, CleanUp, CleanUpGivesUp
  <1>6. CASE Tick \/ UNCHANGED vars
    BY <1>6 DEF Tick, vars
  <1> QED
    BY <1>1, <1>2, <1>3, <1>4, <1>5, <1>6 DEF Next, PickDue

(* A post goes for good only when it is due at that moment, whatever       *)
(* happened to it since the nightly job read it.                           *)
THEOREM PostsGoWhenDue == Spec => ErasedOnlyWhenDue
  <1> DEFINE WhenDue(r) ==
          \/ r \in removed /\ Deadline(r) < now /\ (appeal[r] # "PENDING" \/ r \in reopened)
          \/ /\ r \notin removed /\ deletedAt[r] # Null
             /\ \/ deletedAt[r] < now - Kept
                \/ \E x \in Erasers : on[x] = r /\ why[x] = "author"
  <1>1. ASSUME ContentInv, [Next]_vars, NEW r \in Rows, row[r] = "POST", row'[r] = "gone"
        PROVE  WhenDue(r)
    <2>1. PICK x \in Erasers : pc[x] = "delete" /\ on[x] = r /\ lock[r] = x
      BY <1>1, GoneByEraser DEF ContentInv
    <2>2. HeldDue(x) /\ why[x] \in {"author", "deleted", "removed"}
      BY <1>1, <2>1 DEF ContentInv, DueInv, LockInv, TypeInv, Reasons
    <2> QED
      BY <2>1, <2>2 DEF HeldDue, Erasable
  <1>2. ContentInv /\ [Next]_vars
           => [\A r \in Rows : row[r] = "POST" /\ row'[r] = "gone" => WhenDue(r)]_vars
    BY <1>1
  <1> QED
    BY <1>2, ContentCorrect, PTL DEF Spec, ErasedOnlyWhenDue
=============================================================================
